# TabWard in TLA+

TabWard lets MCP clients drive a user's Chrome. This directory holds TLA+
models of the protocols it is built from, the TLC configurations that check
them on small instances, and TLAPS proofs that hold for every instance. Every
definition is translated from the source named in the `map` of `PROJECT.json`;
the docs are quoted only where a property states what they promise.

## 1. The system

```
MCP client ── stdio ──> index.ts            one process per client
                          │ session.ts, accepted-work.ts
                          ▼
                        broker-client.ts ── HTTP POST /command ──┐
                                                                 ▼
   runtime.ts (lock, port file)                   broker-server.ts   one process
                                                    request ledger
                                                         │
                                                    scheduler.ts
                                                         │
                                                    bridge.ts ──── WebSocket ────┐
                                                    pending, confirmed           ▼
                                                            background.js  (service worker)
                                                              outbox (IndexedDB), resource gate,
                                                              tab ownership, settings, CDP, ...
```

| component | state it keeps | operations | what makes it correct |
|---|---|---|---|
| command classification (`scheduler.ts`, `stage-three.js`) | none | `classifyCommand`, twice | the extension is never laxer than the broker |
| broker scheduler (`scheduler.ts`) | queues, two rings, active sets, admission load | `schedule`, `cancel`, `stop`, expiry, `#pump`, `#start` and its `finally` | slots never leak; isolation; admission order; the rotation is fair between two keys (between three, at more than one slot, it is not: section 5) |
| resource gate (`stage-three.js`, `background.js`) | queue, active resources, exclusive flag | `run`, `pump`, the `finally` of `start`, `withTimeout` | books match what runs; no lost wakeup; isolation; exclusive work gets through |
| operation delivery (`broker-client.ts`, `broker-server.ts`, `bridge.ts`, `background.js`) | request ledger, pending and confirmed results, IndexedDB outbox, active operations | POST /command, retry, cancel, result, ack, backpressure, reconnect, replay, reconciliation | at most one dispatch; typed answers are true; every request is answered; no result is lost, and none is kept for ever unless its flush was missed |
| request cache (`broker-server.ts`) | the records of the ledger with their reservations, the byte counter | join, replace, recover, admit, settle, prune, evict | the counter is the sum of the records and within the budget; what is under way keeps its record |
| bridge handshake (`bridge.ts`, `state.ts`, `background.js`) | token at both ends, token file, pairing code with its attempts and lock, phase of every connection | hello, challenge, proof, confirm, approve, revoke, timeouts, replacement of a connection | a code survives few wrong guesses; whoever has the token gets its connection |
| MCP sessions (`session.ts`, `accepted-work.ts`, `index.ts`) | sessions, their tabs, closing phase, accepted calls | start, send, close, expiry, cleanup | no cleanup while accepted work runs; a close that waits is woken; what a completed cleanup had found is released |
| tab ownership and settings (`background.js`, `stage-two.js`) | ownership records, work tabs, user settings | open, adopt, release, handoff, close, cleanup, child tabs, access switch | no access without the switch; only created tabs are closed; no orphan record |
| workspace windows and groups (`background.js`) | windows and groups per session | create, reuse, forget, visuals | snapshot writes do not undo each other |
| CDP, tracing, screencast (`background.js`, `stage-three.js`) | attachment and its record, event broker, claims on long-lived resources | attach, detach, start and stop of a resource, composite QA, end of turn, cleanup, release | a session never takes another's claim |
| Clean QA (`background.js`) | lease and policy per session, incognito tabs and windows | open, validate, taint, use, release, expiry | a command is let in only where nothing foreign is incognito; only owned tabs are closed |
| approvals (`background.js`, `security.js`) | pending records, trusted hosts, authorizations | request, decide, trust, expire, consume, settle | no effect without a consent that held at its last check; nothing is asked for in vain |
| downloads (`background.js`, `stage-one.js`) | reservations and owned downloads | reserve, click, fulfil, roll back, delete, release | no slot is lost, no download has two owners |
| broker startup (`runtime.ts`, `broker-client.ts`, `broker-server.ts`) | lock file, runtime file, two ports | look, lock, spawn, listen, write, serve, shut down | every client finds the one broker that serves |
| tool surface, page automation, popup, wire types, scripts | none shared | | |

How they interact: a tool call becomes one `send` of the client, one record of
the ledger, one entry of the scheduler, one pending request of the bridge, one
frame, one outbox reservation, one pass through the gate and one handler; its
result goes back along the same path, is acknowledged when the broker holds it
and is deleted from the outbox on that acknowledgement. The client, the broker
and the worker fail separately, and each side of the socket handles several
messages concurrently, interleaved at every `await`.

What is hard here: handlers split by awaits in the worker; deadlines that race
answers; retries against a broker that may be another one; results replayed
from the outbox; caches at their limit; two schedulers (broker and gate) that
each have to keep exclusive work alone and let it through. `hazards` in
`PROJECT.json` lists each at the line where it bites, with the property that
watches it or the reason there is none.

## 2. Modules

| module | models | state | actions |
|---|---|---|---|
| `CommandLanes` | both `classifyCommand` | | |
| `OperationLanes` | the operations and the command each carries, for scheduler and gate | | |
| `ResourceIsolation` | the abstract promise of scheduler and gate: exclusive work alone, nothing shared among what runs | `waiting`, `running` | `Arrive`, `Withdraw`, `Finish`, `Shutdown` |
| `FairScheduler` | class `FairScheduler` | `sched` (the private fields), `late` (deadlines passed) | `Schedule`, `DeadlinePasses`, `Expire`, `Cancel`, `Stop`, `Dispatch`, `Complete`, `Release` |
| `ResourceGate` | `createResourceGate` and the command handler around it | `gate`, `phase`, `aborted`, `live` (handlers at work) | `Run`, `Abort`, `Refuse`, `Dispatch`, `Complete`, `Timeout`, `HandlerReturns` |
| `OperationDelivery` | one request from client to browser and back | `client`, `http`, `ledger`, `bridge`, `confirmed`, `socket`, frames, `outbox`, `exec`, `flush` | see below |
| `TabOwnership` | tab ownership, the existing-tab access switch and the commands and Chrome events that change them | `tabs`, `unborn`, `owned`, `access`, `session`, `cmd` (handlers at work), `child`, `gone`, `update` | see below |
| `SessionLifecycle` | the client process: sessions, accepted calls, close | `session`, `accepted`, `call`, `close`, `owner`, `coming` (writes nobody waits for), `late`, `slow` (history) | see below |
| `RequestCache` | the `/command` handler between the lookup of a record and its settlement | `requests`, `bytes`, `confirmed`, `flying` (history) | `Request`, `Settle`, `ResultRecovered` |
| `Handshake` | pairing and authentication, both ends | `stored`, `ext`, `srv`, `wire`, `current`, `token`, `file`, `temporary`, the pairing code | see below |
| `BrokerStartup` | `BrokerClient.start`, the startup lock, the life of a broker process | `client`, `lock`, `old`, `broker`, `bridge`, `ipc`, `runtime` | see below |
| `CdpOwnership` | the debugger of one tab | `tab`, `attached`, `effects`, `known`, `lease`, `broker`, `owners`, `traced`, `emulated`, `cmd`, `release`, `stray` | see below |
| `CleanQa` | the incognito window of a session | `tabs`, `lease`, `expired`, `policy`, `cmd`, `listener`, `guests` (history) | see below |
| `Approvals` | effects that need the user | `work`, `page`, `expired`, `aborted`, `records`, `sites`, `trusting`, `worker`, `consent` (history) | see below |
| `Downloads` | reservations and ownership of downloads | `handler`, `records`, `items` | see below |
| `Components` | the sum of seven components that share no state, for one run and one module of proofs | `part` and theirs | theirs |
| `*_proofs` | theorems and proofs of the module they are named for | | |
| `MC...` | instances for TLC | | |

**CommandLanes.** A command is what the two functions look at: the table its
type is listed in, its session, its tab and the Clean QA flag. `classifyCommand`
is the broker's lane, `gateScope` the extension's. The command names are
abstracted to the tables that contain them.

**FairScheduler.** JavaScript runs each method, timer callback and microtask to
completion, so each is one action and each action that frees something contains
the `#pump` it ends with. The queues of the class (one per session, one for
exclusive work) are projections of one list in admission order, because
sequence numbers are given in that order and used only to compare. A call goes
`idle -> queued -> started` (`#start` ran, its microtask did not) `-> running ->
settling` (settled, `finally` still to come) `-> idle`. Ids are used again: the
scheduler forgets them. `#pump` starts as many as `maxConcurrency` lets it, and
the order is determined by the rings and the queue; `pump` is nevertheless
written over sets of schedulers so that its loop is a bounded union instead of
a recursive operator (which the provers cannot handle).

**ResourceGate.** Sequence numbers are the relation `ahead`. A pass of `pump`
over the queue is stated by what it takes: `Taken` characterises the set of
commands a scan in order starts. `Timeout` is `withTimeout` in `dispatch`: the
call leaves the gate, its handler stays in `live` until `HandlerReturns`.

**OperationDelivery.** Actions are the handlers: `Ask`, `Reply`, `Retry`,
`AskNewBroker`, `DeadlinePasses` (client); `HandleCommand` = `ReplaceUnknown`,
`Join`, `Recover`, `Refuse`, `Admit`, and `Cancel`, `Expire` (broker); `SendNow`,
`Write`, `WriteFails`, `PendingTimeout`, `ReceiveResult`, `BrokerNotices`,
`Reconnect` (bridge); `Reserve`, `Enter`, `Finish`, `ReceiveCancel`,
`ReceiveAck`, `ReceiveBackpressure`, `FlushWhenReady`, `FlushAfterPause`, `FlushEnds`
(extension); `HttpDrop`, `LinkLost`,
`WorkerDies`, `BrokerDies` (faults). Frames in flight are a set, received in any
order, because the handlers of one socket interleave at their awaits. `flush` is
`outboxFlushPromise`: a flush replays the outbox over the connection it was called on,
stops when that one is lost (`dead`), and a call that finds one at work is answered by
it, so that a reconnect may replay nothing (`missed`). Bytes are
slots: one record, one confirmed result, one outbox entry each. Scheduler and
gate appear only as the freedom of a waiting operation to go on or not.

**TabOwnership.** A handler of the extension is what is left of it: the field
`todo` of `cmd` names one step for each stretch between two awaits that reads or
writes what is modelled, and between two steps anything else may run. Only
`stateStore.mutate` is atomic, so `Delete`, `Claim`, `Restore` and `Keep` are one
step each and everything around them is not. `Begin` admits a command under the
contract of the gate (compatible with all the gate holds, from the lanes of
`CommandLanes`); `Timeout` is `withTimeout`: the command leaves the gate, its
handler goes on. `CheckAccess`, `Assert`, `Verify` are `dispatch` and
`assertTabOwnership`; `CreateTab`, `Remember`, `GetTab`, `Look`, `Claim`, `Restore`,
`Confirm`, `Keep`, `Work`, `RemoveTab`, `Delete` the handlers; `Survey`,
`ReleaseNext`, `DropFails`, `Released` the loop of `commandReleaseWorkspace`;
`OpenChild`, `ChildLooks`, `ChildRemembered`, `UserCloses`, `Forgotten` Chrome's
events; `BeginUpdate`, `WriteSettings`, `SurveyAdopted`, `ReleaseAdopted` the
settings; `WorkerDies` the end of the service worker. Abstractions: what a
command does to the page is one step `work`; detaching the debugger, work-tab
records, groups and visuals are left out; a step inside `bestEffort` that hangs is
abandoned only where the code counts the failure (`DropFails`).

**SessionLifecycle.** The process is single threaded, so each stretch between two
awaits is one action: `Accept` (a call up to its first await), `Listed`, `Opened`,
`Adopted`, `Commanded` (what it does with an answer, up to the next await), `Fail`;
`Start`, `BeginClose`, `SendCleanup`, `EndClose`. The extension appears by its
records: `Perform` answers what they allow; a cleanup reads them once
(`SurveyWorkspace`), releases all or some of what it has found and answers by that,
without looking again (`PerformCleanup`). `coming` are the writes nobody waits for: a
handler that goes on after its call has failed or its close has ended, and the listener
of new tabs, which reads the opener's owner before it records the child (`ChildOpens`,
`LateWrite`); `late` remembers which records they made. Time is a countdown: `Tick` takes one
unit from every deadline and expiry, and is taken only when the process has
nothing to do and no deadline is due, because timers and answers are handled
before time is seen to pass. An expired session is deleted at once, which nobody
can tell from deleting it at the next look. Abstractions: capabilities, the
workspace window and the Clean QA taint of a session, a session whose naming
fails (it is closed before any client knows its id), and what the handlers do inside
(`TabOwnership` has that). `Timeouts` and `Short` are how long the client may wait
altogether: `timeout_ms` with what `broker-client.ts` adds to it (lines 249 and 266-279).

`SessionLifecycle` and `TabOwnership` meet in the ownership records: `owner` of the
one is `owned` of the other seen from the client, and `session` of `TabOwnership` is
what the client may send. Both know the records that a cleanup does not see: `late`
here, the flag `late` of a record there.

**RequestCache.** One `Request` is the whole synchronous part of the handler: prune
by age and count, join of a record of the same content, replacement of an unknown
outcome by a confirmed result, recovery of a confirmed result, eviction of settled
records, admission or refusal. `Settle` is the `then` of `bridge.send`, which learns
that an answer is larger than what was reserved for it. `OperationDelivery` has the
same ledger with slots for bytes and all that is around it; this module has the bytes.

**Handshake.** The messages of a connection alternate, so one is under way at most.
`connectTransport`, `Opened`, `approvePairing`, `revokePairing`,
`handleTransportMessage` are the extension's handlers, `authenticate` the bridge's
(`hello`, `pairing_approve`, `pairing_confirm`, `auth_response`, `auth_confirm`, and
`writeFile`, `rename`: `createPairingToken` awaits the file system twice and goes on
when its connection is gone); `HandshakeTimeout`, `ConnectionLost`, `CodeExpires`,
`LockPasses`, `BrokerRestarts` are timers and faults. A proof is the key it was made
with: it is accepted by whoever has the same key. Abstractions: nonces (a message
belongs to its connection), the limit of unauthenticated connections, versions.

**BrokerStartup.** A client looks at the runtime file (`Look`), waits for or breaks a
lock (`StatLock`, `RemoveLock`, two system calls), takes it (`tryAcquireStartupLock`),
looks again, spawns a broker, polls (`Poll`) and removes the lock, whoever made it
(`releaseLock`). A broker takes the bridge's port, then the clients' (`BridgeStart`,
`Listen`), writes the runtime file, serves, and closes the bridge before the server
(`StopBridge`, `CloseServer`). Clients and brokers may be killed between any two.

**CdpOwnership.** `Begin` is a command up to its first await, with the checks of
claims it makes there; `Attach`, `Lease`, `Send`, `Store`, `QaSuspend`, `Wait`,
`Detach` are what is left of it, one step for each stretch between two awaits.
`Revoke`, `RevokeDetached` release the tab without the gate; `StrayDetached` is a detach
whose caller has given up, which any command but `detach` itself may leave behind (the
`bestEffort` detach of `cdpSend` among them); `ChromeDetaches`, `TraceCompletes`, `WorkerRestarts` come
from outside. Effects in Chrome (`effects`) are apart from what the extension
believes of them (`owners`). The bounded buffers of events and frames are left out.

**CleanQa.** `Begin` to `Forget` are the steps of one Clean QA command (they run one at a
time): `prepareCleanQa`, the three reads of the validation, `markCleanQaTainted`, then
`Use`, or creation of the window with `Remember`, `Activate` and the second validation, or
`releaseWorkspace` with its inventory. `ListenerRemember`, `ListenerStore`,
`ListenerValidate` are the listener of new tabs, which writes back the leases it has read,
as the validation of a command and the second snapshot of `openTab` do;
`UserOpens`, `UserCloses`, `PageOpens` the world.

**Approvals.** `Authorize`, `createPendingApproval`, `consumeApproval`, `SettleApproval`,
`Recheck`, `Dispatch`, `cdpAttach` are the operation, from the policy to the effect: after
the last checks the command follows at once only where the debugger is attached already;
`decidePendingApproval`, `TrustReads`, `TrustWrites`, `saveSettings` the popup;
`Navigates`, `TimePasses`, `Aborts`, `WorkerRestarts` what may come in between.

**Downloads.** `Start`, `reserveDownload`, `Click`, `Signal`,
`reconcileCreatedDownload`, `DownloadImage`, `Fulfil`, `Rollback` are a command;
`DownloadCreated`, `TabCreated` what its listeners see first; `DeadlinePasses` takes the gate from
it and lets its handler go on; `commandDeleteDownload`, `releaseSessionDownloads`, `WorkerDies`.

## 3. Runs

| run | instance | shows |
|---|---|---|
| `coordination` | gate: 2 sessions, 2 tabs, 5 commands, one exclusive; tabs: 2 full-profile sessions, a tab of the user and one opened later, 2 commands at once, the popup, 1 timeout or 1 worker death | gate: `GateTypeOK`, `HoldsWhatRuns`, `NothingLeftWaiting`, `ExclusiveBarrier`, `GateIsolation` (it implements `ResourceIsolation`); tabs: `TypeOK`, `NoWorkWithoutAccess`, `RevocationReleases`, `AdoptionTakesNothing`, `PreservesUserTabs`, `ClosedSessionOwnsNothing` |
| `progress` | scheduler: 2 sessions, 1 shared tab, 6 calls (tab, tabless, Clean QA, exclusive, anonymous exclusive), concurrency 1 and 2, queue limits 3; calls that keep coming back, with fairness: 2 sessions on one tab beside anonymous exclusive work, exclusive work of 2 origins, 3 sessions on one tab at concurrency 1; handshake: 2 profiles, 3 tokens, 2 codes, 1 fault, fairness | `TypeOK`, `AdmissionAccounting`, `RingsListWaitingWork`, `WorkConserving`, `AdmissionOrder`, `SchedulerIsolation` (it implements `ResourceIsolation`); `WatchedLeavesQueue`: what is admitted leaves the queue without help of its deadline, under those loads; `PairedReconnects`: a profile with the broker's token gets its connection |
| `starvation` (violation) | 3 sessions, two of them on one tab and busy, concurrency 2 | the docs' "prevents a flooded session from starving a sparse one" fails for a sparse session whose tab is in use when its turn comes |
| `gate_timeout` (violation) | 2 commands on one tab | the docs' "all operations on the same tab serialize" fails for handlers after a timeout |
| `delivery` | an action and a read, each asked up to twice, 1 confirmation slot, 1 outbox slot, 1 fault | `TypeOK`, `OnceAndTruthfully`, `AcknowledgedIsRetained` where two operations compete for slots |
| `delivery_faults` | an action or a read (which may be repeated on a new broker), 4 faults, fairness | `OnceAndTruthfully`, `EveryRequestAnswered`, `DrainsUnlessMissed`: a result in the outbox is taken over and leaves it in the end, unless the flush of the connection was answered by one of a lost connection |
| `ledger_eviction` (violation) | 2 ledger slots | a retry whose record was evicted is dispatched again, against the comment in `broker-client.ts` |
| `components` | the sum of eight small instances, see below | `TypeOK`, `ForeignClaimsSurvive`, `EffectNeedsApproval`, `ActionableHasWaiter`, `DownloadsAccounted`, `CacheWithinBudget`, `RuntimeNamesServer`, `FailsClosed`, `GuessesPerCode` |
| `clean_qa` (violation) | 2 sessions, 3 incognito tabs, 2 windows | a tab the user opens in the Clean QA window before its second validation is closed with it, against `README.md` and `docs/architecture.md` |
| `approvals` (violation) | 2 operations, 1 host, one navigation | a raw CDP command that has to attach the debugger first reaches a document it was not approved for, or goes after its approval has expired, against `README.md` |
| `settings_revoked` (violation) | the popup and a trust decision | access that was switched off comes back without being asked for, against `docs/security.md` |
| `sessions` | 2 sessions of either mode; 2 calls at once over 1 tab, or 1 call at a time over 2 tabs with a write that nobody waits for | `TypeOK`, `CleanupFollowsAcceptedWork`, `TabsAreExclusive`, `PinCoversCleanup`, `ClosedIsReleased`, `WaitsForAcceptedWork` |

**Sums.** Components that share no state are checked in one run: a behaviour of
`components` is that of one of them, chosen in the initial state, over a common
tuple of variables, so that the run has the sum of their states and not the product.
`progress` does the same for scheduler and handshake and their fairness (each condition
of fairness speaks of the part at work), and watches one operation of the scheduler in
each behaviour that is followed; `coordination` for the gate and two scenarios of the
tabs, adoption of a tab of the user with the switch, and tabs opened, closed and opening
children; `sessions` for its two instances. Permuting one pair of
values of each component at once is a symmetry, since a component knows only its
own; runs with liveness use none.

The parts of `components`: CDP claims with 2 sessions and one abandoned detach, once
with the resources of composite QA (events, emulation) and once with those that end
by themselves (tracing, screencast); approvals with 2 operations, 1 host, a history of
1, one navigation of each tab and one restart; downloads with 2 sessions, 3 commands,
2 slots, 1 download; the request cache with 3 operations, 2 contents, 2 records, 4 bytes,
sizes 1 and 3; startup with 2 clients, 3 brokers, one process killed; Clean QA with 2
sessions, 3 tabs, 2 windows; the handshake with 2 profiles, 3 tokens, 2 codes, 2 attempts,
1 fault.

**Bounds, and why they are enough.** Scheduler: two sessions are the smallest
number between which round robin, tab conflicts and overtaking can happen; three
queue slots are filled by the six calls, so that both the per-session and the
total limit refuse; concurrency 1 makes everything wait, 2 lets tab work run in
parallel and exclusive work wait for it. The ids come back, so behaviours are
unbounded. Progress: three calls of one origin, or of one session, keep its queue from
ever being empty; two origins, and two sessions that use one tab, are where the
rotation must be fair and a blocked key be skipped; from three keys at concurrency 2 on
it is not fair (`starvation`), and with one slot nothing is ever skipped, which three
sessions show. Gate: one command can be blocked by session, by tab, by both and by
an exclusive one. Delivery: `MaxFaults` bounds the faults of a behaviour (a lost
socket, a killed worker, a restarted broker and a dropped HTTP request count one
each); four allow the chain lost reply, restarted broker, lost connection, killed
worker, and timeouts and cancellations come on top. `MaxAsked` bounds the
operations asked in a behaviour: under one fault two operations meet
in the slots, under four one operation is followed alone. `MaxConfirmed = 1`,
`OutboxLimit = 1` and `MaxRequests = 2` make the limits bite with two operations.
Tabs: two commands are what two steps of one can be torn apart by; `Op` bounds
the commands at work at once, not those of a behaviour, so a tab may be adopted,
handed off and adopted again any number of times, and the settings are switched
without bound. `MaxTimeouts` and `MaxDeaths` bound the handlers that outlive their
deadline and the worker deaths; a behaviour of the tabs has one or the other. Sessions:
`Short = 1` is the 60 s of every command that is given no deadline of its own, `Pin = 5` the
300 s of a closing session, `Ttl = 1` the shortest `ttl_seconds`, and `Timeouts` are the
120 s from which a lookup, the command and the cleanup still fit the pin and the 180 s from
which they do not; the tools allow 0.1 to 600 s. `MaxComing = 1` lets one write come
late at a time, in a part of its own where one call is at work: a close, the call before it
and that write are three actors already.

CDP: every conflict is between two sessions; a tab is one because nothing is shared
between tabs but the storage, written key by key; one stray detach is what `withTimeout`
can leave behind beside the next command. Approvals: a history of one makes the second
request push out the first, as the twenty-first does. Downloads: with two slots and three
commands one is refused, and one late handler meets two commands after it; one download
is what two can fight for. Request cache: sizes 1 and 3 of 4 bytes make one settled
record leave room or not, and let an answer exceed its reservation and the budget.
Startup: two clients may hold the lock at once and each spawns a broker, a third broker
comes after one was killed. Clean QA: the window's own tab, one of a page and one of the
user are three; two windows tell the session's from another. Handshake: a token that is
replaced and replaced again needs three values, the code and its rotation two; two profiles
are two extensions that contend for one bridge.

**Deadlock.** `CHECK_DEADLOCK FALSE` is said only where the system may stop: a
stopped scheduler, a client whose requests are all answered, tabs that are all closed
together with their sessions, components that are done (a dead broker, commands that have
all run). `gate_timeout`, `starvation` and `sessions` check for deadlock.

**Fairness.** Scheduler: timers fire (`Expire`), microtasks run (`Dispatch`,
`Release`) and a dispatched call settles (`Complete`), since the bridge rejects
it at its deadline if nothing else does; nobody has to call, cancel or stop, and
deadlines need not pass, so `WatchedLeavesQueue` does not come from expiry. Delivery:
timers fire, received frames are handled, handlers settle, a flush ends, the extension
keeps reconnecting (its alarm does); no fault, cancellation or request is assumed.
Handshake: the extension reconnects, a socket opens, messages arrive at both ends, the
timer of a handshake runs out; nobody has to type a code, and codes and locks need not
pass. The other modules state no fairness: their properties are safety ones.

## 4. Proofs

All proofs are checked by `tlapm` for every number of sessions, tabs, operations and
processes and every option the constructor accepts; they rest on the assumptions
`LaneAssumption`, `OperationAssumption`, `SchedulerAssumption`, `SessionAssumption`,
`OwnershipAssumption`, `RecordAssumption`, `DeliveryAssumption` and `ComponentsAssumption`
(those of the seven components together; the markers `NoSession`, `NoTab`, `None` are no ids, the
operations are finitely many, each carries one command, options are in range, tab and
session ids are distinct, lengths of time are positive, three short deadlines fit the pin
as 3 times 60 s fit 300 s, bounds are numbers), which TLC evaluates on every run that has the
module.

*FairScheduler_proofs.* `TypeCorrect`, `AdmissionIsAccounted`,
`SchedulerIsolates` (`Spec => SchedulerIsolation`, the refinement), `SchedulerConservesWork`,
`AdmissionKeepsOrder` and `RingsListTheirWork`. The first three are not inductive:
that `active` counts the active calls is only kept by a release if no call is
active twice; that `load` is exact needs that the queue lists each queued call
once; that a start claims free resources needs that `activeSessions` and
`activeTabs` are those of the active calls. The inductive invariant `IInv` joins
them: `QueueInv` (type, no duplicate in the queue, the queue counter, every
waiting key in its ring), `LoadInv`, `ActiveInv` (counter and sets are those of
the active calls) and `Alone` (they are isolated). Each event changes the
scheduler and then pumps, so the proof has two halves: `WithdrawKeepsInv`,
`ReleaseKeepsInv`, `EnqueueKeepsInv`, `DispatchedKeepsInv`, `StopKeepsInv` for the
events and `PumpKeepsInv`, from `StartKeepsInv`, for what follows. Under them lie
lemmas on `RemoveAt` and on the rings. Refinement: a pump maps to `Grant`
(`PumpGrants`).
`WorkConserving` is what a pump leaves behind and needs that its loop ends because
nothing is eligible and not because it was cut off: every round either starts an operation
or is settled, and four rounds are enough because `maxConcurrency` is at most four.
`AdmissionOrder` follows from `Orderly(s, r)`, which says of two states that what still
waits kept its order and that nothing which left overtook what it must follow; it is
transitive, so that it goes through the rounds of a pump, and `EligibleFollowsNothing` is
its heart.
`RingsListWaitingWork` follows from `RingsExact`: the members of a ring are the keys of
what waits, each is listed once and the index is inside. It is inductive on top of
`IInv`, because a key leaves the ring exactly when its last waiting operation does
(`RemovalIsExact`).

*ResourceGate_proofs.* `GateHoldsWhatRuns`, `GateTypeCorrect`,
`GateBarrierHolds` (an action property), `GateLosesNoWakeup` and `GateIsolates`. The inductive
invariant is `GateInv`: the books of the gate match the phases (`HeldInv`), the
arrival order is total on the queue (`OrderInv`: without it two exclusive
commands could both be first) and what is held is apart (`Apart`).
`PumpedAreApart` shows that the commands one scan takes are isolated from each
other and from those that hold the gate; `PumpLeavesNothing` that what it leaves is behind
an exclusive command or wants what is held. That no step undoes this without a pump is
`NextLeavesNothing`.

`GateIsAsStrict`, a lemma of its own on `CommandLanes`: whatever the gate runs beside
other commands, the broker's `classifyCommand` put in a session lane, with the session and
the tab among the resources the gate locks.

*SessionLifecycle_proofs.* `TypeCorrect`, `CleanupIsExclusive`, `NoWaitIsLost`,
`SessionsShareNoTab`, `ClosedSessionsAreReleased` and `CloseFitsThePin`. The inductive
invariant `IInv` joins the type with `CountInv` (the count of the tracker is the number
of calls at work, without which neither "zero means nobody works" nor the wake-up could
be shown), `StateInv` (a close at work has its session in `closing`, so nothing is
accepted after it; a closed session has no call), `WaitInv` (who waits has a call, who
no longer waits has none), `ReleaseInv` (from the survey of a cleanup on, a record of its
session is one the survey has found and the cleanup not yet given up, or one made late:
no call of the session is left that could make another, and a cleanup that reports
completed has given up all it had found), `AskInv` (a call
that asked about a tab has one) and `TabsAreExclusive`. One lemma for each action
(`AcceptKeeps`, `PerformKeeps`, ...); those in which a call ends or learns of tabs share
`LeaveKeepsBooks` and `LearnsKeeps`. `ExclusiveKept` says when a step keeps the sessions
apart. `CloseFitsThePin` adds `PinInv`: `Needs(c)` is the time a call may still take,
with the command that follows a lookup and the cleanup after it (`Following`: the
longest command a session that is not in `slow` asks for); outside `slow` every call
needs less than the pin, and what waits for calls needs less than the session has left
(`CloseFits`), so that both sides count down together. A lookup is followed by one
command and not by another lookup because only managed sessions list tabs and they adopt
none (`ModeInv`). The proof set the threshold of `slow`: a session is in it from a
command on that may take `Pin - 2 * Short` = 180 s, and TLC finds the property violated
when the lookup before the command is forgotten. A close therefore crosses the expiry of
its session only as long as no command of it was allowed three minutes or more.

*TabOwnership_proofs.* `TypeCorrect`, `UserTabsAreKept` and `WorkNeedsAccess`, and with a
second invariant `AdoptionIsNotTheft`, `ClosedSessionsKeepNothing` and
`SwitchingOffReleases`. For the first three: what
protects a tab is the order of the steps a handler has left, so the inductive invariant
speaks of that list. `Dangers(c)` are the steps command `c` must not take on its tab: if
the user had it open, `remove` and `remember`, and `work` too unless access was seen
on. `Good` says that each dangerous step of the list has one before it that keeps it from
being reached (an assertion still to fail, or the one for created tabs before `remove`), and
that a throw inside the handler resumes behind all of them (`Ordered`). Lemmas on lists
say what taking, skipping or adding a step does to `Good`
(`TailIsGood`, `SkipIsGood`, `ConsIsGood`, `ConsAssertion`, `ResumptionIsGood`), and each
action has one lemma. The other half is `OwnedInv`: no tab of the user is ever recorded,
or remembered behind a release, as created. `HeadIsSafe` then gives both
properties: a step that is ready has nothing before it.

The other three are about whose a record is, and need the exact lists: `PlanInv` says
what an adoption and a release can have left (`AdoptPlans`, `ReleasePlans`) and that
the commands the gate still holds are compatible, so that a release is alone in it and no
two adoptions of a tab are (`GateExcludes`). `Stepped(op)` then says once, for all actions
of a command, what a step may do to records, session, survey and doubt (one lemma for
each action: `ClaimSteps`, `RestoreSteps`, ...); Chrome's events, settings and the death of
the worker are `Outside`. On these rest
`Alone` (an adoption in the gate, about to claim, has no live record before it that a
command of the gate wrote in time), `Progress` (a release in which nothing failed still
accounts for each record of its session that was not late) with `SessionsFit` (what the
gate holds for a session finds it active, or closing if it is the release), and
`RevokedInv` (with access off, an adopted tab is on the list of the switch, or its adoption
has yet to look at access once more). `SwitchingOffReleases` assumes that the
popup is the one writer of the settings, as the run does: the stale write of an approval
puts access back on without the user, which `settings_revoked` shows.

*OperationDelivery_proofs.* `RunsOnceAndTellsTruly`, `AcknowledgesOnlyWhatItKeeps` and
`TypeCorrect`. The inductive invariant `IInv` (`InductiveInvariant`) follows one
operation: `OnePlace` (its command exists in one place at a time on its way into the
browser, and beyond the frame in flight nobody knows of it), `Truthful` (whoever holds an
answer - client, HTTP reply, ledger, confirmed results, outbox, a frame - holds one that is
true of the browser and stays so), `Retained` (what is reported is what the outbox keeps,
and an acknowledgement on its way names a result the broker has). These three
hold for what the ledger has not evicted and is not a read (`Tracked`), exactly the
exceptions of the properties; of every operation hold `AsksOverHttp` and
`OutboxRemembers`: until its result is taken over, a dispatch is remembered by the outbox,
so that a repeated read runs again only after that. One lemma for each handler and fault
(`ReserveKeeps`, `ReconnectKeeps`, ...). `TypeCorrect` adds `Books`: the ids in order of age
are those on record, each once, within the limit, and what is with the bridge is on record,
so that what settles has a place in that order; under it lie lemmas on removing from and
appending to the list (`RemoveAtProperties`).

*CdpOwnership_proofs.* For `ClaimsAreKept` and `TypesAreKept`. A step that clears claims
is right only if what an earlier step of the same command has read still holds, so the
inductive invariant is `Typed` (with: no broker, no claims) and `Careful`: a command
gives back only claims of its own session, composite QA restores a snapshot that has
every foreign claim, and who waits for a detach has seen no foreign claim, and none can
be made while it is at work. That last part is why the commands of one tab must go
through the gate. The types of the rest need that a command which switches something on
does so for a resource of the model (`Switches`), and what one step of a command can
turn it into (`Becomes`).

*RequestCache_proofs.* For `CacheStaysWithinBudget`. The counter is changed by
differences and compared with a sum over the sequence of records, so most of the module
is about sums: `TotalAppend`, `TotalRemoveAt`, `TotalReplaced` and the lemmas under them
say what a sum is after one record is added, removed or replaced, by induction over
positions. That induction (`Induction`) speaks of sets and rests on the well-founded
order of the naturals (`WFMin`), because the induction theorems of the library cannot be
instantiated here. The inductive invariant (`Good`) is that the counter is the sum and
within the budget, that no id is on record twice and that what is under way has its
record. Eviction takes only what is settled and yet always makes enough room: what
cannot be evicted took no more than the budget when it was admitted, so after a
settlement that is larger than its reservation (`GrownGood`) evicting what is settled is
enough.

*Components_proofs.* The theorems about the sum, one property of the run `components`
each: a step of `Components` is a step of the component at work, whose invariant is
inductive under its own next-state relation.

- `ClaimsAreKept` and `CacheStaysWithinBudget` from the two modules above.
- `SlotsAreAccounted`, from `RunsTyped`, `SlotsHeld` (a slot without download is the reservation
  of its command, as that command would write it, so that it can still be filled or given
  back) and `OneOwner`. `KeepsSlots` and `OneMoves` are what most steps share.
- `TypesAreKept`, whose bounds are the part that could fail: download slots (`SlotCount`: one
  is taken only when there is room, and filled in place), pairing attempts, stray detaches,
  faults. The records and messages of the handshake need `HandshakeTypes`, where a message
  that completes a pairing carries a token, so that what is stored is one; the other
  components have their types in the invariants below and above.
- `ServerIsNamed`. The lock plays no part in the argument: a broker has the port for
  clients before it writes the file and keeps it as long as it lives, so nobody else can
  write (`StartupInv`).
- `GuessesAreBounded`. The guesses at a code are among the attempts counted; a lock has
  changed the code, and the count stays full until a hello sets it back together with the
  lock (`GuessInv`).
- `EffectsAreApproved`, an action property, and `AnswersAreWaitedFor`, from `ApprovalInv`.
  The consent is recorded for the document shown when the user answers, and the effect
  compares documents only at its ends. The theorem says what holds at the last check, in
  time, uncancelled and with consent, and that an upload reaches its own document only. It
  says nothing of what changes while a raw command waits for the debugger: the approval may
  expire or the tab navigate then, which the run `approvals` shows. The recorded consent is
  the right one because a document number only grows: an answer lies between the document of the request and the present one
  (`AnsweredSince`), and the last comparison makes the two the same. The rest says which
  records an operation can still have: one at most, answered only while its operation
  waits or has yet to settle, and none pending once its request is granted.
- `CleanQaFailsClosed`, from `QaInv`. The stored lease cannot carry the argument, since the
  listener writes back stale ones. What does: a tab of the user never has an ownership
  record, so a command that began while one was incognito has it in its inventory and
  finds it not its own, unless it is gone; from then on the command itself knows the
  lease as tainted, whatever becomes of the stored one.

*Only model-checked.* Liveness (`WatchedLeavesQueue`, `PairedReconnects`,
`EveryRequestAnswered`, `DrainsUnlessMissed`): fairness and ENABLED are out of the prover's reach.
They are checked by the runs `progress` and `delivery_faults`. Every invariant and every
action property of a passing run is proved, and so are the refinements of
`ResourceIsolation`. (The run `coordination` checks the gate's properties through an
INSTANCE of `ResourceGate`, under the names given above; the theorems are about the module
itself.) The six runs that expect a violation refute a sentence of the
documentation and have nothing to prove.

## 5. Where code and documentation disagree

| run | the code | what is said of it |
|---|---|---|
| `starvation` | the rotation skips a session whose tab is in use and goes on behind the one it serves; sessions whose queue ran empty come back behind the index | `docs/architecture.md`: round-robin dispatch prevents a flooded session from starving a sparse one |
| `gate_timeout` | a command that reaches its deadline frees its tab while its handler goes on | `docs/architecture.md`: all operations on the same tab serialize |
| `ledger_eviction` | a settled record is evicted before its client has the reply; the retry is new work | comment in `broker-client.ts`: repeating an operation id only joins or returns its result |
| `clean_qa` | `openTab` validates its new window again and, if the lease is tainted, removes the whole window with whatever the user has opened there | `README.md`: closes only its owned Clean QA window and fails closed; `docs/architecture.md`: preserves the window if ownership cannot be confirmed |
| `approvals` | `cdpSend` attaches the debugger, up to ten seconds, between the last check of a raw command and the command | `README.md`: approvals expire after five minutes and navigation invalidates them |
| `settings_revoked` | `updateUserSettings` writes back what it read, so a concurrent decision restores access the user has just revoked | `docs/security.md`: the user can revoke it at any time |

Met while modelling, in the models as the code has it, and against no sentence a run could
refute, or without consequence for the properties above:

- A call of `flushOutbox` is answered by a flush still at work, even one of a lost
  connection, which sends nothing any more: after such a reconnect a result waits for the
  next backpressure or the next reconnect (`DrainsUnlessMissed` leaves this case out).
- A child tab, or a handler past its deadline, may leave an ownership record for a session
  that was closed as completed: the cleanup does not look at the records again
  (`ClosedIsReleased` and `ClosedSessionOwnsNothing` say which records those are).
- A tab handed off twice comes back as released, with the answer ok (`Keep`, `Restore`);
  and `adoptTab` is sent before `assignTab` may refuse the tab, so the extension can keep
  one for a session that does not know it, until its cleanup.
- The listener of new tabs writes back the Clean QA leases it has read: it may bring back a
  lease that was forgotten or undo a taint (`ListenerStore`). `FailsClosed` holds in spite
  of it, because every command looks at the incognito tabs themselves.
- `releaseWorkspace` closes a Clean QA window on an inventory taken before, so a tab the
  user opens in between goes with it; in its tainted path it forgets a tab even if both
  attempts to remove it have timed out.
- When a completed `releaseWorkspace` loses its reply, the policy of the session is gone
  and the retry fails with `SessionPolicyError`; a `nameSession` that times out leaves a
  ready lease until it expires.
- A pending approval can be pushed out of the 20-record history while its operation waits
  (it then ends by its deadline); `trust_host` writes back the settings it has read.
- A closing session is pinned for 300 s, but a tool may be given up to 600 s (uploads and raw
  CDP have 360 s by default): a command of three minutes or more, accepted before the close,
  can outlast the pin, and the cleanup after it finds its session expired
  (`PinCoversCleanup` leaves such sessions out).
- Downloads: a click that opens a tab first gives its reservation back, and the download
  that follows belongs to nobody; a late handler may reserve after its session was
  released.
- Startup: a lock is removed by its path, whoever made it, so two clients may hold it;
  `ServerIsNamed` shows why this does no harm.
- Pairing: two confirmed pairings share one temporary file, after which the token in
  memory may not be the one in the file until the broker restarts.
- A tracing claim may stay `stopping` with no trace left to end it, until the tab is
  released or detached.
- `evictSettled` at a full cache may evict the record that has just settled; a confirmed
  result nobody asks for stays in memory as long as the broker, and after 128 of them
  further results get backpressure.

## 6. Not modelled, and why

- Tool schemas, page automation, rendering of the popup, wire types, artifacts and telemetry:
  input and output inside one admitted command, without state that other parts share.
- Scripts, packaging, test harness: outside the running system.
- Workspace windows and tab groups: what is at stake is what the user sees; no document
  states a property of them. Their records are written back whole after an await, which
  `hazards` lists. Work-tab records and work summaries likewise.
- Parts of modelled components, named in `PROJECT.json`: the limit of unauthenticated
  connections and the version checks, the event and frame buffers of CDP, capabilities and
  the workspace of a client session, the cleanup of expired sessions in the worker.

## 7. Plan

What a continuation would add, in this order:

1. Composition of scheduler, bridge and gate: `scheduler.cancel` between `#start` and
   its microtask, which `OperationDelivery` takes as one step; composition of
   `SessionLifecycle` with `TabOwnership` as a refinement of what `Perform` promises.
2. Cleanup of expired sessions in the worker beside commands of the same session.
3. Refinement between the two models of the request ledger, slots in `OperationDelivery` and
   bytes in `RequestCache`.
