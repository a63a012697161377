---------------------------- MODULE BrokerStartup ----------------------------
(* Several MCP clients start at once and want one broker: the runtime file   *)
(* that names it, the lock of the one who spawns it (broker-client.ts,       *)
(* runtime.ts), and the two ports that a broker takes in turn                *)
(* (broker-server.ts, bridge.ts).                                            *)
EXTENDS Integers, FiniteSets

CONSTANTS Client, Broker, None,
          MaxCrashes  \* bound: clients and brokers killed

BrokerStartupAssumption ==
  None \notin Client \cup Broker /\ MaxCrashes \in Nat

VARIABLES
  client,   \* where each is in BrokerClient.start
  lock,     \* broker-start.lock: the client that made it
  old,      \* its age is more than 15 s
  broker,   \* where each broker process is
  bridge,   \* who has the port of the bridge
  ipc,      \* who has the port for clients
  runtime,  \* the broker that runtime.json names
  crashes

vars == <<client, lock, old, broker, bridge, ipc, runtime, crashes>>

ClientPhase == {"idle", "unhealthy", "clear", "acquire", "holding", "polling", "waiting",
                "release", "release_failed", "started", "failed"}
BrokerPhase == {"none", "spawned", "bridge", "listening", "written", "serving", "closing", "dead"}

TypeOK ==
  /\ client \in [Client -> ClientPhase]
  /\ lock \in Client \cup {None} /\ old \in BOOLEAN
  /\ broker \in [Broker -> BrokerPhase]
  /\ {bridge, ipc, runtime} \subseteq Broker \cup {None}
  /\ crashes \in 0..MaxCrashes

Init ==
  /\ client = [c \in Client |-> "idle"]
  /\ lock = None /\ old = FALSE
  /\ broker = [b \in Broker |-> "none"]
  /\ bridge = None /\ ipc = None /\ runtime = None
  /\ crashes = 0

lockVars == <<lock, old>>
brokerVars == <<broker, bridge, ipc, runtime>>

-----------------------------------------------------------------------------
(* BrokerClient.start                                                        *)

Goes(c, phase) == client' = [client EXCEPT ![c] = phase]

(* readRuntime, then healthy: the broker that the file names answers on its  *)
(* port, to its token.  It may not answer in time.                           *)
Healthy == runtime # None /\ ipc = runtime /\ broker[runtime] \in {"serving", "closing"}

(* The first look, and the one with the lock in hand: whoever finds nothing  *)
(* spawns a broker.                                                          *)
Look(c) ==
  /\ \/ /\ client[c] = "idle"
        /\ (Healthy /\ Goes(c, "started")) \/ Goes(c, "unhealthy")
        /\ UNCHANGED broker
     \/ /\ client[c] = "holding"
        /\ \/ Healthy /\ Goes(c, "polling") /\ UNCHANGED broker
           \/ /\ Goes(c, "polling")
              /\ \E b \in Broker : broker[b] = "none" /\ broker' = [broker EXCEPT ![b] = "spawned"]
  /\ UNCHANGED <<lockVars, bridge, ipc, runtime, crashes>>

(* clearStaleStartupLock: its age is read, then it is removed.               *)
StatLock(c) ==
  /\ client[c] = "unhealthy"
  /\ Goes(c, IF lock # None /\ old THEN "clear" ELSE "acquire")
  /\ UNCHANGED <<lockVars, brokerVars, crashes>>

RemoveLock(c) ==
  /\ client[c] = "clear"
  /\ Goes(c, "acquire")
  /\ lock' = None /\ old' = FALSE
  /\ UNCHANGED <<brokerVars, crashes>>

tryAcquireStartupLock(c) ==
  /\ client[c] = "acquire"
  /\ IF lock = None
       THEN Goes(c, "holding") /\ lock' = c /\ old' = FALSE
       ELSE Goes(c, "waiting") /\ UNCHANGED lockVars
  /\ UNCHANGED <<brokerVars, crashes>>

(* Ten seconds of looking.                                                   *)
Poll(c) ==
  /\ \/ client[c] = "polling" /\ ((Healthy /\ Goes(c, "release")) \/ Goes(c, "release_failed"))
     \/ client[c] = "waiting" /\ ((Healthy /\ Goes(c, "started")) \/ Goes(c, "failed"))
  /\ UNCHANGED <<lockVars, brokerVars, crashes>>

(* The lock is removed by its path, whoever has made the one that is there.  *)
releaseLock(c) ==
  /\ client[c] \in {"release", "release_failed"}
  /\ Goes(c, IF client[c] = "release" THEN "started" ELSE "failed")
  /\ lock' = None /\ old' = FALSE
  /\ UNCHANGED <<brokerVars, crashes>>

(* A client that has failed, or is done, may be started again.               *)
StartAgain(c) ==
  /\ client[c] \in {"started", "failed"}
  /\ Goes(c, "idle")
  /\ UNCHANGED <<lockVars, brokerVars, crashes>>

LockAges ==
  /\ lock # None /\ ~old /\ old' = TRUE
  /\ UNCHANGED <<client, lock, brokerVars, crashes>>

-----------------------------------------------------------------------------
(* broker-server.ts, from its start to its shutdown.                         *)

Becomes(b, phase) == broker' = [broker EXCEPT ![b] = phase]

(* A port that is taken ends the process, and with it what it holds.         *)
Exits(b) ==
  /\ Becomes(b, "dead")
  /\ bridge' = IF bridge = b THEN None ELSE bridge
  /\ ipc' = IF ipc = b THEN None ELSE ipc

(* The file is written as soon as the first port is taken.                   *)
BridgeStartAndWrite(b) ==
  /\ broker[b] = "spawned"
  /\ IF bridge = None THEN bridge' = b /\ Becomes(b, "bridge") /\ runtime' = b /\ UNCHANGED ipc
     ELSE Exits(b) /\ UNCHANGED runtime
  /\ UNCHANGED <<client, lockVars, crashes>>

BridgeStart(b) ==
  /\ broker[b] = "spawned"
  /\ IF bridge = None THEN bridge' = b /\ Becomes(b, "bridge") /\ UNCHANGED ipc ELSE Exits(b)
  /\ UNCHANGED <<client, lockVars, runtime, crashes>>

Listen(b) ==
  /\ broker[b] = "bridge"
  /\ IF ipc = None THEN ipc' = b /\ Becomes(b, "listening") /\ UNCHANGED bridge ELSE Exits(b)
  /\ UNCHANGED <<client, lockVars, runtime, crashes>>

writeRuntime(b) ==
  /\ broker[b] = "listening"
  /\ runtime' = b /\ Becomes(b, "written")
  /\ UNCHANGED <<client, lockVars, bridge, ipc, crashes>>

(* authorized: nobody is, until the token is set.                            *)
Serve(b) ==
  /\ broker[b] = "written"
  /\ Becomes(b, "serving")
  /\ UNCHANGED <<client, lockVars, bridge, ipc, runtime, crashes>>

(* shutdown: the bridge's port is free before the clients' port.             *)
StopBridge(b) ==
  /\ broker[b] = "serving"
  /\ Becomes(b, "closing")
  /\ bridge' = None
  /\ UNCHANGED <<client, lockVars, ipc, runtime, crashes>>

CloseServer(b) ==
  /\ broker[b] = "closing"
  /\ Exits(b)
  /\ UNCHANGED <<client, lockVars, runtime, crashes>>

-----------------------------------------------------------------------------
(* Processes are killed.                                                     *)

BrokerKilled(b) ==
  /\ crashes < MaxCrashes /\ crashes' = crashes + 1
  /\ broker[b] \notin {"none", "dead"}
  /\ Exits(b)
  /\ UNCHANGED <<client, lockVars, runtime>>

ClientKilled(c) ==
  /\ crashes < MaxCrashes /\ crashes' = crashes + 1
  /\ client[c] \notin {"idle", "started", "failed"}
  /\ Goes(c, "idle")
  /\ UNCHANGED <<lockVars, brokerVars>>

Next ==
  \/ \E c \in Client :
       \/ Look(c) \/ StatLock(c) \/ RemoveLock(c) \/ tryAcquireStartupLock(c)
       \/ Poll(c) \/ releaseLock(c) \/ StartAgain(c) \/ ClientKilled(c)
  \/ \E b \in Broker :
       \/ BridgeStart(b) \/ Listen(b) \/ writeRuntime(b) \/ Serve(b)
       \/ StopBridge(b) \/ CloseServer(b) \/ BrokerKilled(b)
  \/ LockAges

Spec == Init /\ [][Next]_vars

-----------------------------------------------------------------------------
(* Two clients may each believe to hold the lock (one removed as stale what  *)
(* the other had just made), and two brokers start side by side; still the   *)
(* file always names the one broker that serves, so that every client finds  *)
(* the same broker.                                                          *)
RuntimeNamesServer ==
  \A b \in Broker : broker[b] \in {"serving", "closing"} => runtime = b /\ ipc = b

=============================================================================
