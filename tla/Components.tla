----------------------------- MODULE Components -----------------------------
(* Seven components that share no state, one of them in each behaviour: the  *)
(* sum of their specifications.  The variables of the others are absent.     *)
EXTENDS Integers

CONSTANTS Session, NoSession, None,
          CdpResource, TraceResource, MaxStray,                        \* CdpOwnership
          Operation, Host, HistoryLimit, MaxNavigations, MaxRestarts,  \* Approvals
          MaxHandlers, MaxRecords, MaxItems,                           \* Downloads
          RequestId, Content, MaxRequests, MaxBytes, MaxConfirmed, Size, \* RequestCache
          Client, Broker, MaxCrashes,                                  \* BrokerStartup
          MaxTabs, MaxWindows,                                         \* CleanQa
          Profile, Token, Code, MaxPairingAttempts, MaxFaults          \* Handshake

VARIABLES
  part,  \* the component at work
  tab, attached, effects, known, claim, events, owners, traced, emulated,
  cdpCommand, release, stray,
  work, page, expired, aborted, approvals, sites, trusting, worker, consent,
  handler, slots, items,
  requests, bytes, confirmed, flying,
  client, startLock, old, broker, bridge, ipc, runtime, crashes,
  tabs, lease, leaseOver, policy, qaCommand, listener, guests,
  stored, ext, srv, wire, current, token, file, temporary, code, fresh,
  attempts, pairingLock, guesses, faults

cdpVars == <<tab, attached, effects, known, claim, events, owners, traced,
  emulated, cdpCommand, release, stray>>
approvalVars == <<work, page, expired, aborted, approvals, sites, trusting,
  worker, consent>>
downloadVars == <<handler, slots, items>>
requestVars == <<requests, bytes, confirmed, flying>>
startupVars == <<client, startLock, old, broker, bridge, ipc, runtime,
  crashes>>
qaVars == <<tabs, lease, leaseOver, policy, qaCommand, listener, guests>>
handshakeVars == <<stored, ext, srv, wire, current, token, file, temporary,
  code, fresh, attempts, pairingLock, guesses, faults>>
vars ==
  <<part, cdpVars, approvalVars, downloadVars, requestVars, startupVars, qaVars, handshakeVars>>

(* The debugger of a tab: with the resources of composite QA, or with those  *)
(* that have a completion to wait for.                                       *)
C == INSTANCE CdpOwnership_proofs WITH
  Resource <- CdpResource, lease <- claim, broker <- events, cmd <- cdpCommand
T == INSTANCE CdpOwnership_proofs WITH
  Resource <- TraceResource, lease <- claim, broker <- events,
  cmd <- cdpCommand

A == INSTANCE Approvals WITH
  records <- approvals
D == INSTANCE Downloads WITH
  records <- slots
R == INSTANCE RequestCache_proofs WITH
  Operation <- RequestId
B == INSTANCE BrokerStartup WITH
  lock <- startLock
Q == INSTANCE CleanQa WITH
  expired <- leaseOver, cmd <- qaCommand
H == INSTANCE Handshake WITH
  lock <- pairingLock

ASSUME ComponentsAssumption ==
  /\ C!CdpAssumption /\ T!CdpAssumption /\ A!ApprovalsAssumption /\ D!DownloadsAssumption
  /\ R!RequestCacheAssumption /\ B!BrokerStartupAssumption /\ Q!CleanQaAssumption
  /\ H!HandshakeAssumption

-----------------------------------------------------------------------------
Absent(x) == x = FALSE

NoDebugger ==
  /\ Absent(tab) /\ Absent(attached) /\ Absent(effects) /\ Absent(known) /\ Absent(claim)
  /\ Absent(events) /\ Absent(owners) /\ Absent(traced) /\ Absent(emulated) /\ Absent(cdpCommand)
  /\ Absent(release) /\ Absent(stray)
NoApprovals ==
  /\ Absent(work) /\ Absent(page) /\ Absent(expired) /\ Absent(aborted) /\ Absent(approvals)
  /\ Absent(sites) /\ Absent(trusting) /\ Absent(worker) /\ Absent(consent)
NoDownloads ==
  /\ Absent(handler) /\ Absent(slots) /\ Absent(items)
NoRequests ==
  /\ Absent(requests) /\ Absent(bytes) /\ Absent(confirmed) /\ Absent(flying)
NoStartup ==
  /\ Absent(client) /\ Absent(startLock) /\ Absent(old) /\ Absent(broker) /\ Absent(bridge)
  /\ Absent(ipc) /\ Absent(runtime) /\ Absent(crashes)
NoCleanQa ==
  /\ Absent(tabs) /\ Absent(lease) /\ Absent(leaseOver) /\ Absent(policy) /\ Absent(qaCommand)
  /\ Absent(listener) /\ Absent(guests)
NoHandshake ==
  /\ Absent(stored) /\ Absent(ext) /\ Absent(srv) /\ Absent(wire) /\ Absent(current)
  /\ Absent(token) /\ Absent(file) /\ Absent(temporary) /\ Absent(code) /\ Absent(fresh)
  /\ Absent(attempts) /\ Absent(pairingLock) /\ Absent(guesses) /\ Absent(faults)

Init ==
  \/ /\ part = "cdp" /\ C!Init
     /\ NoApprovals /\ NoDownloads /\ NoRequests /\ NoStartup /\ NoCleanQa /\ NoHandshake
  \/ /\ part = "trace" /\ T!Init
     /\ NoApprovals /\ NoDownloads /\ NoRequests /\ NoStartup /\ NoCleanQa /\ NoHandshake
  \/ /\ part = "approvals" /\ A!Init
     /\ NoDebugger /\ NoDownloads /\ NoRequests /\ NoStartup /\ NoCleanQa /\ NoHandshake
  \/ /\ part = "downloads" /\ D!Init
     /\ NoDebugger /\ NoApprovals /\ NoRequests /\ NoStartup /\ NoCleanQa /\ NoHandshake
  \/ /\ part = "requests" /\ R!Init
     /\ NoDebugger /\ NoApprovals /\ NoDownloads /\ NoStartup /\ NoCleanQa /\ NoHandshake
  \/ /\ part = "startup" /\ B!Init
     /\ NoDebugger /\ NoApprovals /\ NoDownloads /\ NoRequests /\ NoCleanQa /\ NoHandshake
  \/ /\ part = "clean_qa" /\ Q!Init
     /\ NoDebugger /\ NoApprovals /\ NoDownloads /\ NoRequests /\ NoStartup /\ NoHandshake
  \/ /\ part = "handshake" /\ H!Init
     /\ NoDebugger /\ NoApprovals /\ NoDownloads /\ NoRequests /\ NoStartup /\ NoCleanQa

Next ==
  /\ UNCHANGED part
  /\ \/ /\ part = "cdp" /\ C!Next
        /\ UNCHANGED <<approvalVars, downloadVars, requestVars, startupVars,
                      qaVars, handshakeVars>>
     \/ /\ part = "trace" /\ T!Next
        /\ UNCHANGED <<approvalVars, downloadVars, requestVars, startupVars,
                      qaVars, handshakeVars>>
     \/ /\ part = "approvals" /\ A!Next
        /\ UNCHANGED <<cdpVars, downloadVars, requestVars, startupVars,
                      qaVars, handshakeVars>>
     \/ /\ part = "downloads" /\ D!Next
        /\ UNCHANGED <<cdpVars, approvalVars, requestVars, startupVars,
                      qaVars, handshakeVars>>
     \/ /\ part = "requests" /\ R!Next
        /\ UNCHANGED <<cdpVars, approvalVars, downloadVars, startupVars,
                      qaVars, handshakeVars>>
     \/ /\ part = "startup" /\ B!Next
        /\ UNCHANGED <<cdpVars, approvalVars, downloadVars, requestVars,
                      qaVars, handshakeVars>>
     \/ /\ part = "clean_qa" /\ Q!Next
        /\ UNCHANGED <<cdpVars, approvalVars, downloadVars, requestVars,
                      startupVars, handshakeVars>>
     \/ /\ part = "handshake" /\ H!Next
        /\ UNCHANGED <<cdpVars, approvalVars, downloadVars, requestVars,
                      startupVars, qaVars>>

Spec == Init /\ [][Next]_vars

-----------------------------------------------------------------------------
TypeOK ==
  /\ part = "cdp" => C!TypeOK
  /\ part = "trace" => T!TypeOK
  /\ part = "approvals" => A!TypeOK
  /\ part = "downloads" => D!TypeOK
  /\ part = "requests" => R!TypeOK
  /\ part = "startup" => B!TypeOK
  /\ part = "clean_qa" => Q!TypeOK
  /\ part = "handshake" => H!TypeOK

(* CdpOwnership: no session loses a claim by what another session does.      *)
ForeignClaimsSurvive ==
  [][(part = "cdp" => C!ClaimsSurvive) /\ (part = "trace" => T!ClaimsSurvive)]_vars

(* Approvals: every effect is one the user has said yes to, in time.         *)
EffectNeedsApproval == [][part = "approvals" => A!EffectIsApproved]_vars

(* Approvals: what the user may answer is waited for.                        *)
ActionableHasWaiter == part = "approvals" => A!ActionableHasWaiter

(* Downloads: every slot has a command or a download of its own.             *)
DownloadsAccounted == part = "downloads" => D!DownloadsAccounted

(* RequestCache: the bytes counted are those held, and within their limit.   *)
CacheWithinBudget == part = "requests" => R!CacheWithinBudget

(* BrokerStartup: the file names the broker that serves.                     *)
RuntimeNamesServer == part = "startup" => B!RuntimeNamesServer

(* Handshake: how often one pairing code can be guessed at.                  *)
GuessesPerCode == part = "handshake" => H!GuessesPerCode

(* CleanQa: no command is let in while the user is incognito too.            *)
FailsClosed == part = "clean_qa" => Q!FailsClosed
=============================================================================
