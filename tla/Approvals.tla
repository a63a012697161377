------------------------------ MODULE Approvals ------------------------------
(* Effects that need the user: sensitive CDP methods and uploads of local    *)
(* files (background.js, security.js, and the popup that shows requests).    *)
(* Each operation is at work on a tab of its own (ResourceGate); they share  *)
(* the stored records and the settings.  A request waits for the user while  *)
(* the tab navigates, time runs out, the broker cancels, newer requests push *)
(* it out of the history, or the worker dies.                                *)
EXTENDS Integers, Sequences, FiniteSets, SequencesExt

CONSTANTS Operation, Host, None,
          HistoryLimit,    \* APPROVAL_HISTORY_LIMIT
          MaxNavigations,  \* bound, of each tab
          MaxRestarts      \* bound, of the worker

ApprovalsAssumption ==
  /\ None \notin Host
  /\ {HistoryLimit, MaxNavigations, MaxRestarts} \subseteq Nat /\ HistoryLimit > 0

VARIABLES
  work,     \* the operation: where it is, its kind, what it read of the tab, how it ended
  page,     \* the document of its tab, and that document's host
  expired,  \* its authorization: expiresAt has passed
  aborted,  \* its signal
  records,  \* PENDING_APPROVALS_KEY, oldest first
  sites,    \* trustedUploadSites
  trusting, \* decidePendingApproval between its mutation and its write of the settings
  worker,   \* WORKER_INSTANCE_ID
  consent   \* history: the document of the tab when the user said yes

vars == <<work, page, expired, aborted, records, sites, trusting, worker, consent>>

Document == 0..MaxNavigations
Kind == {"cdp", "upload"}
Phase == {"idle", "create", "wait", "settle", "recheck", "ready", "attach", "sent", "failed"}
Status == {"pending", "approved", "denied", "expired", "cancelled"}
Record == [id : Operation, kind : Kind, host : Host, status : Status, worker : 0..MaxRestarts]
NotTrusting == [host |-> None, list |-> {}, read |-> FALSE]

TypeOK ==
  /\ work \in [Operation -> [at : Phase, kind : Kind, doc : Document, host : Host,
                             trusted : BOOLEAN, granted : BOOLEAN]]
  /\ page \in [Operation -> [doc : Document, host : Host]]
  /\ {expired, aborted} \subseteq [Operation -> BOOLEAN]
  /\ records \in Seq(Record) /\ Len(records) <= HistoryLimit
  /\ sites \subseteq Host
  /\ trusting \in [host : Host \cup {None}, list : SUBSET Host, read : BOOLEAN]
  /\ worker \in 0..MaxRestarts
  /\ consent \in [Operation -> Document \cup {-1}]

Init ==
  /\ page \in [Operation -> [doc : {0}, host : Host]]
  /\ work = [o \in Operation |-> [at |-> "idle", kind |-> "cdp", doc |-> 0, host |-> page[o].host,
                                  trusted |-> FALSE, granted |-> FALSE]]
  /\ expired = [o \in Operation |-> FALSE]
  /\ aborted = [o \in Operation |-> FALSE]
  /\ records = <<>>
  /\ sites = {}
  /\ trusting = NotTrusting
  /\ worker = 0
  /\ consent = [o \in Operation |-> -1]

-----------------------------------------------------------------------------
(* mutatePendingApprovals: mutations take turns.  Only a pending record      *)
(* changes.                                                                  *)
Decided(o, status) ==
  [i \in DOMAIN records |->
     IF records[i].id = o /\ records[i].status = "pending"
     THEN [records[i] EXCEPT !.status = status] ELSE records[i]]

Kept(s) == SubSeq(s, Len(s) - (IF Len(s) < HistoryLimit THEN Len(s) ELSE HistoryLimit) + 1, Len(s))

Goes(o, phase) == work' = [work EXCEPT ![o].at = phase]
Fails(o) == Goes(o, "failed")

SameHost(o) == page[o].host = work[o].host
SameDocument(o) == page[o].doc = work[o].doc

-----------------------------------------------------------------------------
(* requireCdpApproval and authorizeUpload: the identity of the document, and *)
(* for an upload the settings; a trusted host needs no approval.             *)
Authorize(o, kind) ==
  /\ work[o].at = "idle"
  /\ LET trusted == kind = "upload" /\ page[o].host \in sites
     IN work' = [work EXCEPT ![o] =
          [at |-> IF trusted THEN "recheck" ELSE "create", kind |-> kind,
           doc |-> page[o].doc, host |-> page[o].host, trusted |-> trusted, granted |-> FALSE]]
  /\ UNCHANGED <<page, expired, aborted, records, sites, trusting, worker, consent>>

(* The newest requests are kept, whether the older ones wait or not.         *)
createPendingApproval(o) ==
  /\ work[o].at = "create"
  /\ IF expired[o]
       THEN Fails(o) /\ UNCHANGED records
       ELSE /\ Goes(o, "wait")
            /\ records' = Kept(Append(records,
                 [id |-> o, kind |-> work[o].kind, host |-> work[o].host,
                  status |-> "pending", worker |-> worker]))
  /\ UNCHANGED <<page, expired, aborted, sites, trusting, worker, consent>>

(* security.js; the other fields of a record never change.                   *)
approvalMatches(o) ==
  ~expired[o] /\ \E i \in DOMAIN records :
    records[i].id = o /\ records[i].status = "approved" /\ records[i].worker = worker

Denied(o) == \E i \in DOMAIN records : records[i].id = o /\ records[i].status = "denied"

(* consumeApproval: its poll, and its finally.                               *)
consumeApproval(o) ==
  /\ work[o].at = "wait"
  /\ expired[o] \/ aborted[o] \/ Denied(o) \/ approvalMatches(o)
  /\ work' = [work EXCEPT ![o].at = "settle",
                          ![o].granted = ~expired[o] /\ ~aborted[o] /\ ~Denied(o)]
  /\ UNCHANGED <<page, expired, aborted, records, sites, trusting, worker, consent>>

(* The record is settled when the answer has come only.                      *)
SettleApprovalIfGranted(o) ==
  /\ work[o].at = "settle"
  /\ Goes(o, IF work[o].granted THEN "recheck" ELSE "failed")
  /\ UNCHANGED <<page, expired, aborted, records, sites, trusting, worker, consent>>

SettleApproval(o) ==
  /\ work[o].at = "settle"
  /\ records' = Decided(o, IF expired[o] THEN "expired" ELSE "cancelled")
  /\ Goes(o, IF work[o].granted THEN "recheck" ELSE "failed")
  /\ UNCHANGED <<page, expired, aborted, sites, trusting, worker, consent>>

(* The document again: requireCdpApproval after the answer; cdpSetInputFiles *)
(* when it marks the element, and revalidateUploadAuthorization.             *)
Recheck(o) ==
  /\ work[o].at = "recheck"
  /\ IF SameDocument(o) /\ (work[o].kind = "upload" => ~aborted[o]) THEN Goes(o, "ready") ELSE Fails(o)
  /\ UNCHANGED <<page, expired, aborted, records, sites, trusting, worker, consent>>

(* assertEffectAuthorizationFresh                                            *)
Fresh(o) == ~expired[o]

(* A trusted host must still be trusted; for an approved one nothing is      *)
(* asked of the settings.                                                    *)
StillTrusted(o) == work[o].trusted => work[o].host \in sites

(* What the tab gets.  A raw command meets whatever the tab shows by then;   *)
(* an upload names a node, which is found in its own document only.          *)
Reached(o) == work[o].kind = "upload" => SameDocument(o)

(* The last checks.  With the debugger attached the command follows at once, *)
(* else cdpSend attaches it first, and asks nothing again afterwards.        *)
Dispatch(o) ==
  /\ work[o].at = "ready"
  /\ \E attached \in BOOLEAN :
       Goes(o, IF ~(Fresh(o) /\ ~aborted[o] /\ StillTrusted(o)) THEN "failed"
               ELSE IF ~attached THEN "attach"
               ELSE IF Reached(o) THEN "sent" ELSE "failed")
  /\ UNCHANGED <<page, expired, aborted, records, sites, trusting, worker, consent>>

(* cdpAttach waits up to ten seconds for Chrome, and for its own records.    *)
cdpAttach(o) ==
  /\ work[o].at = "attach"
  /\ \/ Reached(o) /\ Goes(o, "sent")
     \/ Fails(o)
  /\ UNCHANGED <<page, expired, aborted, records, sites, trusting, worker, consent>>

-----------------------------------------------------------------------------
(* The user, in the popup.                                                   *)

(* publicApproval                                                            *)
Actionable(r) == r.status = "pending" /\ ~expired[r.id] /\ r.worker = worker

(* decidePendingApproval; the popup waits for its answer.                    *)
decidePendingApproval ==
  /\ trusting.host = None
  /\ \E i \in DOMAIN records, decision \in {"approve_once", "trust_host", "deny"} :
       LET r == records[i]
       IN /\ Actionable(r)
          /\ decision = "trust_host" => r.kind = "upload"
          /\ records' = Decided(r.id, IF decision = "deny" THEN "denied" ELSE "approved")
          /\ consent' = IF decision = "deny" THEN consent
                        ELSE [consent EXCEPT ![r.id] = page[r.id].doc]
          /\ trusting' = IF decision = "trust_host" THEN [trusting EXCEPT !.host = r.host] ELSE trusting
  /\ UNCHANGED <<work, page, expired, aborted, sites, worker>>

(* The settings are read, and written with the host added to what was read.  *)
TrustReads ==
  /\ trusting.host # None /\ ~trusting.read
  /\ trusting' = [trusting EXCEPT !.list = sites, !.read = TRUE]
  /\ UNCHANGED <<work, page, expired, aborted, records, sites, worker, consent>>

TrustWrites ==
  /\ trusting.read
  /\ sites' = trusting.list \cup {trusting.host}
  /\ trusting' = NotTrusting
  /\ UNCHANGED <<work, page, expired, aborted, records, worker, consent>>

(* The list of sites is saved as the user edited it.                         *)
saveSettings ==
  /\ sites' \in SUBSET Host
  /\ UNCHANGED <<work, page, expired, aborted, records, trusting, worker, consent>>

-----------------------------------------------------------------------------
(* The surroundings, as long as the operation is under way.                  *)

UnderWay(o) == work[o].at \notin {"idle", "sent", "failed"}

Navigates(o) ==
  /\ UnderWay(o) /\ page[o].doc < MaxNavigations
  /\ \E host \in Host : page' = [page EXCEPT ![o] = [doc |-> page[o].doc + 1, host |-> host]]
  /\ UNCHANGED <<work, expired, aborted, records, sites, trusting, worker, consent>>

TimePasses(o) ==
  /\ UnderWay(o) /\ ~expired[o]
  /\ expired' = [expired EXCEPT ![o] = TRUE]
  /\ UNCHANGED <<work, page, aborted, records, sites, trusting, worker, consent>>

Aborts(o) ==
  /\ UnderWay(o) /\ ~aborted[o]
  /\ aborted' = [aborted EXCEPT ![o] = TRUE]
  /\ UNCHANGED <<work, page, expired, records, sites, trusting, worker, consent>>

(* The records outlive the worker, its operations do not.                    *)
WorkerRestarts ==
  /\ worker < MaxRestarts
  /\ worker' = worker + 1
  /\ work' = [o \in Operation |-> IF work[o].at \in {"idle", "sent"} THEN work[o]
                                  ELSE [work[o] EXCEPT !.at = "failed"]]
  /\ trusting' = NotTrusting
  /\ UNCHANGED <<page, expired, aborted, records, sites, consent>>

Next ==
  \/ \E o \in Operation :
       \/ \E kind \in Kind : Authorize(o, kind)
       \/ createPendingApproval(o) \/ consumeApproval(o) \/ SettleApproval(o)
       \/ Recheck(o) \/ Dispatch(o) \/ cdpAttach(o)
       \/ Navigates(o) \/ TimePasses(o) \/ Aborts(o)
  \/ decidePendingApproval \/ TrustReads \/ TrustWrites \/ saveSettings \/ WorkerRestarts

Spec == Init /\ [][Next]_vars

-----------------------------------------------------------------------------
(* README.md, "Safety": a fresh exact approval for that operation and         *)
(* document.  When the last check lets an operation pass it is in time and   *)
(* not cancelled, and what reaches the tab, then or after the debugger was   *)
(* attached, is an upload into the very document, to a host trusted when it  *)
(* was asked and at the check, or what the user said yes to while the tab    *)
(* still showed that document: an answer given after a navigation, a         *)
(* deadline, a denial or in another worker counts for nothing.  What may     *)
(* change while a raw command waits for the debugger is not in this          *)
(* property: see ApprovalHolds.                                              *)
Consented(o) ==
  \/ work[o].kind = "upload" /\ work[o].trusted
  \/ consent[o] = work[o].doc

EffectIsApproved ==
  \A o \in Operation :
    /\ work[o].at = "ready" /\ work'[o].at \in {"attach", "sent"} =>
         /\ ~expired[o] /\ ~aborted[o] /\ Consented(o)
         /\ work[o].trusted => work[o].host \in sites
    /\ work[o].at # "sent" /\ work'[o].at = "sent" =>
         /\ work[o].at \in {"ready", "attach"} /\ Consented(o)
         /\ work[o].kind = "upload" => page[o].doc = work[o].doc

EffectNeedsApproval == [][EffectIsApproved]_vars

(* README.md, "Safety": "approvals expire after five minutes and navigation  *)
(* invalidates them".  A raw command that had to wait for the debugger is    *)
(* still in time when it goes, and meets the document it was approved for.   *)
ApprovalHolds ==
  [][\A o \in Operation :
       work[o].kind = "cdp" /\ work[o].at = "attach" /\ work'[o].at = "sent" =>
         ~expired[o] /\ SameDocument(o)]_vars

(* What the popup lets the user answer is asked for by an operation that     *)
(* still waits: no answer is given into the void, whatever ended the         *)
(* operation.                                                                *)
ActionableHasWaiter ==
  \A i \in DOMAIN records :
    Actionable(records[i]) => work[records[i].id].at \in {"wait", "settle"}

=============================================================================
