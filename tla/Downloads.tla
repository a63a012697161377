------------------------------ MODULE Downloads ------------------------------
(* Ownership of downloads: the reservation a command makes before it clicks, *)
(* the download it turns into, and what is given back (background.js,        *)
(* stage-one.js).  The gate runs one such command at a time; one that is     *)
(* past its deadline has lost the gate, but its handler goes on beside the   *)
(* next one.                                                                 *)
EXTENDS Integers, FiniteSets

CONSTANTS Session, NoSession,
          MaxHandlers,       \* bound: commands, each run by a handler of its own
          MaxRecords,        \* MAX_DOWNLOAD_RECORDS
          MaxItems           \* bound: downloads of the browser

DownloadsAssumption ==
  /\ NoSession \notin Session
  /\ {MaxHandlers, MaxRecords, MaxItems} \subseteq Nat /\ MaxRecords > 0

VARIABLES
  handler,  \* its phase, kind and session, whether it is late, what its listeners saw
  records,  \* DOWNLOAD_IDS_KEY; a reservation has no item yet
  items     \* downloads so far, numbered from 1

vars == <<handler, records, items>>

Handler == 1..MaxHandlers   \* in the order they start
Item == 1..MaxItems
NoItem == 0
Working == {"reserve", "clicking", "waiting", "fulfil", "rollback", "download"}
Ended == {"done", "unknown"}
Phase == {"idle"} \cup Working \cup Ended

(* before: the downloads there were when the command began. saw: the         *)
(* listener that resolved first; it sees nothing more. item: its download.   *)
Run == [at : Phase, session : Session \cup {NoSession}, late : BOOLEAN,
        before : 0..MaxItems, saw : {"nothing", "item", "tab"}, item : 0..MaxItems]

Quiet(phase) == [at |-> phase, session |-> NoSession, late |-> FALSE,
                 before |-> 0, saw |-> "nothing", item |-> NoItem]

TypeOK ==
  /\ handler \in [Handler -> Run]
  /\ records \subseteq [session : Session, by : Handler, item : 0..MaxItems]
  /\ Cardinality(records) <= MaxRecords
  /\ items \in 0..MaxItems

Init ==
  /\ handler = [h \in Handler |-> Quiet("idle")]
  /\ records = {}
  /\ items = 0

-----------------------------------------------------------------------------
(* stage-one.js, each inside one mutation of the state store.                *)

Reservation(h) == [session |-> handler[h].session, by |-> h, item |-> NoItem]

canReserveOneMore == Cardinality(records) <= MaxRecords
canReserve == Cardinality(records) < MaxRecords
canFulfillOwn(h, i) == Reservation(h) \in records
canFulfill(h, i) == Reservation(h) \in records /\ i \notin {r.item : r \in records}

fulfillDownloadReservation(h, i) == (records \ {Reservation(h)}) \cup {[Reservation(h) EXCEPT !.item = i]}
rollbackDownloadReservation(h) == records \ {Reservation(h)}

Goes(h, phase) == handler' = [handler EXCEPT ![h].at = phase]
Ends(h, outcome) == handler' = [handler EXCEPT ![h] = Quiet(outcome)]

(* It has its download, or will have none; what its listeners would still    *)
(* see does not matter any more.                                             *)
Settled(h, phase, i) ==
  handler' = [handler EXCEPT ![h] = [Quiet(phase) EXCEPT !.session = handler[h].session,
                                                         !.late = handler[h].late, !.item = i]]
Takes(h, i) == Settled(h, "fulfil", i)
Drops(h) == Settled(h, "rollback", NoItem)

-----------------------------------------------------------------------------
(* commandDownloadClick and commandDownloadImage.                            *)

Start(h) ==
  /\ handler[h].at = "idle" /\ \A other \in 1..(h - 1) : handler[other].at # "idle"
  /\ \A other \in Handler : handler[other].at \in Working => handler[other].late
  /\ \E s \in Session :
       handler' = [handler EXCEPT ![h].at = "reserve", ![h].session = s, ![h].before = items]
  /\ UNCHANGED <<records, items>>

reserveDownload(h) ==
  /\ handler[h].at = "reserve"
  /\ \/ /\ canReserve
        /\ records' = records \cup {Reservation(h)}
        /\ Goes(h, "clicking") \/ Goes(h, "download")
     \/ ~canReserve /\ Ends(h, "done") /\ UNCHANGED records
     \/ Ends(h, "done") /\ UNCHANGED records         \* there is no such target
  /\ UNCHANGED items

(* The click was refused, accepted, or nobody knows.                         *)
Click(h) ==
  /\ handler[h].at = "clicking"
  /\ Drops(h) \/ Goes(h, "waiting") \/ Ends(h, "unknown")
  /\ UNCHANGED <<records, items>>

(* The first of the two listeners to resolve.                                *)
Signal(h) ==
  /\ handler[h].at = "waiting" /\ handler[h].saw # "nothing"
  /\ IF handler[h].saw = "item" THEN Takes(h, handler[h].item) ELSE Drops(h)
  /\ UNCHANGED <<records, items>>

(* Time is up: a search of all downloads since the command began may find    *)
(* one after all; a tab may have come meanwhile.                             *)
reconcileCreatedDownload(h) ==
  /\ handler[h].at = "waiting" /\ handler[h].saw = "nothing"
  /\ \/ \E i \in (handler[h].before + 1)..items :
          handler' = [handler EXCEPT ![h].at = "fulfil", ![h].saw = "item", ![h].item = i]
     \/ Ends(h, "unknown")
     \/ handler' = [handler EXCEPT ![h].at = "rollback", ![h].saw = "tab"]
  /\ UNCHANGED <<records, items>>

(* chrome.downloads.download of an image.                                    *)
DownloadImage(h) ==
  /\ handler[h].at = "download"
  /\ \/ Drops(h) /\ UNCHANGED items
     \/ items < MaxItems /\ items' = items + 1 /\ Takes(h, items')
  /\ UNCHANGED records

Fulfil(h) ==
  /\ handler[h].at = "fulfil"
  /\ IF canFulfill(h, handler[h].item)
       THEN records' = fulfillDownloadReservation(h, handler[h].item) /\ Ends(h, "done")
       ELSE UNCHANGED records /\ Ends(h, "unknown")
  /\ UNCHANGED items

(* After a refused click, a failed download or a new tab; the latter is then *)
(* remembered (TabOwnership).                                                *)
Rollback(h) ==
  /\ handler[h].at = "rollback"
  /\ records' = rollbackDownloadReservation(h)
  /\ Ends(h, "done")
  /\ UNCHANGED items

(* commandDeleteDownload: what the session owns is removed and forgotten.    *)
commandDeleteDownload(s) ==
  /\ \E r \in records : r.session = s /\ r.item # NoItem /\ records' = records \ {r}
  /\ UNCHANGED <<handler, items>>

(* The cleanup of a session waits for its commands, unless they are late.    *)
releaseSessionDownloads(s) ==
  /\ \A h \in Handler : handler[h].session = s /\ handler[h].at \in Working => handler[h].late
  /\ records' = {r \in records : r.session # s}
  /\ UNCHANGED <<handler, items>>

-----------------------------------------------------------------------------
(* The browser.                                                              *)

Listens(h) == handler[h].at \in {"clicking", "waiting"} /\ handler[h].saw = "nothing"

(* A download starts, by the click or by the user; the handlers whose        *)
(* listener finds that it matches take it for theirs.                        *)
DownloadCreated ==
  /\ items < MaxItems
  /\ items' = items + 1
  /\ \E takers \in SUBSET {h \in Handler : Listens(h)} :
       handler' = [h \in Handler |-> IF h \in takers
                                       THEN [handler[h] EXCEPT !.saw = "item", !.item = items']
                                       ELSE handler[h]]
  /\ UNCHANGED records

TabCreated(h) ==
  /\ Listens(h)
  /\ handler' = [handler EXCEPT ![h].saw = "tab"]
  /\ UNCHANGED <<records, items>>

DeadlinePasses(h) ==
  /\ handler[h].at \in Working /\ ~handler[h].late
  /\ handler' = [handler EXCEPT ![h].late = TRUE]
  /\ UNCHANGED <<records, items>>

WorkerDies ==
  /\ \E h \in Handler : handler[h].at \in Working
  /\ handler' = [h \in Handler |-> IF handler[h].at \in Working
                                     THEN Quiet("unknown") ELSE handler[h]]
  /\ UNCHANGED <<records, items>>

Next ==
  \/ \E h \in Handler :
       \/ Start(h) \/ reserveDownload(h) \/ Click(h) \/ Signal(h) \/ reconcileCreatedDownload(h)
       \/ DownloadImage(h) \/ Fulfil(h) \/ Rollback(h) \/ TabCreated(h) \/ DeadlinePasses(h)
  \/ \E s \in Session : commandDeleteDownload(s) \/ releaseSessionDownloads(s)
  \/ DownloadCreated \/ WorkerDies

Spec == Init /\ [][Next]_vars

-----------------------------------------------------------------------------
(* A slot that holds no download is that of a command at work, or of one     *)
(* whose outcome nobody knows: it said so, or died with the worker.          *)
ReservationsAccounted ==
  \A r \in records : r.item = NoItem =>
    handler[r.by].at \in Working \cup {"unknown"}

(* Two commands that took the same download for theirs do not both get it.   *)
OneOwner ==
  \A r, q \in records : r.item = q.item /\ r.item # NoItem => r = q

(* docs/architecture.md, "Download IDs": the bounded slots are reserved      *)
(* before the effect, replaced by the download, given back after a failure   *)
(* that is certain and kept after one that is not, with late handlers,       *)
(* cleanups and the end of the worker at any point between.                  *)
DownloadsAccounted == ReservationsAccounted /\ OneOwner

=============================================================================
