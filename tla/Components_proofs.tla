-------------------------- MODULE Components_proofs --------------------------
(* What each component keeps, for any values of the constants.  Each         *)
(* invariant is inductive for its component; a step of the sum is one of the *)
(* component at work, which stays the same.                                  *)
EXTENDS Components, Sequences, SequenceTheorems, FiniteSetTheorems, TLAPS

-----------------------------------------------------------------------------
(* CdpOwnership and RequestCache have proofs of their own.                   *)

(* No session loses a claim on a debugger by what another session does,      *)
(* whatever the number of sessions and of detaches still under way.          *)
THEOREM ClaimsAreKept == Spec => ForeignClaimsSurvive
<1> DEFINE Inv == (part = "cdp" => C!IInv) /\ (part = "trace" => T!IInv)
           Kept == (part = "cdp" => C!ClaimsSurvive) /\ (part = "trace" => T!ClaimsSurvive)
<1>1. Init => Inv
  BY C!InitIInv, T!InitIInv DEF Init
<1>2. Inv /\ [Next]_vars => Inv' /\ [Kept]_vars
  <2>1. SUFFICES ASSUME Inv, [Next]_vars PROVE Inv' /\ [Kept]_vars
    OBVIOUS
  <2>2. part' = part
    BY <2>1 DEF Next, vars
  <2>3. CASE part = "cdp"
    <3>1. [C!Next]_(C!vars)
      BY <2>1, <2>3 DEF Next, vars, cdpVars, C!vars, C!memoryVars
    <3>2. C!IInv' /\ (C!ClaimsSurvive \/ UNCHANGED C!vars)
      BY <2>1, <2>3, <3>1, C!NextIInv, ComponentsAssumption
    <3>3. UNCHANGED C!vars => Kept \/ UNCHANGED vars
      BY <2>1, <2>3 DEF Next, vars, cdpVars, C!vars, C!memoryVars
    <3>. QED BY <2>2, <2>3, <3>2, <3>3
  <2>4. CASE part = "trace"
    <3>1. [T!Next]_(T!vars)
      BY <2>1, <2>4 DEF Next, vars, cdpVars, T!vars, T!memoryVars
    <3>2. T!IInv' /\ (T!ClaimsSurvive \/ UNCHANGED T!vars)
      BY <2>1, <2>4, <3>1, T!NextIInv, ComponentsAssumption
    <3>3. UNCHANGED T!vars => Kept \/ UNCHANGED vars
      BY <2>1, <2>4 DEF Next, vars, cdpVars, T!vars, T!memoryVars
    <3>. QED BY <2>2, <2>4, <3>2, <3>3
  <2>5. CASE part \notin {"cdp", "trace"}
    BY <2>2, <2>5
  <2>. QED BY <2>3, <2>4, <2>5
<1>. QED BY <1>1, <1>2, PTL DEF Spec, ForeignClaimsSurvive

(* However requests are admitted, settle larger than reserved, are replaced, *)
(* pruned and evicted, the byte counter is the sum of what is recorded,      *)
(* within the budget; and what is under way keeps its record, so that a      *)
(* repeat of it is not sent again (broker-server.ts, "requestCacheBytes").   *)
THEOREM CacheStaysWithinBudget == Spec => []CacheWithinBudget
<1> DEFINE Inv == part = "requests" => R!IInv
<1>1. Init => Inv
  BY R!InitIInv, ComponentsAssumption DEF Init
<1>2. Inv /\ [Next]_vars => Inv'
  <2>1. SUFFICES ASSUME Inv, [Next]_vars, part' = "requests" PROVE R!IInv'
    OBVIOUS
  <2>2. part = "requests" /\ (R!Next \/ UNCHANGED R!vars)
    BY <2>1 DEF Next, vars, requestVars, R!vars
  <2>. QED BY <2>1, <2>2, R!NextIInv, ComponentsAssumption
<1>3. Inv => CacheWithinBudget
  BY R!RequestBudget DEF CacheWithinBudget
<1>. QED BY <1>1, <1>2, <1>3, PTL DEF Spec

-----------------------------------------------------------------------------
(* What becomes of the slots for downloads.                                  *)

(* A command has a slot from its reservation on, and until it says how it    *)
(* ended.                                                                    *)
MayHoldSlot == (D!Working \ {"reserve"}) \cup {"unknown"}

(* A command at work is that of a session, and what it has found, and fills  *)
(* its slot with, is a download there is.                                    *)
ProperRun(run) ==
  /\ run \in D!Run
  /\ run.at \in D!Working => run.session \in Session
  /\ run.at = "fulfil" \/ run.saw = "item" => run.item # D!NoItem

RunsTyped ==
  /\ handler \in [D!Handler -> D!Run] /\ \A h \in D!Handler : ProperRun(handler[h])
  /\ slots \subseteq [session : Session, by : D!Handler, item : 0..MaxItems]
  /\ items \in 0..MaxItems

(* A slot without a download is the reservation of its command, as that      *)
(* command would write it: it can still be filled or given back.             *)
SlotsHeld ==
  \A r \in slots : r.item = D!NoItem =>
    /\ handler[r.by].at \in MayHoldSlot
    /\ handler[r.by].at \in D!Working => r.session = handler[r.by].session

SlotInv == RunsTyped /\ SlotsHeld /\ D!OneOwner

(* What a command may become that perhaps holds a slot.                      *)
StillHolds(was, is) ==
  was.at \in MayHoldSlot =>
    \/ is.at = "unknown"
    \/ is.at \in MayHoldSlot /\ is.session = was.session /\ was.at # "unknown"

SlotsOf(h, rs) == {r \in rs : r.by = h /\ r.item = D!NoItem}

(* A step that reserves nothing, and after which a command has no slot any   *)
(* more unless it may still hold one, as the same session.                   *)
LEMMA KeepsSlots ==
  ASSUME SlotInv, RunsTyped', D!OneOwner',
         \A r \in slots' : r.item = D!NoItem => r \in slots,
         \A h \in D!Handler : SlotsOf(h, slots') = {} \/ StillHolds(handler[h], handler'[h])
  PROVE  SlotInv'
<1>1. ASSUME NEW r \in slots', r.item = D!NoItem
      PROVE  /\ handler'[r.by].at \in MayHoldSlot
             /\ handler'[r.by].at \in D!Working => r.session = handler'[r.by].session
  <2>1. r \in slots /\ r.by \in D!Handler /\ r \in SlotsOf(r.by, slots')
    BY <1>1 DEF SlotInv, RunsTyped, SlotsOf
  <2>2. StillHolds(handler[r.by], handler'[r.by])
    BY <2>1
  <2>3. /\ handler[r.by].at \in MayHoldSlot
        /\ handler[r.by].at \in D!Working => r.session = handler[r.by].session
    BY <1>1, <2>1 DEF SlotInv, SlotsHeld
  <2>. QED BY <2>2, <2>3 DEF StillHolds, MayHoldSlot, D!Working
<1>. QED BY <1>1 DEF SlotInv, SlotsHeld

(* A step of one command that reserves nothing.                              *)
LEMMA OneRunMoves ==
  ASSUME SlotInv, NEW h \in D!Handler, NEW run, handler' = [handler EXCEPT ![h] = run],
         ProperRun(run), StillHolds(handler[h], run) \/ SlotsOf(h, slots') = {},
         slots' \subseteq slots, items' \in 0..MaxItems
  PROVE  SlotInv'
<1>1. RunsTyped'
  BY DEF SlotInv, RunsTyped, ProperRun
<1>2. \A g \in D!Handler : SlotsOf(g, slots') = {} \/ StillHolds(handler[g], handler'[g])
  <2>. SUFFICES ASSUME NEW g \in D!Handler
                PROVE  SlotsOf(g, slots') = {} \/ StillHolds(handler[g], handler'[g])
    OBVIOUS
  <2>1. CASE g = h
    BY <2>1 DEF SlotInv, RunsTyped
  <2>2. CASE g # h
    BY <2>2 DEF SlotInv, RunsTyped, StillHolds
  <2>. QED BY <2>1, <2>2
<1>3. D!OneOwner'
  BY DEF SlotInv, D!OneOwner
<1>. QED BY <1>1, <1>2, <1>3, KeepsSlots

(* It goes on with its slot.                                                 *)
LEMMA RunGoes ==
  ASSUME SlotInv, NEW h \in D!Handler, NEW phase \in D!Working, D!Goes(h, phase),
         handler[h].at \in MayHoldSlot \cap D!Working, phase # "reserve", phase # "fulfil",
         slots' \subseteq slots, items' \in 0..MaxItems
  PROVE  SlotInv'
<1>. DEFINE run == [handler[h] EXCEPT !.at = phase]
<1>1. handler' = [handler EXCEPT ![h] = run]
  BY DEF D!Goes
<1>2. ProperRun(run)
  BY DEF SlotInv, RunsTyped, ProperRun, D!Run, D!Phase, MayHoldSlot
<1>3. StillHolds(handler[h], run)
  BY DEF SlotInv, RunsTyped, D!Run, StillHolds, MayHoldSlot, D!Working
<1>. HIDE DEF run
<1>. QED BY <1>1, <1>2, <1>3, OneRunMoves

(* It ends: without a slot, or with one of which nobody knows.               *)
LEMMA RunEnds ==
  ASSUME D!DownloadsAssumption, SlotInv, NEW h \in D!Handler, NEW outcome \in D!Ended, D!Ends(h, outcome),
         outcome = "unknown" \/ SlotsOf(h, slots') = {},
         slots' \subseteq slots, items' \in 0..MaxItems
  PROVE  SlotInv'
<1>1. handler' = [handler EXCEPT ![h] = D!Quiet(outcome)]
  BY DEF D!Ends
<1>2. ProperRun(D!Quiet(outcome))
  BY DEF D!DownloadsAssumption, ProperRun, D!Quiet, D!Run, D!Phase, D!Ended, D!Working, D!NoItem
<1>3. outcome = "unknown" => StillHolds(handler[h], D!Quiet(outcome))
  BY DEF StillHolds, D!Quiet
<1>. QED BY <1>1, <1>2, <1>3, OneRunMoves

(* It has its download, or will have none.                                   *)
LEMMA RunSettled ==
  ASSUME D!DownloadsAssumption, SlotInv, NEW h \in D!Handler, NEW phase \in {"fulfil", "rollback"},
         NEW i \in 0..MaxItems, D!Settled(h, phase, i), phase = "fulfil" => i # D!NoItem,
         handler[h].at \in MayHoldSlot \cap D!Working,
         UNCHANGED slots, items' \in 0..MaxItems
  PROVE  SlotInv'
<1>. DEFINE run == [D!Quiet(phase) EXCEPT !.session = handler[h].session,
                                        !.late = handler[h].late, !.item = i]
<1>1. handler' = [handler EXCEPT ![h] = run]
  BY DEF D!Settled
<1>2. ProperRun(run)
  <2>1. handler[h].session \in Session /\ handler[h].late \in BOOLEAN
    BY DEF SlotInv, RunsTyped, ProperRun, D!Run
  <2>2. D!Quiet(phase) \in D!Run /\ D!Quiet(phase).at = phase /\ D!Quiet(phase).saw = "nothing"
    BY DEF D!Quiet, D!Run, D!Phase, D!Working, D!NoItem, D!DownloadsAssumption
  <2>3. run \in D!Run
    BY <2>1, <2>2 DEF D!Run
  <2>4. run.at = phase /\ run.saw = "nothing" /\ run.session = handler[h].session /\ run.item = i
    BY <2>2 DEF D!Run
  <2>. HIDE DEF run
  <2>. QED BY <2>1, <2>3, <2>4 DEF ProperRun
<1>3. StillHolds(handler[h], run)
  BY DEF StillHolds, D!Quiet, MayHoldSlot, D!Working
<1>. HIDE DEF run
<1>. QED BY <1>1, <1>2, <1>3, OneRunMoves

LEMMA SlotInit == D!DownloadsAssumption /\ D!Init => SlotInv
BY DEF D!DownloadsAssumption, D!Init, SlotInv, RunsTyped, ProperRun, SlotsHeld, D!OneOwner, D!Run, D!Quiet,
       D!Phase, D!NoItem, D!Working, D!Ended

-----------------------------------------------------------------------------
(* The commands.                                                             *)

LEMMA SlotStart ==
  ASSUME D!DownloadsAssumption, SlotInv, NEW h \in D!Handler, D!Start(h)
  PROVE  SlotInv'
<1>1. PICK s \in Session :
        handler' = [handler EXCEPT ![h].at = "reserve", ![h].session = s, ![h].before = items]
  BY DEF D!Start
<1>. DEFINE run == [handler[h] EXCEPT !.at = "reserve", !.session = s, !.before = items]
<1>2. handler' = [handler EXCEPT ![h] = run]
  BY <1>1 DEF SlotInv, RunsTyped, D!Run
<1>3. ProperRun(run)
  BY DEF SlotInv, RunsTyped, ProperRun, D!Run, D!Phase, D!Working, D!NoItem
<1>4. StillHolds(handler[h], run)
  BY DEF D!Start, StillHolds, MayHoldSlot, D!Working
<1>. HIDE DEF run
<1>. QED BY <1>2, <1>3, <1>4, OneRunMoves DEF D!Start, SlotInv, RunsTyped

(* A reservation is new, and it is that of its command.                      *)
LEMMA SlotReserve ==
  ASSUME D!DownloadsAssumption, SlotInv, NEW h \in D!Handler, D!reserveDownload(h)
  PROVE  SlotInv'
<1>1. /\ handler[h].at = "reserve" /\ items' = items /\ items \in 0..MaxItems
      /\ SlotsOf(h, slots) = {}
      /\ ProperRun(handler[h]) /\ h \in DOMAIN handler
  BY DEF D!reserveDownload, SlotInv, RunsTyped, SlotsHeld, SlotsOf, MayHoldSlot, D!Working
<1>2. ASSUME NEW phase \in {"clicking", "download"}, D!Goes(h, phase),
             slots' = slots \cup {D!Reservation(h)}
      PROVE  SlotInv'
  <2>. DEFINE run == [handler[h] EXCEPT !.at = phase]
  <2>1. handler' = [handler EXCEPT ![h] = run]
    BY <1>2 DEF D!Goes
  <2>2. ProperRun(run) /\ run.at \in MayHoldSlot /\ run.session = handler[h].session
    BY <1>1 DEF ProperRun, D!Run, D!Phase, MayHoldSlot, D!Working
  <2>. HIDE DEF run
  <2>3. /\ D!Reservation(h) \in [session : Session, by : D!Handler, item : 0..MaxItems]
        /\ D!Reservation(h).by = h /\ D!Reservation(h).session = handler[h].session
        /\ D!Reservation(h).item = D!NoItem
    BY <1>1 DEF D!Reservation, ProperRun, D!NoItem, D!Working, D!DownloadsAssumption
  <2>4. RunsTyped'
    BY <1>1, <1>2, <2>1, <2>2, <2>3 DEF SlotInv, RunsTyped, ProperRun
  <2>5. D!OneOwner'
    BY <1>2, <2>3 DEF SlotInv, D!OneOwner
  <2>6. SlotsHeld'
    <3>. SUFFICES ASSUME NEW r \in slots', r.item = D!NoItem
                  PROVE  /\ handler'[r.by].at \in MayHoldSlot
                         /\ handler'[r.by].at \in D!Working => r.session = handler'[r.by].session
      BY DEF SlotsHeld
    <3>1. CASE r = D!Reservation(h)
      BY <3>1, <2>1, <2>2, <2>3, <1>1
    <3>2. CASE r \in slots
      <4>1. r.by # h
        BY <3>2, <1>1 DEF SlotsOf
      <4>. QED BY <3>2, <4>1, <2>1 DEF SlotInv, SlotsHeld, RunsTyped
    <3>. QED BY <3>1, <3>2, <1>2
  <2>. QED BY <2>4, <2>5, <2>6 DEF SlotInv
<1>3. CASE D!Ends(h, "done") /\ UNCHANGED slots
  BY <1>1, <1>3, RunEnds DEF D!Ended, SlotsOf
<1>. QED BY <1>2, <1>3 DEF D!reserveDownload

LEMMA SlotClick ==
  ASSUME D!DownloadsAssumption, SlotInv, NEW h \in D!Handler, D!Click(h)
  PROVE  SlotInv'
<1>1. /\ handler[h].at \in MayHoldSlot \cap D!Working
      /\ UNCHANGED <<slots, items>> /\ items \in 0..MaxItems
  BY DEF D!Click, SlotInv, RunsTyped, MayHoldSlot, D!Working
<1>2. CASE D!Drops(h)
  BY <1>1, <1>2, RunSettled DEF D!Drops, D!NoItem, D!DownloadsAssumption
<1>3. CASE D!Goes(h, "waiting")
  BY <1>1, <1>3, RunGoes DEF D!Working
<1>4. CASE D!Ends(h, "unknown")
  BY <1>1, <1>4, RunEnds DEF D!Ended
<1>. QED BY <1>2, <1>3, <1>4 DEF D!Click

LEMMA SlotSignal ==
  ASSUME D!DownloadsAssumption, SlotInv, NEW h \in D!Handler, D!Signal(h)
  PROVE  SlotInv'
<1>1. /\ handler[h].at \in MayHoldSlot \cap D!Working
      /\ UNCHANGED <<slots, items>> /\ items \in 0..MaxItems /\ ProperRun(handler[h])
  BY DEF D!Signal, SlotInv, RunsTyped, MayHoldSlot, D!Working
<1>2. CASE handler[h].saw = "item"
  <2>1. handler[h].item \in 0..MaxItems /\ handler[h].item # D!NoItem
    BY <1>1, <1>2 DEF ProperRun, D!Run
  <2>. QED BY <1>1, <1>2, <2>1, RunSettled DEF D!Signal, D!Takes
<1>3. CASE handler[h].saw # "item"
  BY <1>1, <1>3, RunSettled DEF D!Signal, D!Drops, D!NoItem, D!DownloadsAssumption
<1>. QED BY <1>2, <1>3

LEMMA SlotReconcile ==
  ASSUME D!DownloadsAssumption, SlotInv, NEW h \in D!Handler, D!reconcileCreatedDownload(h)
  PROVE  SlotInv'
<1>1. /\ handler[h].at = "waiting" /\ ProperRun(handler[h])
      /\ UNCHANGED <<slots, items>> /\ items \in 0..MaxItems
  BY DEF D!reconcileCreatedDownload, SlotInv, RunsTyped
<1>2. ASSUME NEW i \in (handler[h].before + 1)..items,
             handler' = [handler EXCEPT ![h].at = "fulfil", ![h].saw = "item", ![h].item = i]
      PROVE  SlotInv'
  <2>. DEFINE run == [handler[h] EXCEPT !.at = "fulfil", !.saw = "item", !.item = i]
  <2>1. handler' = [handler EXCEPT ![h] = run]
    BY <1>2 DEF SlotInv, RunsTyped, D!Run
  <2>2. i \in 0..MaxItems /\ i # D!NoItem
    BY <1>1 DEF ProperRun, D!Run, D!NoItem, D!DownloadsAssumption
  <2>3. ProperRun(run)
    BY <1>1, <2>2 DEF ProperRun, D!Run, D!Phase, D!Working
  <2>4. StillHolds(handler[h], run)
    BY <1>1 DEF StillHolds, MayHoldSlot, D!Working, ProperRun, D!Run
  <2>. HIDE DEF run
  <2>. QED BY <1>1, <2>1, <2>3, <2>4, OneRunMoves
<1>3. CASE D!Ends(h, "unknown")
  BY <1>1, <1>3, RunEnds DEF D!Ended
<1>4. CASE handler' = [handler EXCEPT ![h].at = "rollback", ![h].saw = "tab"]
  <2>. DEFINE run == [handler[h] EXCEPT !.at = "rollback", !.saw = "tab"]
  <2>1. handler' = [handler EXCEPT ![h] = run]
    BY <1>4 DEF SlotInv, RunsTyped, D!Run
  <2>2. ProperRun(run)
    BY <1>1 DEF ProperRun, D!Run, D!Phase, D!Working
  <2>3. StillHolds(handler[h], run)
    BY <1>1 DEF StillHolds, MayHoldSlot, D!Working, ProperRun, D!Run
  <2>. HIDE DEF run
  <2>. QED BY <1>1, <2>1, <2>2, <2>3, OneRunMoves
<1>. QED BY <1>2, <1>3, <1>4 DEF D!reconcileCreatedDownload

LEMMA SlotDownloadImage ==
  ASSUME D!DownloadsAssumption, SlotInv, NEW h \in D!Handler, D!DownloadImage(h)
  PROVE  SlotInv'
<1>1. /\ handler[h].at \in MayHoldSlot \cap D!Working
      /\ UNCHANGED slots /\ items \in 0..MaxItems
  BY DEF D!DownloadImage, SlotInv, RunsTyped, MayHoldSlot, D!Working
<1>2. CASE D!Drops(h) /\ UNCHANGED items
  BY <1>1, <1>2, RunSettled DEF D!Drops, D!NoItem, D!DownloadsAssumption
<1>3. CASE items < MaxItems /\ items' = items + 1 /\ D!Takes(h, items')
  <2>1. items' \in 0..MaxItems /\ items' # D!NoItem
    BY <1>1, <1>3 DEF D!NoItem, D!DownloadsAssumption
  <2>. QED BY <1>1, <1>3, <2>1, RunSettled DEF D!Takes
<1>. QED BY <1>2, <1>3 DEF D!DownloadImage

(* The slot becomes the record of a download that no other record has; or    *)
(* the command says that it does not know.                                   *)
LEMMA SlotFulfil ==
  ASSUME D!DownloadsAssumption, SlotInv, NEW h \in D!Handler, D!Fulfil(h)
  PROVE  SlotInv'
<1>. DEFINE i == handler[h].item
            filled == [session |-> handler[h].session, by |-> h, item |-> i]
<1>1. /\ handler[h].at = "fulfil" /\ items' = items /\ items \in 0..MaxItems
      /\ i \in 0..MaxItems /\ i # D!NoItem /\ handler[h].session \in Session
  BY DEF D!Fulfil, SlotInv, RunsTyped, ProperRun, D!Run, D!Working
<1>2. CASE D!canFulfill(h, i) /\ slots' = D!fulfillDownloadReservation(h, i) /\ D!Ends(h, "done")
  <2>. HIDE DEF i
  <2>1. slots' = (slots \ {D!Reservation(h)}) \cup {filled}
    BY <1>2 DEF D!fulfillDownloadReservation, D!Reservation
  <2>2. \A r \in slots : r.item # i
    BY <1>2 DEF D!canFulfill
  <2>3. handler' = [handler EXCEPT ![h] = D!Quiet("done")]
    BY <1>2 DEF D!Ends
  <2>4. RunsTyped'
    <3>1. ProperRun(D!Quiet("done"))
      BY DEF D!DownloadsAssumption, ProperRun, D!Quiet, D!Run, D!Phase, D!Ended, D!Working, D!NoItem
    <3>2. filled \in [session : Session, by : D!Handler, item : 0..MaxItems]
      BY <1>1
    <3>. HIDE DEF filled
    <3>. QED BY <1>1, <2>1, <2>3, <3>1, <3>2 DEF SlotInv, RunsTyped, ProperRun
  <2>5. D!OneOwner'
    BY <2>1, <2>2 DEF SlotInv, D!OneOwner
  <2>6. \A r \in slots' : r.item = D!NoItem => r \in slots
    BY <1>1, <2>1
  <2>7. SlotsOf(h, slots') = {}
    <3>1. ASSUME NEW r \in slots, r.by = h, r.item = D!NoItem PROVE r = D!Reservation(h)
      <4>1. r.session = handler[h].session
        BY <1>1, <3>1 DEF SlotInv, SlotsHeld, D!Working
      <4>2. r \in [session : Session, by : D!Handler, item : 0..MaxItems]
        BY DEF SlotInv, RunsTyped
      <4>. QED BY <3>1, <4>1, <4>2 DEF D!Reservation
    <3>. QED BY <1>1, <2>1, <3>1 DEF SlotsOf
  <2>8. \A g \in D!Handler : SlotsOf(g, slots') = {} \/ StillHolds(handler[g], handler'[g])
    <3>. SUFFICES ASSUME NEW g \in D!Handler
                  PROVE  SlotsOf(g, slots') = {} \/ StillHolds(handler[g], handler'[g])
      OBVIOUS
    <3>1. CASE g = h
      BY <3>1, <2>7
    <3>2. CASE g # h
      BY <3>2, <2>3 DEF SlotInv, RunsTyped, StillHolds
    <3>. QED BY <3>1, <3>2
  <2>. QED BY <2>4, <2>5, <2>6, <2>8, KeepsSlots
<1>3. CASE UNCHANGED slots /\ D!Ends(h, "unknown")
  BY <1>1, <1>3, RunEnds DEF D!Ended
<1>. QED BY <1>2, <1>3 DEF D!Fulfil

LEMMA SlotRollback ==
  ASSUME D!DownloadsAssumption, SlotInv, NEW h \in D!Handler, D!Rollback(h)
  PROVE  SlotInv'
<1>1. /\ handler[h].at = "rollback" /\ items' \in 0..MaxItems /\ D!Ends(h, "done")
      /\ slots' = slots \ {D!Reservation(h)}
  BY DEF D!Rollback, SlotInv, RunsTyped, D!rollbackDownloadReservation
<1>2. ASSUME NEW r \in slots, r.by = h, r.item = D!NoItem PROVE r = D!Reservation(h)
  <2>1. r.session = handler[h].session
    BY <1>1, <1>2 DEF SlotInv, SlotsHeld, D!Working
  <2>2. r \in [session : Session, by : D!Handler, item : 0..MaxItems]
    BY DEF SlotInv, RunsTyped
  <2>. QED BY <1>2, <2>1, <2>2 DEF D!Reservation
<1>3. SlotsOf(h, slots') = {}
  BY <1>1, <1>2 DEF SlotsOf
<1>. QED BY <1>1, <1>3, RunEnds DEF D!Ended

-----------------------------------------------------------------------------
(* What the browser and the worker do to them.                               *)

(* A listener that resolves leaves the command where it was.                 *)
LEMMA SlotBrowser ==
  ASSUME D!DownloadsAssumption, SlotInv, D!DownloadCreated
  PROVE  SlotInv'
<1>1. PICK takers \in SUBSET {h \in D!Handler : D!Listens(h)} :
        handler' = [h \in D!Handler |-> IF h \in takers
                                        THEN [handler[h] EXCEPT !.saw = "item", !.item = items']
                                        ELSE handler[h]]
  BY DEF D!DownloadCreated
<1>2. items' \in 0..MaxItems /\ items' # D!NoItem /\ UNCHANGED slots
  <2>1. items \in 0..MaxItems /\ MaxItems \in Nat
    BY DEF SlotInv, RunsTyped, D!DownloadsAssumption
  <2>2. items < MaxItems /\ items' = items + 1 /\ UNCHANGED slots
    BY DEF D!DownloadCreated
  <2>. QED BY <2>1, <2>2 DEF D!NoItem
<1>3. ASSUME NEW h \in D!Handler
      PROVE  ProperRun(handler'[h]) /\ StillHolds(handler[h], handler'[h])
  <2>1. ProperRun(handler[h])
    BY DEF SlotInv, RunsTyped
  <2>2. CASE h \notin takers
    BY <1>1, <2>1, <2>2 DEF StillHolds
  <2>3. CASE h \in takers
    <3>1. handler'[h] = [handler[h] EXCEPT !.saw = "item", !.item = items']
      BY <1>1, <2>3
    <3>2. D!Listens(h)
      BY <2>3
    <3>. QED BY <1>2, <2>1, <3>1, <3>2
             DEF ProperRun, StillHolds, D!Run, D!Listens, MayHoldSlot, D!Working
  <2>. QED BY <2>2, <2>3
<1>4. RunsTyped'
  BY <1>1, <1>2, <1>3 DEF SlotInv, RunsTyped, ProperRun
<1>5. D!OneOwner'
  BY <1>2 DEF SlotInv, D!OneOwner
<1>. QED BY <1>2, <1>3, <1>4, <1>5, KeepsSlots

LEMMA SlotTab ==
  ASSUME D!DownloadsAssumption, SlotInv, NEW h \in D!Handler, D!TabCreated(h)
  PROVE  SlotInv'
<1>. DEFINE run == [handler[h] EXCEPT !.saw = "tab"]
<1>1. handler' = [handler EXCEPT ![h] = run] /\ UNCHANGED <<slots, items>> /\ ProperRun(handler[h])
  BY DEF D!TabCreated, SlotInv, RunsTyped
<1>2. ProperRun(run) /\ StillHolds(handler[h], run)
  BY <1>1 DEF D!TabCreated, D!Listens, ProperRun, StillHolds, D!Run, MayHoldSlot, D!Working
<1>. HIDE DEF run
<1>. QED BY <1>1, <1>2, OneRunMoves DEF SlotInv, RunsTyped

LEMMA SlotDeadline ==
  ASSUME D!DownloadsAssumption, SlotInv, NEW h \in D!Handler, D!DeadlinePasses(h)
  PROVE  SlotInv'
<1>. DEFINE run == [handler[h] EXCEPT !.late = TRUE]
<1>1. handler' = [handler EXCEPT ![h] = run] /\ UNCHANGED <<slots, items>> /\ ProperRun(handler[h])
  BY DEF D!DeadlinePasses, SlotInv, RunsTyped
<1>2. ProperRun(run) /\ StillHolds(handler[h], run)
  BY <1>1 DEF D!DeadlinePasses, ProperRun, StillHolds, D!Run, MayHoldSlot, D!Working
<1>. HIDE DEF run
<1>. QED BY <1>1, <1>2, OneRunMoves DEF SlotInv, RunsTyped

LEMMA SlotWorker ==
  ASSUME D!DownloadsAssumption, SlotInv, D!WorkerDies
  PROVE  SlotInv'
<1>1. ProperRun(D!Quiet("unknown")) /\ D!Quiet("unknown").at = "unknown"
  BY DEF D!DownloadsAssumption, ProperRun, D!Quiet, D!Run, D!Phase, D!Ended, D!Working, D!NoItem
<1>2. /\ handler' = [h \in D!Handler |-> IF handler[h].at \in D!Working
                                         THEN D!Quiet("unknown") ELSE handler[h]]
      /\ UNCHANGED <<slots, items>>
  BY DEF D!WorkerDies
<1>3. RunsTyped'
  BY <1>1, <1>2 DEF SlotInv, RunsTyped, ProperRun
<1>4. \A h \in D!Handler : StillHolds(handler[h], handler'[h])
  BY <1>1, <1>2 DEF StillHolds, MayHoldSlot, D!Working
<1>5. D!OneOwner'
  BY <1>2 DEF SlotInv, D!OneOwner
<1>. QED BY <1>2, <1>3, <1>4, <1>5, KeepsSlots

(* What a session gives back is given back whole.                            *)
LEMMA SlotGivesBack ==
  ASSUME SlotInv, slots' \subseteq slots, UNCHANGED <<handler, items>>
  PROVE  SlotInv'
BY DEF SlotInv, RunsTyped, SlotsHeld, D!OneOwner

LEMMA SlotNext ==
  ASSUME D!DownloadsAssumption, SlotInv, [D!Next]_(D!vars)
  PROVE  SlotInv'
<1>1. ASSUME NEW h \in D!Handler,
             D!Start(h) \/ D!reserveDownload(h) \/ D!Click(h) \/ D!Signal(h) \/ D!reconcileCreatedDownload(h)
             \/ D!DownloadImage(h) \/ D!Fulfil(h) \/ D!Rollback(h) \/ D!TabCreated(h) \/ D!DeadlinePasses(h)
      PROVE  SlotInv'
  BY <1>1, SlotStart, SlotReserve, SlotClick, SlotSignal, SlotReconcile, SlotDownloadImage,
     SlotFulfil, SlotRollback, SlotTab, SlotDeadline
<1>2. ASSUME NEW s \in Session, D!commandDeleteDownload(s) \/ D!releaseSessionDownloads(s)
      PROVE  SlotInv'
  BY <1>2, SlotGivesBack DEF D!commandDeleteDownload, D!releaseSessionDownloads
<1>3. CASE D!DownloadCreated
  BY <1>3, SlotBrowser
<1>4. CASE D!WorkerDies
  BY <1>4, SlotWorker
<1>5. CASE UNCHANGED D!vars
  BY <1>5, SlotGivesBack DEF D!vars
<1>. QED BY <1>1, <1>2, <1>3, <1>4, <1>5 DEF D!Next

(* A slot without a download belongs to a command at work or to one whose    *)
(* outcome nobody knows, and no two commands get the same download, however  *)
(* late handlers, cleanups, other downloads and the end of the worker come   *)
(* between (docs/architecture.md, "Download IDs"; stage-one.js).             *)
THEOREM SlotsAreAccounted == Spec => []DownloadsAccounted
<1> DEFINE Inv == part = "downloads" => SlotInv
<1>1. Init => Inv
  BY SlotInit, ComponentsAssumption DEF Init
<1>2. Inv /\ [Next]_vars => Inv'
  <2>1. SUFFICES ASSUME Inv, [Next]_vars, part' = "downloads" PROVE SlotInv'
    OBVIOUS
  <2>2. part = "downloads" /\ (D!Next \/ UNCHANGED D!vars)
    BY <2>1 DEF Next, vars, downloadVars, D!vars
  <2>. QED BY <2>1, <2>2, SlotNext, ComponentsAssumption
<1>3. Inv => DownloadsAccounted
  BY DEF DownloadsAccounted, SlotInv, SlotsHeld, MayHoldSlot, D!DownloadsAccounted,
     D!ReservationsAccounted
<1>. QED BY <1>1, <1>2, <1>3, PTL DEF Spec

-----------------------------------------------------------------------------
(* Every client finds the same broker, for any number of clients and of      *)
(* brokers they spawn, and any number of processes killed.  The lock plays   *)
(* no part in the argument: what decides is that a broker has the port for   *)
(* clients before it writes the file, and keeps it as long as it lives.      *)

HasPort == {"listening", "written", "serving", "closing"}
HasWritten == {"written", "serving", "closing"}

StartupInv ==
  /\ broker \in [Broker -> B!BrokerPhase]
  /\ \A b \in Broker : broker[b] \in HasPort => ipc = b
  /\ \A b \in Broker : broker[b] \in HasWritten => runtime = b

LEMMA StartupInit == B!Init => StartupInv
BY DEF B!Init, StartupInv, B!BrokerPhase, HasPort, HasWritten

(* A broker that exits has neither port; what another one has, it keeps.     *)
LEMMA ExitKeeps ==
  ASSUME StartupInv, NEW b \in Broker, B!Exits(b), UNCHANGED runtime
  PROVE  StartupInv'
<1>1. broker' = [broker EXCEPT ![b] = "dead"]
  BY DEF B!Exits, B!Becomes
<1>2. ASSUME NEW c \in Broker, broker'[c] \in HasPort PROVE ipc' = c
  <2>1. c # b /\ broker'[c] = broker[c]
    BY <1>1, <1>2 DEF StartupInv, HasPort
  <2>. QED BY <2>1, <1>2 DEF StartupInv, B!Exits
<1>. QED BY <1>1, <1>2 DEF StartupInv, B!BrokerPhase, HasPort, HasWritten

LEMMA StartupNext ==
  ASSUME B!BrokerStartupAssumption, StartupInv, [B!Next]_(B!vars)
  PROVE  StartupInv'
<1>. USE DEF StartupInv, B!BrokerPhase, HasPort, HasWritten
<1>1. ASSUME NEW c \in Client, B!Look(c) PROVE StartupInv'
  BY <1>1 DEF B!Look, B!Goes
<1>2. ASSUME NEW c \in Client,
             B!StatLock(c) \/ B!RemoveLock(c) \/ B!tryAcquireStartupLock(c) \/ B!Poll(c)
             \/ B!releaseLock(c) \/ B!StartAgain(c) \/ B!ClientKilled(c)
      PROVE  StartupInv'
  BY <1>2 DEF B!StatLock, B!RemoveLock, B!tryAcquireStartupLock, B!Poll, B!releaseLock, B!StartAgain,
              B!ClientKilled, B!brokerVars
<1>3. ASSUME NEW b \in Broker, B!BridgeStart(b) PROVE StartupInv'
  BY <1>3, ExitKeeps DEF B!BridgeStart, B!Becomes
<1>4. ASSUME NEW b \in Broker, B!Listen(b) PROVE StartupInv'
  <2>1. CASE ipc = None
    BY <1>4, <2>1 DEF B!Listen, B!Becomes, B!BrokerStartupAssumption
  <2>2. CASE ipc # None
    BY <1>4, <2>2, ExitKeeps DEF B!Listen
  <2>. QED BY <2>1, <2>2
<1>5. ASSUME NEW b \in Broker, B!writeRuntime(b) PROVE StartupInv'
  BY <1>5 DEF B!writeRuntime, B!Becomes
<1>6. ASSUME NEW b \in Broker, B!Serve(b) \/ B!StopBridge(b) PROVE StartupInv'
  BY <1>6 DEF B!Serve, B!StopBridge, B!Becomes
<1>7. ASSUME NEW b \in Broker, B!CloseServer(b) \/ B!BrokerKilled(b) PROVE StartupInv'
  BY <1>7, ExitKeeps DEF B!CloseServer, B!BrokerKilled
<1>8. CASE B!LockAges
  BY <1>8 DEF B!LockAges, B!brokerVars
<1>9. CASE UNCHANGED B!vars
  BY <1>9 DEF B!vars
<1>. QED BY <1>1, <1>2, <1>3, <1>4, <1>5, <1>6, <1>7, <1>8, <1>9 DEF B!Next

(* The broker that serves is the one that runtime.json names, so that every  *)
(* client finds the same one, whoever has held or removed the startup lock   *)
(* (runtime.ts, broker-client.ts, broker-server.ts).                         *)
THEOREM ServerIsNamed == Spec => []RuntimeNamesServer
<1> DEFINE Inv == part = "startup" => StartupInv
<1>1. Init => Inv
  BY StartupInit DEF Init
<1>2. Inv /\ [Next]_vars => Inv'
  <2>1. SUFFICES ASSUME Inv, [Next]_vars, part' = "startup" PROVE StartupInv'
    OBVIOUS
  <2>2. part = "startup" /\ [B!Next]_(B!vars)
    BY <2>1 DEF Next, vars, startupVars, B!vars
  <2>. QED BY <2>1, <2>2, StartupNext, ComponentsAssumption
<1>3. Inv => RuntimeNamesServer
  BY DEF RuntimeNamesServer, StartupInv, B!RuntimeNamesServer, HasPort, HasWritten
<1>. QED BY <1>1, <1>2, <1>3, PTL DEF Spec

-----------------------------------------------------------------------------
(* The guesses at a code are attempts that were counted; a lock has changed  *)
(* the code, and the count stays full until a new hello sets it back, which  *)
(* it does together with the lock.                                           *)
GuessInv ==
  /\ attempts \in 0..MaxPairingAttempts
  /\ guesses \in Nat
  /\ pairingLock \in {"no", "locked", "over"}
  /\ guesses <= attempts /\ guesses < MaxPairingAttempts
  /\ pairingLock # "no" => guesses = 0 /\ attempts = MaxPairingAttempts

countVars == <<attempts, guesses, pairingLock>>

LEMMA GuessInit == H!HandshakeAssumption /\ H!Init => GuessInv
BY DEF H!HandshakeAssumption, H!Init, GuessInv

LEMMA HelloKeeps ==
  ASSUME H!HandshakeAssumption, GuessInv, NEW p \in Profile, H!hello(p)
  PROVE  GuessInv'
BY DEF H!HandshakeAssumption, GuessInv, H!hello, H!rotatePairingCode, H!AttemptsSoFar

LEMMA ApproveKeeps ==
  ASSUME H!HandshakeAssumption, GuessInv, NEW p \in Profile, H!pairing_approve(p)
  PROVE  GuessInv'
BY DEF H!HandshakeAssumption, GuessInv, H!pairing_approve, H!rotatePairingCode

(* The other messages of the handshake, and the writing of the token: only   *)
(* the rename that makes a new token touches the count.                      *)
LEMMA AuthenticateKeeps ==
  ASSUME H!HandshakeAssumption, GuessInv, NEW p \in Profile, H!authenticate(p)
  PROVE  GuessInv'
<1>1. CASE H!hello(p)
  BY <1>1, HelloKeeps
<1>2. CASE H!pairing_approve(p)
  BY <1>2, ApproveKeeps
<1>3. CASE H!rename(p)
  BY <1>3 DEF H!rename, GuessInv, H!pairingVars, H!HandshakeAssumption
<1>4. CASE H!Unexpected(p) \/ H!pairing_confirm(p) \/ H!writeFile(p) \/ H!auth_response(p) \/ H!auth_confirm(p)
  <2>1. UNCHANGED countVars
    BY <1>4 DEF H!Unexpected, H!pairing_confirm, H!writeFile, H!auth_response, H!auth_confirm,
                H!pairingVars, countVars
  <2>. QED BY <2>1 DEF GuessInv, countVars
<1>. QED BY <1>1, <1>2, <1>3, <1>4 DEF H!authenticate

LEMMA GuessNext ==
  ASSUME H!HandshakeAssumption, GuessInv, [H!Next]_(H!vars)
  PROVE  GuessInv'
<1>1. ASSUME NEW p \in Profile,
             H!connectTransport(p) \/ H!Opened(p) \/ H!approvePairing(p) \/ H!revokePairing(p)
             \/ H!handleTransportMessage(p) \/ H!HandshakeTimeout(p) \/ H!ConnectionLost(p)
      PROVE  GuessInv'
  <2>1. UNCHANGED countVars
    BY <1>1 DEF H!connectTransport, H!Opened, H!approvePairing, H!revokePairing, H!handleTransportMessage,
                H!HandshakeTimeout, H!ConnectionLost, H!pairingVars, countVars
  <2>. QED BY <2>1 DEF GuessInv, countVars
<1>2. ASSUME NEW p \in Profile, H!authenticate(p) PROVE GuessInv'
  BY <1>2, AuthenticateKeeps
<1>3. CASE H!CodeExpires
  BY <1>3 DEF H!CodeExpires, GuessInv
<1>4. CASE H!LockPasses
  BY <1>4 DEF H!LockPasses, GuessInv
<1>5. CASE H!BrokerRestarts
  BY <1>5 DEF H!BrokerRestarts, GuessInv, H!HandshakeAssumption
<1>6. CASE UNCHANGED H!vars
  BY <1>6 DEF H!vars, H!pairingVars, GuessInv
<1>. QED BY <1>1, <1>2, <1>3, <1>4, <1>5, <1>6 DEF H!Next

(* No pairing code outlives MAX_PAIRING_ATTEMPTS wrong guesses, over however *)
(* many connections they are spread, whatever expires, and whoever pairs     *)
(* meanwhile (bridge.ts, #authenticate and #lockPairing).                    *)
THEOREM GuessesAreBounded == Spec => []GuessesPerCode
<1> DEFINE Inv == part = "handshake" => GuessInv
<1>1. Init => Inv
  BY GuessInit, ComponentsAssumption DEF Init
<1>2. Inv /\ [Next]_vars => Inv'
  <2>1. SUFFICES ASSUME Inv, [Next]_vars, part' = "handshake" PROVE GuessInv'
    OBVIOUS
  <2>2. part = "handshake" /\ [H!Next]_(H!vars)
    BY <2>1 DEF Next, vars, handshakeVars, H!vars, H!pairingVars
  <2>. QED BY <2>1, <2>2, GuessNext, ComponentsAssumption
<1>3. Inv => GuessesPerCode
  BY DEF GuessesPerCode, GuessInv, H!GuessesPerCode
<1>. QED BY <1>1, <1>2, <1>3, PTL DEF Spec

-----------------------------------------------------------------------------
(* The user's answer counts for the document it was given on.  A document    *)
(* number only grows, so an answer that lies between the document the        *)
(* request was made for and the present one, checked once more against the   *)
(* present one, was given on the very document of the request; and an        *)
(* operation whose request is granted has no request left to be answered.    *)

(* The answer came after the request. *)
AnsweredSince(o) == work[o].doc <= consent[o] /\ consent[o] <= page[o].doc

Granted(o) ==
  (work[o].at = "settle" /\ work[o].granted) \/ work[o].at \in {"recheck", "ready", "attach"}

RequestInv(r) ==
  /\ work[r.id].at \notin {"idle", "create"} /\ ~work[r.id].trusted
  /\ r.worker <= worker
  /\ A!Actionable(r) => work[r.id].at \in {"wait", "settle"}
  /\ r.status = "pending" => ~Granted(r.id)
  /\ r.status = "approved" => AnsweredSince(r.id)

OperationInv(o) ==
  /\ work[o].at # "idle" => work[o].doc <= page[o].doc
  /\ work[o].at = "idle" => ~work[o].granted
  /\ work[o].at \in {"create", "wait"} => ~work[o].granted /\ ~work[o].trusted
  /\ work[o].trusted => work[o].kind = "upload"
  /\ Granted(o) /\ ~work[o].trusted => AnsweredSince(o)
  /\ work[o].at \in {"ready", "attach"} /\ ~work[o].trusted => consent[o] = work[o].doc

ApprovalInv ==
  /\ A!TypeOK
  /\ trusting.read => trusting.host # None
  /\ \A i, j \in DOMAIN approvals : approvals[i].id = approvals[j].id => i = j
  /\ \A i \in DOMAIN approvals : RequestInv(approvals[i])
  /\ \A o \in Operation : OperationInv(o)

LEMMA ApprovalInit == A!ApprovalsAssumption /\ A!Init => ApprovalInv
<1>. SUFFICES ASSUME A!ApprovalsAssumption, A!Init PROVE ApprovalInv
  OBVIOUS
<1>1. \A o \in Operation : page[o].doc = 0 /\ page[o].host \in Host
  BY DEF A!Init
<1>2. A!TypeOK
  <2>1. /\ 0 \in A!Document /\ 0 \in 0..MaxRestarts /\ A!NotTrusting = [host |-> None, list |-> {}, read |-> FALSE]
    BY DEF A!ApprovalsAssumption, A!Document, A!NotTrusting
  <2>2. work \in [Operation -> [at : A!Phase, kind : A!Kind, doc : A!Document, host : Host,
                                trusted : BOOLEAN, granted : BOOLEAN]]
    BY <1>1, <2>1 DEF A!Init, A!Phase, A!Kind
  <2>3. page \in [Operation -> [doc : A!Document, host : Host]]
    BY <2>1 DEF A!Init
  <2>4. approvals \in Seq(A!Record) /\ Len(approvals) <= HistoryLimit
    BY DEF A!Init, A!ApprovalsAssumption
  <2>5. {expired, aborted} \subseteq [Operation -> BOOLEAN] /\ sites \subseteq Host
    BY DEF A!Init
  <2>6. trusting \in [host : Host \cup {None}, list : SUBSET Host, read : BOOLEAN]
    BY <2>1 DEF A!Init
  <2>7. worker \in 0..MaxRestarts /\ consent \in [Operation -> A!Document \cup {-1}]
    BY <2>1 DEF A!Init
  <2>. QED BY <2>2, <2>3, <2>4, <2>5, <2>6, <2>7 DEF A!TypeOK
<1>. QED
  BY <1>1, <1>2 DEF A!Init, A!NotTrusting, ApprovalInv, OperationInv, Granted, AnsweredSince

(* What is kept of the records is a suffix. *)
LEMMA KeptProperties ==
  ASSUME A!ApprovalsAssumption, NEW s \in Seq(A!Record), s # << >>
  PROVE  /\ A!Kept(s) \in Seq(A!Record) /\ Len(A!Kept(s)) <= HistoryLimit
         /\ \E d \in Nat : \A i \in DOMAIN A!Kept(s) :
              i + d \in DOMAIN s /\ A!Kept(s)[i] = s[i + d]
<1>1. Len(s) \in Nat /\ Len(s) > 0 /\ DOMAIN s = 1..Len(s) /\ HistoryLimit \in Nat /\ HistoryLimit > 0
  BY DEF A!ApprovalsAssumption
<1> DEFINE n == IF Len(s) < HistoryLimit THEN Len(s) ELSE HistoryLimit
           d == Len(s) - n
<1>2. n \in Nat /\ n <= Len(s) /\ n <= HistoryLimit /\ n > 0 /\ d \in Nat
  BY <1>1
<1>3. /\ A!Kept(s) \in Seq(A!Record) /\ Len(A!Kept(s)) = n
      /\ \A i \in 1..n : A!Kept(s)[i] = s[i + d]
  <2>1. A!Kept(s) = SubSeq(s, d + 1, Len(s))
    BY DEF A!Kept
  <2>2. d + 1 \in Int /\ Len(s) \in Int /\ d + 1 <= Len(s) /\ Len(s) - (d + 1) + 1 = n
    BY <1>1, <1>2
  <2>3. \A i \in d + 1..Len(s) : s[i] \in A!Record
    BY <1>1, <1>2
  <2>4. \A i \in 1..n : d + 1 + i - 1 = i + d
    BY <1>1, <1>2
  <2> HIDE DEF n, d
  <2>5. A!Kept(s) \in Seq(A!Record) /\ Len(A!Kept(s)) = n
    BY <2>1, <2>2, <2>3, SubSeqProperties
  <2>6. \A i \in 1..n : A!Kept(s)[i] = s[d + 1 + i - 1]
    BY <2>1, <2>2, <2>3, SubSeqProperties
  <2>. QED BY <2>4, <2>5, <2>6
<1>4. \A i \in 1..n : i + d \in DOMAIN s
  BY <1>1, <1>2
<1> HIDE DEF n, d
<1>5. DOMAIN A!Kept(s) = 1..n
  BY <1>2, <1>3
<1>. QED BY <1>2, <1>3, <1>4, <1>5

(* The records after a decision, and after a new request.                    *)
LEMMA DecidedProperties ==
  ASSUME A!TypeOK, NEW o \in Operation, NEW status \in A!Status
  PROVE  /\ A!Decided(o, status) \in Seq(A!Record)
         /\ Len(A!Decided(o, status)) = Len(approvals)
         /\ DOMAIN A!Decided(o, status) = DOMAIN approvals
         /\ \A i \in DOMAIN approvals :
              /\ approvals[i] \in A!Record
              /\ A!Decided(o, status)[i] =
                   IF approvals[i].id = o /\ approvals[i].status = "pending"
                     THEN [approvals[i] EXCEPT !.status = status] ELSE approvals[i]
              /\ A!Decided(o, status)[i] \in A!Record
<1>1. approvals \in Seq(A!Record)
  BY DEF A!TypeOK
<1>2. \A i \in DOMAIN approvals : approvals[i] \in A!Record
  BY <1>1, ElementOfSeq
<1>3. \A r \in A!Record : [r EXCEPT !.status = status] \in A!Record
  BY DEF A!Record
<1>4. \A i \in DOMAIN approvals : [approvals[i] EXCEPT !.status = status] \in A!Record
  BY <1>2, <1>3
<1>5. A!Decided(o, status) \in Seq(A!Record) /\ Len(A!Decided(o, status)) = Len(approvals)
  <2>1. DOMAIN approvals = 1..Len(approvals) /\ Len(approvals) \in Nat
    BY <1>1
  <2>. QED BY <2>1, <1>2, <1>4 DEF A!Decided
<1>. QED BY <1>2, <1>4, <1>5 DEF A!Decided

LEMMA RequestedProperties ==
  ASSUME A!ApprovalsAssumption, A!TypeOK, NEW r \in A!Record
  PROVE  LET new == A!Kept(Append(approvals, r))
         IN /\ new \in Seq(A!Record) /\ Len(new) <= HistoryLimit
            /\ \E d \in Nat : \A i \in DOMAIN new :
                 \/ i + d \in DOMAIN approvals /\ new[i] = approvals[i + d]
                 \/ i + d = Len(approvals) + 1 /\ new[i] = r
<1> DEFINE s == Append(approvals, r)
<1>1. approvals \in Seq(A!Record)
  BY DEF A!TypeOK
<1>2. s \in Seq(A!Record) /\ s # << >>
  BY <1>1, AppendProperties
<1>3. \A i \in DOMAIN s : \/ i \in DOMAIN approvals /\ s[i] = approvals[i]
                          \/ i = Len(approvals) + 1 /\ s[i] = r
  BY <1>1, AppendProperties
<1> HIDE DEF s
<1>4. PICK d \in Nat : \A i \in DOMAIN A!Kept(s) :
        i + d \in DOMAIN s /\ A!Kept(s)[i] = s[i + d]
  BY <1>2, KeptProperties
<1>5. \A i \in DOMAIN A!Kept(s) :
        \/ i + d \in DOMAIN approvals /\ A!Kept(s)[i] = approvals[i + d]
        \/ i + d = Len(approvals) + 1 /\ A!Kept(s)[i] = r
  BY <1>3, <1>4
<1>6. A!Kept(s) \in Seq(A!Record) /\ Len(A!Kept(s)) <= HistoryLimit
  BY <1>2, KeptProperties
<1>. QED BY <1>5, <1>6 DEF s

LEMMA GoesTypes ==
  ASSUME A!TypeOK, NEW o \in Operation, NEW phase \in A!Phase, A!Goes(o, phase)
  PROVE  work' \in [Operation -> [at : A!Phase, kind : A!Kind, doc : A!Document, host : Host,
                              trusted : BOOLEAN, granted : BOOLEAN]]
<1>1. work \in [Operation -> [at : A!Phase, kind : A!Kind, doc : A!Document, host : Host,
                             trusted : BOOLEAN, granted : BOOLEAN]]
  BY DEF A!TypeOK
<1>2. [work[o] EXCEPT !.at = phase]
        \in [at : A!Phase, kind : A!Kind, doc : A!Document, host : Host,
            trusted : BOOLEAN, granted : BOOLEAN]
  BY <1>1
<1>. QED BY <1>1, <1>2 DEF A!Goes

LEMMA ApprovalTypes ==
  ASSUME A!ApprovalsAssumption, A!TypeOK, trusting.read => trusting.host # None, A!Next
  PROVE  A!TypeOK'
<1>. USE DEF A!TypeOK
<1>1. ASSUME NEW o \in Operation, NEW kind \in A!Kind, A!Authorize(o, kind) PROVE A!TypeOK'
  <2>1. work' \in [Operation -> [at : A!Phase, kind : A!Kind, doc : A!Document, host : Host,
                                 trusted : BOOLEAN, granted : BOOLEAN]]
    BY <1>1 DEF A!Authorize, A!Phase
  <2>. QED BY <1>1, <2>1 DEF A!Authorize
<1>2. ASSUME NEW o \in Operation, A!createPendingApproval(o) PROVE A!TypeOK'
  <2> DEFINE r == [id |-> o, kind |-> work[o].kind, host |-> work[o].host,
                   status |-> "pending", worker |-> worker]
  <2>1. r \in A!Record
    BY DEF A!Record, A!Status
  <2>2. work' \in [Operation -> [at : A!Phase, kind : A!Kind, doc : A!Document, host : Host,
                                 trusted : BOOLEAN, granted : BOOLEAN]]
    <3>1. \E phase \in A!Phase : A!Goes(o, phase)
      BY <1>2 DEF A!createPendingApproval, A!Phase, A!Fails
    <3>. QED BY <3>1, GoesTypes
  <2>3. approvals' = approvals \/ approvals' = A!Kept(Append(approvals, r))
    BY <1>2 DEF A!createPendingApproval
  <2> HIDE DEF r
  <2>4. approvals' \in Seq(A!Record) /\ Len(approvals') <= HistoryLimit
    BY <2>1, <2>3, RequestedProperties
  <2>. QED BY <1>2, <2>2, <2>4 DEF A!createPendingApproval
<1>3. ASSUME NEW o \in Operation,
             A!consumeApproval(o) \/ A!Recheck(o) \/ A!Dispatch(o) \/ A!cdpAttach(o)
      PROVE  A!TypeOK'
  <2>1. work' \in [Operation -> [at : A!Phase, kind : A!Kind, doc : A!Document, host : Host,
                                 trusted : BOOLEAN, granted : BOOLEAN]]
    <3>1. CASE A!consumeApproval(o)
      <4>1. PICK granted \in BOOLEAN :
              work' = [work EXCEPT ![o].at = "settle", ![o].granted = granted]
        BY <3>1 DEF A!consumeApproval
      <4>2. work[o] \in [at : A!Phase, kind : A!Kind, doc : A!Document, host : Host,
                         trusted : BOOLEAN, granted : BOOLEAN]
        OBVIOUS
      <4>3. [work[o] EXCEPT !.at = "settle", !.granted = granted]
              \in [at : A!Phase, kind : A!Kind, doc : A!Document, host : Host,
                   trusted : BOOLEAN, granted : BOOLEAN]
        BY <4>2 DEF A!Phase
      <4>4. work' = [work EXCEPT ![o] = [work[o] EXCEPT !.at = "settle", !.granted = granted]]
        BY <4>1
      <4>. QED BY <4>3, <4>4
    <3>2. CASE ~A!consumeApproval(o)
      <4>1. \E phase \in A!Phase : A!Goes(o, phase)
        BY <1>3, <3>2 DEF A!Recheck, A!Dispatch, A!cdpAttach, A!Phase, A!Fails
      <4>. QED BY <4>1, GoesTypes
    <3>. QED BY <3>1, <3>2
  <2>. QED BY <1>3, <2>1 DEF A!consumeApproval, A!Recheck, A!Dispatch, A!cdpAttach
<1>4. ASSUME NEW o \in Operation, A!SettleApproval(o) PROVE A!TypeOK'
  <2>1. work' \in [Operation -> [at : A!Phase, kind : A!Kind, doc : A!Document, host : Host,
                                 trusted : BOOLEAN, granted : BOOLEAN]]
    <3>1. \E phase \in A!Phase : A!Goes(o, phase)
      BY <1>4 DEF A!SettleApproval, A!Phase
    <3>. QED BY <3>1, GoesTypes
  <2>2. approvals' \in Seq(A!Record) /\ Len(approvals') <= HistoryLimit
    BY <1>4, DecidedProperties DEF A!SettleApproval, A!Status
  <2>. QED BY <1>4, <2>1, <2>2 DEF A!SettleApproval
<1>5. ASSUME NEW o \in Operation, A!Navigates(o) PROVE A!TypeOK'
  <2>1. page' \in [Operation -> [doc : A!Document, host : Host]]
    BY <1>5 DEF A!Navigates, A!Document, A!ApprovalsAssumption
  <2>. QED BY <1>5, <2>1 DEF A!Navigates
<1>6. ASSUME NEW o \in Operation, A!TimePasses(o) \/ A!Aborts(o) PROVE A!TypeOK'
  BY <1>6 DEF A!TimePasses, A!Aborts
<1>7. CASE A!decidePendingApproval
  <2>1. PICK i \in DOMAIN approvals, decision \in {"approve_once", "trust_host", "deny"} :
          LET r == approvals[i]
          IN /\ approvals' = A!Decided(r.id, IF decision = "deny" THEN "denied" ELSE "approved")
             /\ consent' = IF decision = "deny" THEN consent
                           ELSE [consent EXCEPT ![r.id] = page[r.id].doc]
             /\ trusting' = IF decision = "trust_host" THEN [trusting EXCEPT !.host = r.host]
                            ELSE trusting
    BY <1>7 DEF A!decidePendingApproval
  <2>2. approvals[i] \in A!Record
    BY ElementOfSeq
  <2>6. approvals[i].id \in Operation /\ approvals[i].host \in Host
    BY <2>2 DEF A!Record
  <2>3. approvals' \in Seq(A!Record) /\ Len(approvals') <= HistoryLimit
    BY <2>1, <2>6, DecidedProperties DEF A!Status
  <2>4. consent' \in [Operation -> A!Document \cup {-1}]
    BY <2>1, <2>6
  <2>5. trusting' \in [host : Host \cup {None}, list : SUBSET Host, read : BOOLEAN]
    BY <2>1, <2>6
  <2>. QED BY <1>7, <2>3, <2>4, <2>5 DEF A!decidePendingApproval
<1>8. CASE A!TrustReads
  BY <1>8 DEF A!TrustReads
<1>9. CASE A!TrustWrites
  <2>1. trusting' \in [host : Host \cup {None}, list : SUBSET Host, read : BOOLEAN]
    BY <1>9 DEF A!TrustWrites, A!NotTrusting
  <2>2. sites' \subseteq Host
    <3>1. trusting.list \subseteq Host /\ trusting.host # None /\ trusting.host \in Host \cup {None}
      BY <1>9 DEF A!TrustWrites
    <3>. QED BY <1>9, <3>1 DEF A!TrustWrites
  <2>. QED BY <1>9, <2>1, <2>2 DEF A!TrustWrites
<1>10. CASE A!saveSettings
  <2>1. sites' \subseteq Host
    BY <1>10 DEF A!saveSettings
  <2>. QED BY <1>10, <2>1 DEF A!saveSettings
<1>11. CASE A!WorkerRestarts
  <2>1. work' \in [Operation -> [at : A!Phase, kind : A!Kind, doc : A!Document, host : Host,
                                 trusted : BOOLEAN, granted : BOOLEAN]]
    <3>1. \A o \in Operation : work[o] \in [at : A!Phase, kind : A!Kind, doc : A!Document,
                                         host : Host, trusted : BOOLEAN, granted : BOOLEAN]
      OBVIOUS
    <3>2. \A o \in Operation : [work[o] EXCEPT !.at = "failed"] \in
            [at : A!Phase, kind : A!Kind, doc : A!Document, host : Host,
             trusted : BOOLEAN, granted : BOOLEAN]
      BY <3>1 DEF A!Phase
    <3>. QED BY <1>11, <3>1, <3>2 DEF A!WorkerRestarts
  <2>2. trusting' \in [host : Host \cup {None}, list : SUBSET Host, read : BOOLEAN]
    BY <1>11 DEF A!WorkerRestarts, A!NotTrusting
  <2>3. worker' \in 0..MaxRestarts
    BY <1>11 DEF A!WorkerRestarts, A!ApprovalsAssumption
  <2>. QED BY <1>11, <2>1, <2>2, <2>3 DEF A!WorkerRestarts
<1>. QED BY <1>1, <1>2, <1>3, <1>4, <1>5, <1>6, <1>7, <1>8, <1>9, <1>10, <1>11 DEF A!Next

LEMMA ApprovalNumbers ==
  ASSUME A!ApprovalsAssumption, A!TypeOK
  PROVE  /\ \A o \in Operation : /\ work[o].doc \in Int /\ page[o].doc \in Int /\ consent[o] \in Int
                                 /\ work[o].trusted \in BOOLEAN /\ work[o].granted \in BOOLEAN
         /\ worker \in Nat
         /\ \A i \in DOMAIN approvals :
              /\ approvals[i] \in A!Record /\ approvals[i].id \in Operation
              /\ approvals[i].worker \in Nat
<1>1. 0..MaxRestarts \subseteq Nat /\ A!Document \subseteq Int /\ -1 \in Int
  BY DEF A!ApprovalsAssumption, A!Document
<1>2. approvals \in Seq(A!Record)
  BY DEF A!TypeOK
<1>3. \A i \in DOMAIN approvals : approvals[i] \in A!Record
  BY <1>2, ElementOfSeq
<1>4. \A r \in A!Record : r.id \in Operation /\ r.worker \in Nat
  BY <1>1 DEF A!Record
<1>. QED BY <1>1, <1>3, <1>4 DEF A!TypeOK

LEMMA ApprovalNext ==
  ASSUME A!ApprovalsAssumption, ApprovalInv, A!Next
  PROVE  /\ \A i, j \in DOMAIN approvals' : approvals'[i].id = approvals'[j].id => i = j
         /\ \A i \in DOMAIN approvals' : RequestInv(approvals[i])'
         /\ \A o \in Operation : OperationInv(o)'
         /\ trusting'.read => trusting'.host # None
         /\ A!EffectIsApproved
<1> DEFINE Ids == \A i, j \in DOMAIN approvals' : approvals'[i].id = approvals'[j].id => i = j
           Requests == \A i \in DOMAIN approvals' : RequestInv(approvals[i])'
           Operations == \A o \in Operation : OperationInv(o)'
           Trusting == trusting'.read => trusting'.host # None
           Goal == Ids /\ Requests /\ Operations /\ Trusting /\ A!EffectIsApproved
<1>0. /\ A!TypeOK /\ (trusting.read => trusting.host # None)
      /\ \A i, j \in DOMAIN approvals : approvals[i].id = approvals[j].id => i = j
      /\ \A i \in DOMAIN approvals : RequestInv(approvals[i])
      /\ \A o \in Operation : OperationInv(o)
  BY DEF ApprovalInv
<1>t. /\ \A o \in Operation : /\ work[o].doc \in Int /\ page[o].doc \in Int /\ consent[o] \in Int
                              /\ work[o].trusted \in BOOLEAN /\ work[o].granted \in BOOLEAN
      /\ worker \in Nat
      /\ \A i \in DOMAIN approvals :
           /\ approvals[i] \in A!Record /\ approvals[i].id \in Operation
           /\ approvals[i].worker \in Nat
  BY <1>0, ApprovalNumbers
<1>w. work \in [Operation -> [at : A!Phase, kind : A!Kind, doc : A!Document, host : Host,
                              trusted : BOOLEAN, granted : BOOLEAN]]
  BY <1>0 DEF A!TypeOK
<1>1. ASSUME NEW o \in Operation, NEW kind \in A!Kind, A!Authorize(o, kind) PROVE Goal
  <2>1. /\ work[o].at = "idle" /\ UNCHANGED <<page, expired, approvals, worker, consent, sites, trusting>>
        /\ \A p \in Operation \ {o} : work'[p] = work[p]
        /\ work'[o].at \in {"recheck", "create"} /\ work'[o].doc = page[o].doc
        /\ ~work'[o].granted
        /\ work'[o].trusted => work'[o].kind = "upload"
        /\ work'[o].trusted <=> work'[o].at = "recheck"
    BY <1>1, <1>w DEF A!Authorize
  <2>2. \A i \in DOMAIN approvals : approvals[i].id # o
    BY <1>0, <2>1 DEF RequestInv
  <2>3. Ids /\ Trusting
    BY <1>0, <2>1
  <2>4. Requests
    BY <1>0, <1>t, <2>1, <2>2 DEF RequestInv, Granted, AnsweredSince, A!Actionable
  <2>5. Operations
    BY <1>0, <1>t, <2>1 DEF OperationInv, Granted, AnsweredSince
  <2>6. A!EffectIsApproved
    BY <2>1 DEF A!EffectIsApproved
  <2>. QED BY <2>3, <2>4, <2>5, <2>6
<1>2. ASSUME NEW o \in Operation, A!createPendingApproval(o) PROVE Goal
  <2>r. PICK r : r = [id |-> o, kind |-> work[o].kind, host |-> work[o].host,
                      status |-> "pending", worker |-> worker]
    OBVIOUS
  <2>1. /\ work[o].at = "create" /\ UNCHANGED <<page, expired, worker, consent, sites, trusting>>
        /\ \A p \in Operation \ {o} : work'[p] = work[p]
        /\ work'[o].kind = work[o].kind /\ work'[o].doc = work[o].doc
        /\ work'[o].trusted = work[o].trusted /\ work'[o].granted = work[o].granted
        /\ \/ work'[o].at = "failed" /\ approvals' = approvals
           \/ work'[o].at = "wait" /\ approvals' = A!Kept(Append(approvals, r))
    BY <1>2, <1>w, <2>r DEF A!createPendingApproval, A!Goes, A!Fails
  <2>2. \A i \in DOMAIN approvals : approvals[i].id # o
    BY <1>0, <2>1 DEF RequestInv
  <2>3. ~work[o].granted /\ ~work[o].trusted
    BY <1>0, <2>1 DEF OperationInv
  <2>4. r \in A!Record
    BY <1>0, <1>w, <2>r DEF A!TypeOK, A!Record, A!Status
  <2>5. r.id = o /\ r.status = "pending" /\ r.worker = worker
    BY <2>r
  <2>6. approvals \in Seq(A!Record)
    BY <1>0 DEF A!TypeOK
  <2>7. \E d \in Nat :
          /\ approvals' \in Seq(A!Record)
          /\ \A i \in DOMAIN approvals' :
               \/ i + d \in DOMAIN approvals /\ approvals'[i] = approvals[i + d]
               \/ i + d = Len(approvals) + 1 /\ approvals'[i] = r /\ work'[o].at = "wait"
    <3>1. CASE approvals' = approvals
      <4>1. \A i \in DOMAIN approvals' : i + 0 = i
        BY <3>1, <2>6
      <4>. QED BY <3>1, <2>6, <4>1
    <3>2. CASE work'[o].at = "wait" /\ approvals' = A!Kept(Append(approvals, r))
      BY <3>2, <2>4, <1>0, RequestedProperties
    <3>. QED BY <2>1, <3>1, <3>2
  <2>8. PICK d \in Nat :
          /\ approvals' \in Seq(A!Record)
          /\ \A i \in DOMAIN approvals' :
               \/ i + d \in DOMAIN approvals /\ approvals'[i] = approvals[i + d]
               \/ i + d = Len(approvals) + 1 /\ approvals'[i] = r /\ work'[o].at = "wait"
    BY <2>7
  <2>9. Ids
    <3>1. \A i \in DOMAIN approvals' : i \in Int
      BY <2>8
    <3>2. Len(approvals) \in Int
      BY <2>6
    <3>. QED BY <1>0, <2>2, <2>5, <2>8, <3>1, <3>2
  <2>12. Requests
    <3>1. \A i \in DOMAIN approvals : approvals[i].id \in Operation \ {o}
      BY <1>t, <2>2
    <3>2. ASSUME NEW i \in DOMAIN approvals' PROVE RequestInv(approvals[i])'
      <4>1. CASE i + d \in DOMAIN approvals /\ approvals'[i] = approvals[i + d]
        BY <1>0, <1>t, <2>1, <3>1, <4>1 DEF RequestInv, Granted, AnsweredSince, A!Actionable
      <4>2. CASE approvals'[i] = r /\ work'[o].at = "wait"
        BY <2>1, <2>3, <2>5, <1>t, <4>2 DEF RequestInv, Granted, A!Actionable
      <4>. QED BY <2>8, <4>1, <4>2
    <3>. QED BY <3>2
  <2>13. Operations
    BY <1>0, <1>t, <2>1, <2>3 DEF OperationInv, Granted, AnsweredSince
  <2>14. A!EffectIsApproved
    BY <2>1 DEF A!EffectIsApproved
  <2>. QED BY <1>0, <2>1, <2>9, <2>12, <2>13, <2>14
<1>3. ASSUME NEW o \in Operation, A!consumeApproval(o) PROVE Goal
  <2>1. /\ work[o].at = "wait"
        /\ UNCHANGED <<page, expired, approvals, worker, consent, sites, trusting>>
        /\ \A p \in Operation \ {o} : work'[p] = work[p]
        /\ work'[o].at = "settle" /\ work'[o].kind = work[o].kind /\ work'[o].doc = work[o].doc
        /\ work'[o].trusted = work[o].trusted
        /\ work'[o].granted => A!approvalMatches(o)
    BY <1>3, <1>w DEF A!consumeApproval
  <2>2. work'[o].granted => AnsweredSince(o) /\
          \A i \in DOMAIN approvals : approvals[i].id = o => approvals[i].status # "pending"
    BY <1>0, <2>1 DEF A!approvalMatches, RequestInv
  <2>3. Ids /\ Trusting
    BY <1>0, <2>1
  <2>4. Requests
    BY <1>0, <1>t, <2>1, <2>2 DEF RequestInv, Granted, AnsweredSince, A!Actionable
  <2>5. Operations
    BY <1>0, <1>t, <2>1, <2>2 DEF OperationInv, Granted, AnsweredSince
  <2>6. A!EffectIsApproved
    BY <2>1 DEF A!EffectIsApproved
  <2>. QED BY <2>3, <2>4, <2>5, <2>6
<1>4. ASSUME NEW o \in Operation, A!SettleApproval(o) PROVE Goal
  <2>1. /\ work[o].at = "settle"
        /\ UNCHANGED <<page, expired, worker, consent, sites, trusting>>
        /\ \A p \in Operation \ {o} : work'[p] = work[p]
        /\ work'[o].kind = work[o].kind /\ work'[o].doc = work[o].doc
        /\ work'[o].trusted = work[o].trusted /\ work'[o].granted = work[o].granted
        /\ work'[o].at = IF work[o].granted THEN "recheck" ELSE "failed"
    BY <1>4, <1>w DEF A!SettleApproval, A!Goes
  <2>2. PICK status \in {"expired", "cancelled"} : approvals' = A!Decided(o, status)
    BY <1>4 DEF A!SettleApproval
  <2>3. status \in A!Status /\ status \notin {"pending", "approved"}
    BY DEF A!Status
  <2>4. /\ DOMAIN approvals' = DOMAIN approvals
        /\ \A i \in DOMAIN approvals :
             /\ approvals[i] \in A!Record
             /\ approvals'[i] = IF approvals[i].id = o /\ approvals[i].status = "pending"
                                  THEN [approvals[i] EXCEPT !.status = status] ELSE approvals[i]
    BY <1>0, <2>2, <2>3, DecidedProperties
  <2>5. \A i \in DOMAIN approvals :
          /\ approvals'[i].id = approvals[i].id /\ approvals'[i].worker = approvals[i].worker
          /\ approvals'[i].status \in {approvals[i].status, status}
          /\ approvals[i].id = o => approvals'[i].status # "pending"
    BY <2>3, <2>4 DEF A!Record
  <2>6. Ids /\ Trusting
    BY <1>0, <2>1, <2>4, <2>5
  <2>7. Requests
    BY <1>0, <1>t, <2>1, <2>3, <2>4, <2>5 DEF RequestInv, Granted, AnsweredSince, A!Actionable
  <2>8. Operations
    BY <1>0, <1>t, <2>1 DEF OperationInv, Granted, AnsweredSince
  <2>9. A!EffectIsApproved
    BY <2>1 DEF A!EffectIsApproved
  <2>. QED BY <2>6, <2>7, <2>8, <2>9
<1>5. ASSUME NEW o \in Operation, A!Recheck(o) \/ A!Dispatch(o) \/ A!cdpAttach(o) PROVE Goal
  <2>1. /\ UNCHANGED <<page, expired, approvals, worker, consent, sites, trusting>>
        /\ \A p \in Operation \ {o} : work'[p] = work[p]
        /\ work'[o].kind = work[o].kind /\ work'[o].doc = work[o].doc
        /\ work'[o].trusted = work[o].trusted /\ work'[o].granted = work[o].granted
        /\ \/ /\ work[o].at = "recheck"
              /\ \/ work'[o].at = "ready" /\ page[o].doc = work[o].doc
                 \/ work'[o].at = "failed"
           \/ /\ work[o].at = "ready" /\ work'[o].at \in {"attach", "sent", "failed"}
              /\ work'[o].at \in {"attach", "sent"} =>
                   ~expired[o] /\ ~aborted[o] /\ (work[o].trusted => work[o].host \in sites)
              /\ work'[o].at = "sent" => A!Reached(o)
           \/ /\ work[o].at = "attach" /\ work'[o].at \in {"sent", "failed"}
              /\ work'[o].at = "sent" => A!Reached(o)
    <3>1. CASE A!Recheck(o)
      BY <3>1, <1>w DEF A!Recheck, A!Goes, A!Fails, A!SameDocument
    <3>2. CASE A!Dispatch(o)
      BY <3>2, <1>w DEF A!Dispatch, A!Goes, A!Fresh, A!StillTrusted
    <3>3. CASE A!cdpAttach(o)
      BY <3>3, <1>w DEF A!cdpAttach, A!Goes, A!Fails
    <3>. QED BY <1>5, <3>1, <3>2, <3>3
  <2>2. Ids /\ Trusting
    BY <1>0, <2>1
  <2>3. Requests
    BY <1>0, <1>t, <2>1 DEF RequestInv, Granted, AnsweredSince, A!Actionable
  <2>4. Operations
    BY <1>0, <1>t, <2>1 DEF OperationInv, Granted, AnsweredSince
  <2>5. A!EffectIsApproved
    <3>1. work[o].at \in {"ready", "attach"} => A!Consented(o)
      BY <1>0, <1>t DEF OperationInv, A!Consented
    <3>. QED BY <2>1, <3>1 DEF A!EffectIsApproved, A!Reached, A!SameDocument
  <2>. QED BY <2>2, <2>3, <2>4, <2>5
<1>6. ASSUME NEW o \in Operation, A!Navigates(o) \/ A!TimePasses(o) \/ A!Aborts(o) PROVE Goal
  <2>1. /\ UNCHANGED <<work, approvals, worker, consent, sites, trusting>>
        /\ \A p \in Operation : page'[p].doc \in {page[p].doc, page[p].doc + 1}
        /\ \A p \in Operation : expired[p] => expired'[p]
    <3>1. UNCHANGED <<work, approvals, worker, consent, sites, trusting>>
      BY <1>6 DEF A!Navigates, A!TimePasses, A!Aborts
    <3>2. CASE A!Navigates(o)
      BY <1>0, <3>1, <3>2 DEF A!Navigates, A!TypeOK
    <3>3. CASE A!TimePasses(o)
      BY <1>0, <3>1, <3>3 DEF A!TimePasses, A!TypeOK
    <3>4. CASE A!Aborts(o)
      BY <1>0, <3>1, <3>4 DEF A!Aborts, A!TypeOK
    <3>. QED BY <1>6, <3>2, <3>3, <3>4
  <2>2. \A p \in Operation : AnsweredSince(p) => AnsweredSince(p)'
    BY <1>t, <2>1 DEF AnsweredSince
  <2>3. Ids /\ Trusting
    BY <1>0, <2>1
  <2>4. Requests
    BY <1>0, <1>t, <2>1, <2>2 DEF RequestInv, Granted, A!Actionable
  <2>5. Operations
    BY <1>0, <1>t, <2>1, <2>2 DEF OperationInv, Granted
  <2>6. A!EffectIsApproved
    BY <2>1 DEF A!EffectIsApproved
  <2>. QED BY <2>3, <2>4, <2>5, <2>6
<1>7. ASSUME A!decidePendingApproval PROVE Goal
  <2>1. PICK i \in DOMAIN approvals, status \in {"denied", "approved"} :
          /\ A!Actionable(approvals[i])
          /\ approvals' = A!Decided(approvals[i].id, status)
          /\ consent' = IF status = "denied" THEN consent
                        ELSE [consent EXCEPT ![approvals[i].id] = page[approvals[i].id].doc]
    BY <1>7 DEF A!decidePendingApproval
  <2>o. PICK o : o = approvals[i].id
    OBVIOUS
  <2>2. o \in Operation /\ approvals[i].status = "pending" /\ RequestInv(approvals[i])
    BY <1>0, <1>t, <2>1, <2>o DEF A!Actionable
  <2>3. UNCHANGED <<work, page, expired, worker>> /\ Trusting
    <3>1. trusting.host = None /\ ~trusting.read /\ UNCHANGED <<work, page, expired, worker>>
      BY <1>0, <1>7 DEF A!decidePendingApproval, A!TypeOK
    <3>2. trusting'.read = trusting.read
      BY <1>0, <1>7 DEF A!decidePendingApproval, A!TypeOK
    <3>. QED BY <3>1, <3>2
  <2>4. status \in A!Status /\ status # "pending"
    BY DEF A!Status
  <2>5. /\ DOMAIN approvals' = DOMAIN approvals
        /\ \A j \in DOMAIN approvals :
             /\ approvals[j] \in A!Record
             /\ approvals'[j] = IF approvals[j].id = o /\ approvals[j].status = "pending"
                                  THEN [approvals[j] EXCEPT !.status = status] ELSE approvals[j]
    BY <1>0, <2>1, <2>o, <2>2, <2>4, DecidedProperties
  <2>6. \A j \in DOMAIN approvals :
          /\ approvals'[j].id = approvals[j].id /\ approvals'[j].worker = approvals[j].worker
          /\ approvals[j].id # o => approvals'[j].status = approvals[j].status
          /\ approvals[j].id = o => approvals'[j].status = status
    BY <1>0, <2>1, <2>o, <2>2, <2>5 DEF A!Record
  <2>7. /\ \A p \in Operation \ {o} : consent'[p] = consent[p]
        /\ status = "approved" => consent'[o] = page[o].doc
        /\ status = "denied" => consent' = consent
    BY <1>0, <2>1, <2>o, <2>2 DEF A!TypeOK
  <2>8. ~Granted(o) /\ work[o].at # "idle" /\ ~work[o].trusted
    BY <2>2, <2>o DEF RequestInv
  <2>9. \A p \in Operation : Granted(p) => consent'[p] = consent[p]
    BY <2>7, <2>8
  <2>10. Ids
    BY <1>0, <2>5, <2>6
  <2>11. ASSUME NEW j \in DOMAIN approvals PROVE RequestInv(approvals[j])'
    <3>1. CASE approvals[j].id = o
      <4>1. work[o].doc <= page[o].doc
        BY <1>0, <2>2, <2>8 DEF OperationInv
      <4>3. status = "approved" => AnsweredSince(o)'
        BY <1>t, <2>2, <2>3, <2>7, <4>1 DEF AnsweredSince
      <4>4. RequestInv(approvals[j])
        BY <1>0
      <4>. QED BY <1>t, <2>3, <2>4, <2>6, <3>1, <4>3, <4>4 DEF RequestInv, Granted, A!Actionable
    <3>2. CASE approvals[j].id # o
      <4>1. consent'[approvals[j].id] = consent[approvals[j].id]
        BY <1>t, <2>7, <3>2
      <4>2. RequestInv(approvals[j])
        BY <1>0
      <4>. QED BY <2>3, <2>6, <3>2, <4>1, <4>2 DEF RequestInv, Granted, AnsweredSince, A!Actionable
    <3>. QED BY <3>1, <3>2
  <2>12. Requests
    BY <2>5, <2>11
  <2>13. Operations
    BY <1>0, <2>3, <2>9 DEF OperationInv, Granted, AnsweredSince
  <2>14. A!EffectIsApproved
    BY <2>3 DEF A!EffectIsApproved
  <2>. QED BY <2>3, <2>10, <2>12, <2>13, <2>14
<1>8. ASSUME A!TrustReads \/ A!TrustWrites \/ A!saveSettings PROVE Goal
  <2>1. UNCHANGED <<work, page, expired, approvals, worker, consent>> /\ Trusting
    <3>1. UNCHANGED <<work, page, expired, approvals, worker, consent>>
      BY <1>8 DEF A!TrustReads, A!TrustWrites, A!saveSettings
    <3>2. CASE A!TrustReads
      BY <1>0, <3>1, <3>2 DEF A!TrustReads, A!TypeOK
    <3>3. CASE A!TrustWrites
      BY <3>1, <3>3 DEF A!TrustWrites, A!NotTrusting
    <3>4. CASE A!saveSettings
      BY <1>0, <3>1, <3>4 DEF A!saveSettings
    <3>. QED BY <1>8, <3>2, <3>3, <3>4
  <2>2. Ids /\ Requests
    BY <1>0, <2>1 DEF RequestInv, Granted, AnsweredSince, A!Actionable
  <2>3. Operations
    BY <1>0, <2>1 DEF OperationInv, Granted, AnsweredSince
  <2>4. A!EffectIsApproved
    BY <2>1 DEF A!EffectIsApproved
  <2>. QED BY <2>1, <2>2, <2>3, <2>4
<1>9. ASSUME A!WorkerRestarts PROVE Goal
  <2>1. /\ UNCHANGED <<page, expired, approvals, consent, sites>> /\ worker' = worker + 1 /\ Trusting
        /\ \A o \in Operation :
             /\ work'[o].kind = work[o].kind /\ work'[o].doc = work[o].doc
             /\ work'[o].trusted = work[o].trusted /\ work'[o].granted = work[o].granted
             /\ work'[o].at = IF work[o].at \in {"idle", "sent"} THEN work[o].at ELSE "failed"
    BY <1>9, <1>w DEF A!WorkerRestarts, A!NotTrusting
  <2>2. Ids
    BY <1>0, <2>1
  <2>3. Requests
    BY <1>0, <1>t, <2>1 DEF RequestInv, Granted, AnsweredSince, A!Actionable
  <2>4. Operations
    BY <1>0, <1>t, <2>1 DEF OperationInv, Granted, AnsweredSince
  <2>5. A!EffectIsApproved
    BY <2>1 DEF A!EffectIsApproved
  <2>. QED BY <2>1, <2>2, <2>3, <2>4, <2>5
<1>. HIDE DEF Ids, Requests, Operations, Trusting, Goal
<1>10. Goal
  <2>1. ASSUME NEW o \in Operation,
               \/ \E kind \in A!Kind : A!Authorize(o, kind)
               \/ A!createPendingApproval(o) \/ A!consumeApproval(o) \/ A!SettleApproval(o)
               \/ A!Recheck(o) \/ A!Dispatch(o) \/ A!cdpAttach(o)
               \/ A!Navigates(o) \/ A!TimePasses(o) \/ A!Aborts(o)
        PROVE  Goal
    BY <2>1, <1>1, <1>2, <1>3, <1>4, <1>5, <1>6
  <2>. QED BY <2>1, <1>7, <1>8, <1>9 DEF A!Next
<1>. QED BY <1>10 DEF Goal, Ids, Requests, Operations, Trusting

LEMMA ApprovalStep ==
  ASSUME A!ApprovalsAssumption, ApprovalInv, [A!Next]_(A!vars)
  PROVE  ApprovalInv' /\ A!EffectIsApproved
<1>1. CASE A!Next
  <2>1. A!TypeOK'
    BY <1>1, ApprovalTypes DEF ApprovalInv
  <2>. QED BY <1>1, <2>1, ApprovalNext DEF ApprovalInv
<1>2. CASE UNCHANGED A!vars
  <2>1. ApprovalInv'
    BY <1>2 DEF A!vars, ApprovalInv, A!TypeOK, RequestInv, OperationInv, Granted, AnsweredSince,
                A!Actionable
  <2>. QED BY <1>2, <2>1 DEF A!vars, A!EffectIsApproved
<1>. QED BY <1>1, <1>2

(* An operation passes its last check in time and not cancelled, and what    *)
(* reaches a tab, at once or after the debugger was attached, is an upload   *)
(* into the very document to a host the user trusts, or was approved by the  *)
(* user on the very document it was asked for, however navigations,          *)
(* deadlines, denials, restarts and the history limit come between           *)
(* (background.js, security.js; README.md, "Safety").  That a raw command    *)
(* meets that document after the wait for the debugger is not claimed: run   *)
(* approvals shows it may not.                                               *)
THEOREM EffectsAreApproved == Spec => EffectNeedsApproval
<1> DEFINE Inv == part = "approvals" => ApprovalInv
           Approved == part = "approvals" => A!EffectIsApproved
<1>1. Init => Inv
  BY ApprovalInit, ComponentsAssumption DEF Init
<1>2. Inv /\ [Next]_vars => Inv' /\ [Approved]_vars
  <2>1. SUFFICES ASSUME Inv, [Next]_vars PROVE Inv' /\ Approved
    OBVIOUS
  <2>2. part' = part
    BY <2>1 DEF Next, vars
  <2>3. CASE part = "approvals"
    <3>1. [A!Next]_(A!vars)
      BY <2>1, <2>3 DEF Next, vars, approvalVars, A!vars
    <3>. QED BY <2>1, <2>3, <3>1, ApprovalStep, ComponentsAssumption
  <2>. QED BY <2>2, <2>3
<1>. QED BY <1>1, <1>2, PTL DEF Spec, EffectNeedsApproval

(* What the popup lets the user answer, an operation still waits for.        *)
THEOREM AnswersAreWaitedFor == Spec => []ActionableHasWaiter
<1> DEFINE Inv == part = "approvals" => ApprovalInv
<1>1. Init => Inv
  BY ApprovalInit, ComponentsAssumption DEF Init
<1>2. Inv /\ [Next]_vars => Inv'
  <2>1. SUFFICES ASSUME Inv, [Next]_vars, part' = "approvals" PROVE ApprovalInv'
    OBVIOUS
  <2>2. part = "approvals" /\ [A!Next]_(A!vars)
    BY <2>1 DEF Next, vars, approvalVars, A!vars
  <2>. QED BY <2>1, <2>2, ApprovalStep, ComponentsAssumption
<1>3. Inv => ActionableHasWaiter
  BY DEF ActionableHasWaiter, A!ActionableHasWaiter, ApprovalInv, RequestInv
<1>. QED BY <1>1, <1>2, <1>3, PTL DEF Spec

-----------------------------------------------------------------------------
(* A tab of the user has no ownership record, and what the command and the   *)
(* listener are about to own is not of the user.  So a command that began    *)
(* while the user was incognito too sees the user's tab in its inventory,    *)
(* where it is not the session's own, unless the tab is gone; and the taint  *)
(* that follows stays with what the command itself knows of the lease,       *)
(* whatever becomes of the stored one.                                       *)

QaInv ==
  /\ Q!TypeOK
  /\ \A t \in Q!Tab : tabs[t].by \in {"user", "nobody"} => tabs[t].owner = NoSession
  /\ qaCommand.tab # 0 => tabs[qaCommand.tab].by \in {"command", "gone"}
  /\ listener.tab # 0 => tabs[listener.tab].by \in {"page", "gone"}
  /\ qaCommand.step # "idle" => qaCommand.session \in Session
  /\ qaCommand.step \in {"windows", "ownership", "mark"} => lease[qaCommand.session].status # "none"
  /\ guests \subseteq Q!Users
  /\ guests # {} =>
       /\ qaCommand.after = "use"
       /\ qaCommand.step \in {"states", "windows", "ownership", "mark", "next"}
       /\ qaCommand.step = "ownership" => guests \subseteq qaCommand.seen
       /\ qaCommand.step = "next" => qaCommand.state.status = "tainted"

TabRecord ==
  [window : Q!Window \cup {Q!NoWindow}, by : {"nobody", "command", "page", "user", "gone"},
   owner : Q!Sessions]
Lease == [status : Q!Status, window : Q!Window \cup {Q!NoWindow}]
Command ==
  [session : Q!Sessions, step : Q!Steps, after : Q!After, state : Lease, seen : SUBSET Q!Tab,
   owned : SUBSET Q!Tab, tab : Q!Tab \cup {0}, window : Q!Window \cup {Q!NoWindow}, bad : BOOLEAN]
Listener == [tab : Q!Tab \cup {0}, step : {"idle", "remember", "store", "validate"}]

LEMMA QaTypeForm ==
  Q!TypeOK <=>
    /\ tabs \in [Q!Tab -> TabRecord] /\ lease \in [Session -> Lease]
    /\ leaseOver \in [Session -> BOOLEAN] /\ policy \in [Session -> BOOLEAN]
    /\ qaCommand \in Command /\ listener \in Listener /\ guests \subseteq Q!Tab
BY DEF Q!TypeOK, TabRecord, Lease, Command, Listener

LEMMA QaConstants ==
  /\ Q!Idle \in Command /\ Q!Idle.step = "idle" /\ Q!Idle.tab = 0 /\ Q!Idle.after = "use"
  /\ Q!Quiet \in Listener /\ Q!Quiet.tab = 0 /\ Q!Quiet.step = "idle"
  /\ Q!Unused \in TabRecord /\ Q!NoLease \in Lease
  /\ Q!Unused.owner = NoSession /\ Q!Unused.window = Q!NoWindow
BY DEF Q!Idle, Q!Quiet, Q!Unused, Q!NoLease, Command, Listener, TabRecord, Lease, Q!Sessions, Q!Status,
       Q!Steps, Q!After

LEMMA QaInit == Q!CleanQaAssumption /\ Q!Init => QaInv
<1>. SUFFICES ASSUME Q!CleanQaAssumption, Q!Init PROVE QaInv
  OBVIOUS
<1>1. Q!TypeOK
  BY QaTypeForm, QaConstants DEF Q!Init
<1>. QED BY <1>1, QaConstants DEF QaInv, Q!Init, Q!Unused

-----------------------------------------------------------------------------
(* What the parts of an action keep of the types.                            *)

LEMMA CloseTypes ==
  ASSUME Q!TypeOK, NEW shut, Q!Close(shut)
  PROVE  /\ tabs' \in [Q!Tab -> TabRecord]
         /\ \A t \in Q!Tab :
              IF t \in shut
              THEN tabs'[t].by = "gone" /\ tabs'[t].owner = NoSession /\ tabs'[t].window = Q!NoWindow
              ELSE tabs'[t] = tabs[t]
<1>1. [Q!Unused EXCEPT !.by = "gone"] \in TabRecord
  BY QaConstants DEF TabRecord
<1>. QED BY <1>1, QaTypeForm DEF Q!Close, Q!Unused

LEMMA OpensTypes ==
  ASSUME Q!TypeOK, NEW t \in Q!Tab, NEW w \in Q!Window,
         NEW by \in {"command", "page", "user"}, Q!Opens(t, w, by)
  PROVE  /\ tabs' \in [Q!Tab -> TabRecord]
         /\ tabs'[t] = [window |-> w, by |-> by, owner |-> NoSession]
         /\ \A u \in Q!Tab \ {t} : tabs'[u] = tabs[u]
<1>1. [window |-> w, by |-> by, owner |-> NoSession] \in TabRecord
  BY DEF TabRecord, Q!Sessions
<1>. QED BY <1>1, QaTypeForm DEF Q!Opens

LEMMA WindowsTypes ==
  ASSUME Q!TypeOK
  PROVE  /\ Q!Open \subseteq Q!Tab /\ Q!Windows \subseteq Q!Window /\ Q!Fresh \subseteq Q!Tab
         /\ Q!FreshWindow \subseteq Q!Window
         /\ \A t \in Q!Fresh : tabs[t].by = "nobody"
<1>1. \A t \in Q!Tab : tabs[t].window \in Q!Window \cup {Q!NoWindow}
  BY QaTypeForm DEF TabRecord
<1>. QED BY <1>1 DEF Q!Open, Q!Windows, Q!Fresh, Q!FreshWindow, Q!FreeWindow, Q!New

LEMMA WritesTypes ==
  ASSUME Q!TypeOK, NEW new \in [Session -> Lease], Q!Writes(new)
  PROVE  /\ lease' \in {new, lease} /\ lease' \in [Session -> Lease]
         /\ listener' \in Listener /\ listener'.tab = listener.tab
<1>1. [listener EXCEPT !.step = "validate"] \in Listener /\ listener \in Listener
  BY QaTypeForm DEF Listener
<1>2. [listener EXCEPT !.step = "validate"].tab = listener.tab
  BY QaTypeForm DEF Listener
<1>. QED BY <1>1, <1>2, QaTypeForm DEF Q!Writes

LEMMA MarkedTypes ==
  ASSUME Q!TypeOK, NEW s \in Session
  PROVE  /\ Q!Marked(s) \in [Session -> Lease]
         /\ \A r \in Session : Q!Marked(s)[r].status = "none" <=> lease[r].status = "none"
         /\ lease[s].status # "none" => Q!Marked(s)[s].status = "tainted"
<1>1. lease \in [Session -> Lease] /\ \A l \in Lease : /\ [l EXCEPT !.status = "tainted"] \in Lease
                                                      /\ [l EXCEPT !.status = "tainted"].status = "tainted"
  BY QaTypeForm DEF Lease, Q!Status
<1>. QED BY <1>1 DEF Q!Marked

LEMMA CommandTypes ==
  ASSUME NEW c \in Command, NEW step \in Q!Steps
  PROVE  /\ [c EXCEPT !.step = step] \in Command
         /\ [c EXCEPT !.step = step].step = step
         /\ [c EXCEPT !.step = step].session = c.session
         /\ [c EXCEPT !.step = step].after = c.after
         /\ [c EXCEPT !.step = step].tab = c.tab
         /\ [c EXCEPT !.step = step].seen = c.seen
         /\ [c EXCEPT !.step = step].state = c.state
BY DEF Command

(* A step that opens and closes no tab.                                      *)
LEMMA TabsStay ==
  ASSUME QaInv, UNCHANGED tabs, guests' \in {guests, {}},
         qaCommand' \in Command, lease' \in [Session -> Lease], listener' \in Listener,
         leaseOver' \in [Session -> BOOLEAN], policy' \in [Session -> BOOLEAN],
         qaCommand'.tab \in {qaCommand.tab, 0}, listener'.tab \in {listener.tab, 0},
         qaCommand'.step # "idle" => qaCommand'.session \in Session,
         qaCommand'.step \in {"windows", "ownership", "mark"} =>
           lease'[qaCommand'.session].status # "none",
         guests' # {} =>
           /\ qaCommand'.after = "use"
           /\ qaCommand'.step \in {"states", "windows", "ownership", "mark", "next"}
           /\ qaCommand'.step = "ownership" => guests' \subseteq qaCommand'.seen
           /\ qaCommand'.step = "next" => qaCommand'.state.status = "tainted"
  PROVE  QaInv'
<1>1. Q!TypeOK'
  <2>1. tabs' \in [Q!Tab -> TabRecord] /\ guests' \subseteq Q!Tab
    BY QaTypeForm DEF QaInv
  <2>. QED BY <2>1 DEF Q!TypeOK, TabRecord, Lease, Command, Listener
<1>. QED BY <1>1 DEF QaInv, Q!Users, Q!Open

(* The steps of a command that leave its tab alone.                          *)
LEMMA QaCommandSteps ==
  ASSUME Q!CleanQaAssumption, QaInv,
         \/ \E s \in Session : Q!Begin(s) \/ Q!LeaseExpires(s)
         \/ Q!prepareCleanQa \/ Q!ReadStates \/ Q!ReadWindows \/ Q!ReadOwnership
         \/ Q!markCleanQaTainted \/ Q!Use \/ Q!Refuse \/ Q!Activate \/ Q!Opened
         \/ Q!Inventory \/ Q!Forget \/ Q!ListenerStore \/ Q!ListenerValidate \/ Q!WorkerRestarts
  PROVE  QaInv'
<1>t. /\ tabs \in [Q!Tab -> TabRecord] /\ lease \in [Session -> Lease]
      /\ leaseOver \in [Session -> BOOLEAN] /\ policy \in [Session -> BOOLEAN]
      /\ qaCommand \in Command /\ listener \in Listener /\ guests \subseteq Q!Tab /\ Q!TypeOK
  BY QaTypeForm DEF QaInv
<1>c. Q!Idle \in Command /\ Q!Idle.step = "idle" /\ Q!Idle.tab = 0 /\ Q!Quiet \in Listener
      /\ Q!Quiet.tab = 0 /\ Q!NoLease \in Lease
  BY QaConstants
<1>1. ASSUME NEW s \in Session, Q!Begin(s) PROVE QaInv'
  <2>1. qaCommand' \in Command /\ qaCommand'.tab = 0 /\ qaCommand'.session = s
        /\ qaCommand'.step \in {"prepare", "states"}
    <3>1. Q!OwnedBy(s) \subseteq Q!Tab
      BY DEF Q!OwnedBy
    <3>2. CASE qaCommand' = [Q!Idle EXCEPT !.session = s, !.step = "prepare"]
      BY <3>2, <1>c DEF Q!Idle, Command, Q!Sessions, Q!Steps
    <3>3. ASSUME NEW after \in {"open", "use", "release"},
                 qaCommand' = [Q!Idle EXCEPT !.session = s, !.step = "states", !.after = after,
                                 !.owned = IF after = "release" THEN Q!OwnedBy(s) ELSE {}]
          PROVE  /\ qaCommand' \in Command /\ qaCommand'.tab = 0 /\ qaCommand'.session = s
                 /\ qaCommand'.step \in {"prepare", "states"}
      <4>1. PICK owned \in SUBSET Q!Tab :
              qaCommand' = [Q!Idle EXCEPT !.session = s, !.step = "states", !.after = after,
                                          !.owned = owned]
        BY <3>1, <3>3
      <4>. QED BY <4>1, <1>c DEF Q!Idle, Command, Q!Sessions, Q!Steps, Q!After
    <3>. QED BY <1>1, <3>2, <3>3 DEF Q!Begin
  <2>2. /\ UNCHANGED <<tabs, lease, leaseOver, policy, listener>>
        /\ guests' = IF qaCommand'.after = "use" /\ qaCommand'.step = "states" THEN Q!Users ELSE {}
    BY <1>1 DEF Q!Begin
  <2>3. Q!TypeOK'
    <3>1. guests' \subseteq Q!Tab
      BY <2>2 DEF Q!Users, Q!Open
    <3>. QED BY <1>t, <2>1, <2>2, <3>1 DEF Q!TypeOK, TabRecord, Lease, Command, Listener
  <2>. QED BY <2>1, <2>2, <2>3 DEF QaInv, Q!Users, Q!Open
<1>2. ASSUME NEW s \in Session, Q!LeaseExpires(s) PROVE QaInv'
  <2>1. UNCHANGED <<tabs, lease, policy, qaCommand, listener, guests>>
        /\ leaseOver' \in [Session -> BOOLEAN]
    BY <1>t, <1>2 DEF Q!LeaseExpires
  <2>. QED BY <1>t, <2>1, TabsStay DEF QaInv
<1>3. ASSUME Q!prepareCleanQa PROVE QaInv'
  <2> DEFINE s == qaCommand.session
             kept == [r \in Session |-> IF r # s /\ leaseOver[r] /\ lease[r].window \notin Q!Windows
                                          THEN Q!NoLease ELSE lease[r]]
             taken == [kept EXCEPT ![s] = [status |-> "ready", window |-> Q!NoWindow]]
  <2>1. kept \in [Session -> Lease]
    BY <1>t, <1>c
  <2>2. taken \in [Session -> Lease]
    BY <2>1 DEF Lease, Q!Status
  <2>3. /\ Q!Writes(kept) \/ Q!Writes(taken)
        /\ qaCommand.step = "prepare" /\ qaCommand' = Q!Idle /\ UNCHANGED <<tabs, guests>>
    BY <1>3 DEF Q!prepareCleanQa, Q!Ends
  <2>4. leaseOver' \in [Session -> BOOLEAN] /\ policy' \in [Session -> BOOLEAN]
    <3>1. [policy EXCEPT ![s] = TRUE] \in [Session -> BOOLEAN]
          /\ [leaseOver EXCEPT ![s] = FALSE] \in [Session -> BOOLEAN]
      BY <1>t
    <3>2. leaseOver' \in {leaseOver, [leaseOver EXCEPT ![s] = FALSE]}
          /\ policy' \in {policy, [policy EXCEPT ![s] = TRUE]}
      BY <1>3 DEF Q!prepareCleanQa
    <3>. QED BY <1>t, <3>1, <3>2
  <2> HIDE DEF kept, taken
  <2>5. lease' \in [Session -> Lease] /\ listener' \in Listener /\ listener'.tab = listener.tab
    BY <1>t, <2>1, <2>2, <2>3, WritesTypes
  <2>6. guests = {}
    BY <2>3 DEF QaInv
  <2>. QED BY <1>c, <2>3, <2>4, <2>5, <2>6, TabsStay
<1>4. ASSUME Q!ReadStates PROVE QaInv'
  <2> DEFINE s == qaCommand.session
  <2>1. s \in Session /\ qaCommand.step = "states" /\ UNCHANGED <<tabs, policy, guests>>
    BY <1>4 DEF Q!ReadStates, QaInv
  <2>2. leaseOver' \in [Session -> BOOLEAN]
    BY <1>t, <1>4 DEF Q!ReadStates
  <2>3. CASE lease[s].status = "none"
    <3>1. [lease EXCEPT ![s] = [status |-> "tainted", window |-> Q!NoWindow]] \in [Session -> Lease]
      BY <1>t DEF Lease, Q!Status
    <3>2. Q!Writes([lease EXCEPT ![s] = [status |-> "tainted", window |-> Q!NoWindow]])
      BY <1>4, <2>3 DEF Q!ReadStates
    <3>3. lease' \in [Session -> Lease] /\ listener' \in Listener /\ listener'.tab = listener.tab
      BY <1>t, <3>1, <3>2, WritesTypes
    <3>4. PICK state \in Lease : /\ state.status = "tainted"
                                 /\ qaCommand' = [qaCommand EXCEPT !.step = "next", !.state = state]
      <4>1. [status |-> "tainted", window |-> lease[s].window] \in Lease
        BY <1>t, <2>1 DEF Lease, Q!Status
      <4>2. [status |-> "tainted", window |-> lease[s].window].status = "tainted"
        OBVIOUS
      <4>. QED BY <1>4, <2>3, <4>1, <4>2 DEF Q!ReadStates
    <3>5. /\ qaCommand' \in Command /\ qaCommand'.step = "next" /\ qaCommand'.session = s
          /\ qaCommand'.after = qaCommand.after /\ qaCommand'.tab = qaCommand.tab
          /\ qaCommand'.state.status = "tainted"
      BY <1>t, <3>4 DEF Command, Q!Steps
    <3>6. guests # {} => qaCommand.after = "use"
      BY DEF QaInv
    <3>. QED BY <1>t, <2>1, <2>2, <3>3, <3>5, <3>6, TabsStay
  <2>4. CASE lease[s].status # "none"
    <3>1. UNCHANGED lease /\ listener' \in Listener /\ listener'.tab = listener.tab
      <4>1. Q!Writes(lease)
        BY <1>4, <2>4 DEF Q!ReadStates
      <4>2. UNCHANGED lease
        BY <4>1 DEF Q!Writes
      <4>. QED BY <1>t, <4>1, <4>2, WritesTypes
    <3>2. PICK state \in Lease : qaCommand' = [qaCommand EXCEPT !.step = "windows", !.state = state]
      <4>1. [status |-> lease[s].status, window |-> lease[s].window] \in Lease
        BY <1>t, <2>1 DEF Lease
      <4>2. qaCommand' =
              [qaCommand EXCEPT !.step = IF lease[s].status = "none" THEN "next" ELSE "windows",
                 !.state = [status |-> IF lease[s].status = "none" THEN "tainted" ELSE lease[s].status,
                            window |-> lease[s].window]]
        BY <1>4 DEF Q!ReadStates
      <4>. QED BY <2>4, <4>1, <4>2
    <3>3. /\ qaCommand' \in Command /\ qaCommand'.step = "windows" /\ qaCommand'.session = s
          /\ qaCommand'.after = qaCommand.after /\ qaCommand'.tab = qaCommand.tab
      BY <1>t, <3>2 DEF Command, Q!Steps
    <3>4. guests # {} => qaCommand.after = "use"
      BY DEF QaInv
    <3>. QED BY <1>t, <2>1, <2>2, <2>4, <3>1, <3>3, <3>4, TabsStay
  <2>. QED BY <2>3, <2>4
<1>5. ASSUME Q!ReadWindows PROVE QaInv'
  <2>1. /\ qaCommand.step = "windows" /\ UNCHANGED <<tabs, lease, leaseOver, policy, listener, guests>>
        /\ guests # {} => qaCommand.after = "use"
        /\ qaCommand.session \in Session /\ lease[qaCommand.session].status # "none"
        /\ guests \subseteq Q!Open
    BY <1>5 DEF Q!ReadWindows, QaInv, Q!Users
  <2>2. PICK seen \in SUBSET Q!Tab, step \in {"ownership", "mark", "next"} :
          /\ qaCommand' = [qaCommand EXCEPT !.seen = seen, !.step = step]
          /\ step = "ownership" => seen = Q!Open
          /\ step = "next" => Q!Open = {}
    <3>1. Q!Open \subseteq Q!Tab
      BY DEF Q!Open
    <3>. QED BY <1>5, <3>1 DEF Q!ReadWindows
  <2>3. /\ qaCommand' \in Command /\ qaCommand'.step = step /\ qaCommand'.session = qaCommand.session
        /\ qaCommand'.after = qaCommand.after /\ qaCommand'.tab = qaCommand.tab /\ qaCommand'.seen = seen
    BY <1>t, <2>2 DEF Command, Q!Steps
  <2>. QED BY <1>t, <2>1, <2>2, <2>3, TabsStay
<1>6. ASSUME Q!ReadOwnership PROVE QaInv'
  <2> DEFINE own == {t \in qaCommand.seen : tabs[t].window = qaCommand.state.window}
             clean == own # {} /\ own = qaCommand.seen /\ \A t \in own : tabs[t].owner = qaCommand.session
  <2>1. /\ qaCommand.step = "ownership" /\ UNCHANGED <<tabs, lease, leaseOver, policy, listener, guests>>
        /\ qaCommand' = [qaCommand EXCEPT !.seen = {}, !.step = IF clean THEN "next" ELSE "mark"]
    BY <1>6 DEF Q!ReadOwnership
  <2>2. /\ guests # {} => qaCommand.after = "use" /\ guests \subseteq qaCommand.seen
        /\ qaCommand.session \in Session /\ lease[qaCommand.session].status # "none"
        /\ \A t \in guests : t \in Q!Tab /\ tabs[t].owner = NoSession
    BY <2>1 DEF QaInv, Q!Users, Q!Open
  <2>3. clean => guests = {}
    BY <2>2 DEF Q!CleanQaAssumption
  <2>4. PICK step \in {"mark", "next"} : /\ qaCommand' = [qaCommand EXCEPT !.seen = {}, !.step = step]
                                         /\ step = "next" => guests = {}
    BY <2>1, <2>3
  <2>5. /\ qaCommand' \in Command /\ qaCommand'.step = step /\ qaCommand'.session = qaCommand.session
        /\ qaCommand'.after = qaCommand.after /\ qaCommand'.tab = qaCommand.tab
    BY <1>t, <2>4 DEF Command, Q!Steps
  <2>. QED BY <1>t, <2>1, <2>2, <2>4, <2>5, TabsStay
<1>7. ASSUME Q!markCleanQaTainted PROVE QaInv'
  <2>1. /\ qaCommand.step = "mark" /\ UNCHANGED <<tabs, leaseOver, policy, guests>>
        /\ qaCommand' = [qaCommand EXCEPT !.step = "next",
                                          !.state = Q!Marked(qaCommand.session)[qaCommand.session]]
        /\ Q!Writes(Q!Marked(qaCommand.session))
    BY <1>7 DEF Q!markCleanQaTainted
  <2>2. /\ guests # {} => qaCommand.after = "use"
        /\ qaCommand.session \in Session /\ lease[qaCommand.session].status # "none"
    BY <2>1 DEF QaInv
  <2>3. /\ Q!Marked(qaCommand.session) \in [Session -> Lease]
        /\ Q!Marked(qaCommand.session)[qaCommand.session].status = "tainted"
    BY <1>t, <2>2, MarkedTypes
  <2>4. lease' \in [Session -> Lease] /\ listener' \in Listener /\ listener'.tab = listener.tab
    BY <1>t, <2>1, <2>3, WritesTypes
  <2>5. PICK state \in Lease : /\ state.status = "tainted"
                               /\ qaCommand' = [qaCommand EXCEPT !.step = "next", !.state = state]
    BY <2>1, <2>2, <2>3
  <2>6. /\ qaCommand' \in Command /\ qaCommand'.step = "next" /\ qaCommand'.session = qaCommand.session
        /\ qaCommand'.after = qaCommand.after /\ qaCommand'.tab = qaCommand.tab
        /\ qaCommand'.state.status = "tainted"
    BY <1>t, <2>5 DEF Command, Q!Steps
  <2>. QED BY <1>t, <2>1, <2>2, <2>4, <2>6, TabsStay
<1>8. ASSUME Q!Use \/ Q!Refuse PROVE QaInv'
  <2>1. /\ UNCHANGED <<tabs, lease, leaseOver, policy, listener>> /\ qaCommand' = Q!Idle
        /\ guests' = {}
    BY <1>8 DEF Q!Use, Q!Refuse, Q!Ends, Q!Validated, QaInv
  <2>. QED BY <1>t, <1>c, <2>1, TabsStay
<1>9. ASSUME Q!Activate PROVE QaInv'
  <2>1. /\ qaCommand.step = "activate" /\ UNCHANGED <<tabs, leaseOver, policy, guests>>
        /\ qaCommand' = [qaCommand EXCEPT !.step = "states", !.after = "opened"]
        /\ Q!Writes([lease EXCEPT ![qaCommand.session] =
                       [status |-> "active", window |-> qaCommand.window]])
    BY <1>9 DEF Q!Activate
  <2>2. guests = {} /\ qaCommand.session \in Session
    BY <2>1 DEF QaInv
  <2>3. [lease EXCEPT ![qaCommand.session] = [status |-> "active", window |-> qaCommand.window]]
          \in [Session -> Lease]
    <3>1. [status |-> "active", window |-> qaCommand.window] \in Lease
      BY <1>t DEF Command, Lease, Q!Status
    <3>. QED BY <1>t, <3>1
  <2>4. lease' \in [Session -> Lease] /\ listener' \in Listener /\ listener'.tab = listener.tab
    BY <1>t, <2>1, <2>3, WritesTypes
  <2>5. /\ qaCommand' \in Command /\ qaCommand'.step = "states" /\ qaCommand'.session = qaCommand.session
        /\ qaCommand'.tab = qaCommand.tab
    BY <1>t, <2>1 DEF Command, Q!Steps, Q!After
  <2>. QED BY <1>t, <2>1, <2>2, <2>4, <2>5, TabsStay
<1>10. ASSUME Q!Opened PROVE QaInv'
  <2>1. /\ qaCommand.step = "next" /\ qaCommand.after = "opened"
        /\ UNCHANGED <<tabs, lease, leaseOver, policy, listener, guests>>
        /\ \/ qaCommand' = [qaCommand EXCEPT !.step = "closeTab"]
           \/ qaCommand' = [qaCommand EXCEPT !.step = "states", !.after = "report", !.tab = 0,
                                             !.window = Q!NoWindow]
    BY <1>10 DEF Q!Opened, Q!Validated
  <2>2. guests = {} /\ qaCommand.session \in Session
    BY <2>1 DEF QaInv
  <2>3. /\ qaCommand' \in Command /\ qaCommand'.step \in {"closeTab", "states"}
        /\ qaCommand'.session = qaCommand.session /\ qaCommand'.tab \in {qaCommand.tab, 0}
    BY <1>t, <2>1 DEF Command, Q!Steps, Q!After
  <2>. QED BY <1>t, <2>1, <2>2, <2>3, TabsStay
<1>11. ASSUME Q!Inventory PROVE QaInv'
  <2>1. /\ qaCommand.step = "next" /\ qaCommand.after = "release"
        /\ UNCHANGED <<tabs, lease, leaseOver, policy, listener, guests>>
    BY <1>11 DEF Q!Inventory, Q!Validated
  <2>2. guests = {} /\ qaCommand.session \in Session
    BY <2>1 DEF QaInv
  <2>3. Q!In(qaCommand.state.window) \ qaCommand.owned \subseteq Q!Tab
    BY DEF Q!In, Q!Open
  <2>4. /\ qaCommand' \in Command /\ qaCommand'.step \in {"closeTabs", "forget"}
        /\ qaCommand'.session = qaCommand.session /\ qaCommand'.tab = qaCommand.tab
    <3>1. \/ \E seen \in SUBSET Q!Tab : qaCommand' = [qaCommand EXCEPT !.step = "closeTabs", !.seen = seen]
          \/ qaCommand' = [qaCommand EXCEPT !.step = "forget", !.bad = TRUE]
      BY <1>11, <2>3 DEF Q!Inventory
    <3>. QED BY <1>t, <3>1 DEF Command, Q!Steps
  <2>. QED BY <1>t, <2>1, <2>2, <2>4, TabsStay
<1>12. ASSUME Q!Forget PROVE QaInv'
  <2> DEFINE s == qaCommand.session
  <2>1. /\ qaCommand.step = "forget" /\ qaCommand' = Q!Idle /\ UNCHANGED <<tabs, guests>>
        /\ Q!Writes(Q!Marked(s)) \/ Q!Writes([lease EXCEPT ![s] = Q!NoLease])
    BY <1>12 DEF Q!Forget, Q!Ends
  <2>2. guests = {} /\ s \in Session
    BY <2>1 DEF QaInv
  <2>3. Q!Marked(s) \in [Session -> Lease] /\ [lease EXCEPT ![s] = Q!NoLease] \in [Session -> Lease]
    BY <1>t, <1>c, <2>2, MarkedTypes
  <2>4. lease' \in [Session -> Lease] /\ listener' \in Listener /\ listener'.tab = listener.tab
    BY <1>t, <2>1, <2>3, WritesTypes
  <2>5. leaseOver' \in [Session -> BOOLEAN] /\ policy' \in [Session -> BOOLEAN]
    BY <1>t, <1>12 DEF Q!Forget
  <2>. QED BY <1>c, <2>1, <2>2, <2>4, <2>5, TabsStay
<1>13. ASSUME Q!ListenerStore PROVE QaInv'
  <2>1. UNCHANGED <<tabs, lease, leaseOver, policy, qaCommand, guests>>
        /\ listener' \in Listener /\ listener'.tab = listener.tab
    BY <1>t, <1>13 DEF Q!ListenerStore, Listener
  <2>. QED BY <1>t, <2>1, TabsStay DEF QaInv
<1>14. ASSUME Q!ListenerValidate PROVE QaInv'
  <2> DEFINE s == tabs[listener.tab].owner
  <2>1. UNCHANGED <<tabs, leaseOver, policy, qaCommand, guests>> /\ listener' = Q!Quiet
    BY <1>14 DEF Q!ListenerValidate
  <2>2. lease' \in [Session -> Lease] /\ \A r \in Session : lease[r].status # "none" => lease'[r].status # "none"
    <3>1. CASE s \notin Session
      <4>1. lease' \in [Session -> Lease] /\ lease' = lease
        BY <1>14, <1>t, <3>1 DEF Q!ListenerValidate, Q!Marked
      <4>. QED BY <4>1
    <3>2. CASE s \in Session
      <4>1. [lease EXCEPT ![s] = [status |-> "tainted", window |-> Q!NoWindow]] \in [Session -> Lease]
        BY <1>t DEF Lease, Q!Status
      <4>2. /\ Q!Marked(s) \in [Session -> Lease]
            /\ \A r \in Session : lease[r].status # "none" => Q!Marked(s)[r].status # "none"
        BY <1>t, <3>2, MarkedTypes
      <4>3. \/ lease' \in {lease, Q!Marked(s)}
            \/ /\ lease[s].status = "none"
               /\ lease' = [lease EXCEPT ![s] = [status |-> "tainted", window |-> Q!NoWindow]]
        BY <1>14 DEF Q!ListenerValidate
      <4>. QED BY <1>t, <3>2, <4>1, <4>2, <4>3
    <3>. QED BY <3>1, <3>2
  <2>. QED BY <1>t, <1>c, <2>1, <2>2, TabsStay DEF QaInv
<1>15. ASSUME Q!WorkerRestarts PROVE QaInv'
  <2>1. UNCHANGED <<tabs, leaseOver, policy>> /\ qaCommand' = Q!Idle /\ listener' = Q!Quiet /\ guests' = {}
    BY <1>15 DEF Q!WorkerRestarts
  <2>2. lease' \in [Session -> Lease]
    BY <1>t, <1>c, <1>15 DEF Q!WorkerRestarts
  <2>. QED BY <1>t, <1>c, <2>1, <2>2, TabsStay
<1>. QED
  BY <1>1, <1>2, <1>3, <1>4, <1>5, <1>6, <1>7, <1>8, <1>9, <1>10, <1>11, <1>12, <1>13, <1>14, <1>15

(* A step that opens or closes tabs while no tab of the user is of concern.  *)
LEMMA TabsChange ==
  ASSUME QaInv, tabs' \in [Q!Tab -> TabRecord],
         qaCommand' \in Command, listener' \in Listener, UNCHANGED <<lease, leaseOver, policy>>,
         \A t \in Q!Tab : tabs'[t].by \in {"user", "nobody"} => tabs'[t].owner = NoSession,
         qaCommand'.tab # 0 => tabs'[qaCommand'.tab].by \in {"command", "gone"},
         listener'.tab # 0 => tabs'[listener'.tab].by \in {"page", "gone"},
         qaCommand'.step # "idle" => qaCommand'.session \in Session,
         qaCommand'.step \in {"windows", "ownership", "mark"} =>
           lease'[qaCommand'.session].status # "none",
         guests' \subseteq guests,
         \A t \in guests' : tabs'[t] = tabs[t],
         guests = {} \/ qaCommand' = qaCommand
  PROVE  QaInv'
<1>1. Q!TypeOK'
  <2>1. /\ lease' \in [Session -> Lease] /\ leaseOver' \in [Session -> BOOLEAN]
        /\ policy' \in [Session -> BOOLEAN] /\ guests' \subseteq Q!Tab
    BY QaTypeForm DEF QaInv
  <2>. QED BY <2>1 DEF Q!TypeOK, TabRecord, Lease, Command, Listener
<1>2. guests' \subseteq Q!Users'
  BY DEF QaInv, Q!Users, Q!Open
<1>. QED BY <1>1, <1>2 DEF QaInv

LEMMA QaTabSteps ==
  ASSUME Q!CleanQaAssumption, QaInv,
         \/ Q!CreateTab \/ Q!Remember \/ Q!CloseTab \/ Q!RemoveWindow \/ Q!CloseTabs \/ Q!CloseWindow
         \/ Q!ListenerRemember \/ Q!UserOpens \/ (\E t \in Q!Tab : Q!UserCloses(t)) \/ Q!PageOpens
  PROVE  QaInv'
<1>t. /\ tabs \in [Q!Tab -> TabRecord] /\ lease \in [Session -> Lease]
      /\ leaseOver \in [Session -> BOOLEAN] /\ policy \in [Session -> BOOLEAN]
      /\ qaCommand \in Command /\ listener \in Listener /\ guests \subseteq Q!Tab /\ Q!TypeOK
  BY QaTypeForm DEF QaInv
<1>c. Q!Idle \in Command /\ Q!Idle.step = "idle" /\ Q!Idle.tab = 0 /\ Q!Quiet \in Listener
      /\ Q!Quiet.tab = 0
  BY QaConstants
<1>i. /\ \A t \in Q!Tab : tabs[t].by \in {"user", "nobody"} => tabs[t].owner = NoSession
      /\ qaCommand.tab # 0 => qaCommand.tab \in Q!Tab /\ tabs[qaCommand.tab].by \in {"command", "gone"}
      /\ listener.tab # 0 => listener.tab \in Q!Tab /\ tabs[listener.tab].by \in {"page", "gone"}
      /\ guests \subseteq Q!Users
  BY <1>t DEF QaInv, Command, Listener
<1>1. ASSUME Q!CreateTab PROVE QaInv'
  <2>1. /\ qaCommand.step = "next" /\ qaCommand.after = "open"
        /\ UNCHANGED <<lease, leaseOver, policy, listener, guests>>
    BY <1>1 DEF Q!CreateTab, Q!Validated
  <2>2. guests = {} /\ qaCommand.session \in Session
    BY <2>1 DEF QaInv
  <2>3. CASE UNCHANGED tabs /\ qaCommand' = Q!Idle
    BY <1>t, <1>c, <1>i, <2>1, <2>2, <2>3, TabsChange
  <2>4. ASSUME NEW t \in Q!Fresh, NEW w \in Q!Window, Q!Opens(t, w, "command"),
               qaCommand' = [qaCommand EXCEPT !.step = "remember", !.tab = t, !.window = w]
        PROVE  QaInv'
    <3>1. t \in Q!Tab /\ tabs[t].by = "nobody"
      BY <1>t, WindowsTypes
    <3>2. /\ tabs' \in [Q!Tab -> TabRecord]
          /\ tabs'[t] = [window |-> w, by |-> "command", owner |-> NoSession]
          /\ \A u \in Q!Tab \ {t} : tabs'[u] = tabs[u]
      BY <1>t, <2>4, <3>1, OpensTypes
    <3>3. /\ qaCommand' \in Command /\ qaCommand'.step = "remember" /\ qaCommand'.tab = t
          /\ qaCommand'.session = qaCommand.session
      BY <1>t, <2>4, <3>1 DEF Command, Q!Steps
    <3>4. tabs'[t].by = "command" /\ tabs'[t].owner = NoSession
      BY <3>2
    <3>. QED BY <1>t, <1>i, <2>1, <2>2, <3>1, <3>2, <3>3, <3>4, TabsChange
  <2>5. Q!FreshWindow \subseteq Q!Window /\ Q!Windows \subseteq Q!Window
    BY <1>t, WindowsTypes
  <2>6. \/ UNCHANGED tabs /\ qaCommand' = Q!Idle
        \/ \E t \in Q!Fresh, w \in Q!Window :
             /\ Q!Opens(t, w, "command")
             /\ qaCommand' = [qaCommand EXCEPT !.step = "remember", !.tab = t, !.window = w]
    BY <1>1, <2>5 DEF Q!CreateTab, Q!Ends
  <2>. QED BY <2>3, <2>4, <2>6
<1>2. ASSUME Q!Remember PROVE QaInv'
  <2>1. /\ qaCommand.step = "remember" /\ UNCHANGED <<leaseOver, policy, guests>>
        /\ tabs' = IF qaCommand.tab \in Q!Open
                     THEN [tabs EXCEPT ![qaCommand.tab].owner = qaCommand.session] ELSE tabs
    BY <1>2 DEF Q!Remember
  <2>6. \/ qaCommand' = [qaCommand EXCEPT !.step = "activate"]
        \/ qaCommand' = [qaCommand EXCEPT !.step = "states", !.after = "report", !.tab = 0,
                                          !.window = Q!NoWindow]
    BY <1>2 DEF Q!Remember, Q!Goes
  <2>7. UNCHANGED listener \/ Q!Writes(lease)
    BY <1>2 DEF Q!Remember
  <2>8. UNCHANGED lease
    BY <1>2 DEF Q!Remember, Q!Writes
  <2>9. listener' \in Listener /\ listener'.tab = listener.tab
    BY <1>t, <2>7, WritesTypes
  <2>2. guests = {} /\ qaCommand.session \in Session
    BY <2>1 DEF QaInv
  <2>3. /\ qaCommand' \in Command /\ qaCommand'.step \in {"activate", "states"}
        /\ qaCommand'.session = qaCommand.session /\ qaCommand'.tab \in {qaCommand.tab, 0}
    BY <1>t, <2>6 DEF Command, Q!Steps, Q!After
  <2>4. /\ tabs' \in [Q!Tab -> TabRecord] /\ \A t \in Q!Tab : tabs'[t].by = tabs[t].by
        /\ \A t \in Q!Tab : t # qaCommand.tab => tabs'[t] = tabs[t]
    <3>1. \A r \in TabRecord : /\ [r EXCEPT !.owner = qaCommand.session] \in TabRecord
                               /\ [r EXCEPT !.owner = qaCommand.session].by = r.by
      BY <2>2 DEF TabRecord, Q!Sessions
    <3>2. CASE qaCommand.tab \in Q!Open
      <4>1. tabs' = [tabs EXCEPT ![qaCommand.tab] =
                       [tabs[qaCommand.tab] EXCEPT !.owner = qaCommand.session]]
        BY <2>1, <3>2
      <4>2. qaCommand.tab \in Q!Tab
        BY <3>2 DEF Q!Open
      <4>. QED BY <1>t, <3>1, <4>1, <4>2
    <3>3. CASE qaCommand.tab \notin Q!Open
      BY <1>t, <2>1, <3>3
    <3>. QED BY <3>2, <3>3
  <2>5. \A t \in Q!Tab : tabs'[t].by \in {"user", "nobody"} => tabs'[t].owner = NoSession
    <3>1. CASE qaCommand.tab = 0
      <4>1. qaCommand.tab \notin Q!Open
        BY <3>1 DEF Q!Open, Q!Tab
      <4>. QED BY <1>i, <2>1, <4>1
    <3>2. CASE qaCommand.tab # 0
      BY <1>i, <2>4, <3>2
    <3>. QED BY <3>1, <3>2
  <2>. QED BY <1>t, <1>i, <2>1, <2>2, <2>3, <2>4, <2>5, <2>8, <2>9, TabsChange
<1>3. ASSUME Q!CloseTab PROVE QaInv'
  <2>1. /\ qaCommand.step = "closeTab" /\ UNCHANGED <<lease, leaseOver, policy, listener, guests>>
        /\ qaCommand' = [qaCommand EXCEPT !.step = "removeWindow"]
        /\ Q!Close({qaCommand.tab}) \/ UNCHANGED tabs
    BY <1>3 DEF Q!CloseTab, Q!Goes
  <2>2. guests = {} /\ qaCommand.session \in Session
    BY <2>1 DEF QaInv
  <2>3. /\ qaCommand' \in Command /\ qaCommand'.step = "removeWindow"
        /\ qaCommand'.session = qaCommand.session /\ qaCommand'.tab = qaCommand.tab
    BY <1>t, <2>1, CommandTypes DEF Q!Steps
  <2>4. CASE Q!Close({qaCommand.tab})
    <3>1. tabs' \in [Q!Tab -> TabRecord] /\ \A t \in Q!Tab :
            \/ tabs'[t].by = "gone" /\ tabs'[t].owner = NoSession
            \/ tabs'[t] = tabs[t]
      BY <1>t, <2>4, CloseTypes
    <3>. QED BY <1>t, <1>i, <2>1, <2>2, <2>3, <3>1, TabsChange
  <2>5. CASE UNCHANGED tabs
    BY <1>t, <1>i, <2>1, <2>2, <2>3, <2>5, TabsChange
  <2>. QED BY <2>1, <2>4, <2>5
<1>4. ASSUME Q!RemoveWindow PROVE QaInv'
  <2>1. /\ qaCommand.step = "removeWindow" /\ UNCHANGED <<lease, leaseOver, policy, listener, guests>>
        /\ qaCommand' = Q!Idle
        /\ \/ Q!Close(Q!In(qaCommand.window))
           \/ tabs' = [tabs EXCEPT ![qaCommand.tab].owner = NoSession]
    BY <1>4 DEF Q!RemoveWindow, Q!Ends
  <2>2. guests = {}
    BY <2>1 DEF QaInv
  <2>3. tabs' \in [Q!Tab -> TabRecord] /\ \A t \in Q!Tab :
          /\ tabs'[t].by \in {"gone", tabs[t].by}
          /\ tabs'[t].owner \in {NoSession, tabs[t].owner}
    <3>1. CASE Q!Close(Q!In(qaCommand.window))
      BY <1>t, <3>1, CloseTypes
    <3>2. CASE tabs' = [tabs EXCEPT ![qaCommand.tab].owner = NoSession]
      <4>1. tabs' = [tabs EXCEPT ![qaCommand.tab] = [tabs[qaCommand.tab] EXCEPT !.owner = NoSession]]
        BY <3>2
      <4>2. \A r \in TabRecord : /\ [r EXCEPT !.owner = NoSession] \in TabRecord
                                 /\ [r EXCEPT !.owner = NoSession].by = r.by
                                 /\ [r EXCEPT !.owner = NoSession].owner = NoSession
        BY DEF TabRecord, Q!Sessions
      <4>. QED BY <1>t, <4>1, <4>2
    <3>. QED BY <2>1, <3>1, <3>2
  <2>. QED BY <1>t, <1>c, <1>i, <2>1, <2>2, <2>3, TabsChange
<1>5. ASSUME Q!CloseTabs \/ Q!CloseWindow PROVE QaInv'
  <2>1. /\ qaCommand.step \in {"closeTabs", "closeWindow"}
        /\ UNCHANGED <<lease, leaseOver, policy, listener, guests>>
        /\ (\E shut : Q!Close(shut)) \/ UNCHANGED tabs
        /\ \E step \in {"closeWindow", "forget"}, bad \in BOOLEAN :
             qaCommand' = [qaCommand EXCEPT !.step = step, !.bad = bad]
    <3>1. CASE Q!CloseTabs
      BY <3>1 DEF Q!CloseTabs
    <3>2. CASE Q!CloseWindow
      <4>1. PICK b : b = qaCommand.bad
        OBVIOUS
      <4>2. b \in BOOLEAN /\ qaCommand = [qaCommand EXCEPT !.bad = b]
        BY <1>t, <4>1 DEF Command
      <4>3. [qaCommand EXCEPT !.step = "forget"] = [qaCommand EXCEPT !.step = "forget", !.bad = b]
        BY <1>t, <4>1, <4>2 DEF Command
      <4>4. (b \/ qaCommand.state.window \in Q!Windows) \in BOOLEAN
        BY <4>2
      <4>5. \E bad \in BOOLEAN : qaCommand' = [qaCommand EXCEPT !.step = "forget", !.bad = bad]
        <5>1. CASE qaCommand' = [qaCommand EXCEPT !.step = "forget"]
          BY <4>2, <4>3, <5>1
        <5>2. CASE qaCommand' = [qaCommand EXCEPT !.step = "forget",
                                                  !.bad = @ \/ qaCommand.state.window \in Q!Windows]
          BY <4>1, <4>4, <5>2
        <5>. QED BY <3>2, <5>1, <5>2 DEF Q!CloseWindow, Q!Goes
      <4>. QED BY <3>2, <4>5 DEF Q!CloseWindow
    <3>. QED BY <1>5, <3>1, <3>2
  <2>2. guests = {} /\ qaCommand.session \in Session
    BY <2>1 DEF QaInv
  <2>3. /\ qaCommand' \in Command /\ qaCommand'.step \in {"closeWindow", "forget"}
        /\ qaCommand'.session = qaCommand.session /\ qaCommand'.tab = qaCommand.tab
    BY <1>t, <2>1 DEF Command, Q!Steps
  <2>4. tabs' \in [Q!Tab -> TabRecord] /\ \A t \in Q!Tab :
          \/ tabs'[t].by = "gone" /\ tabs'[t].owner = NoSession
          \/ tabs'[t] = tabs[t]
    BY <1>t, <2>1, CloseTypes
  <2>. QED BY <1>t, <1>i, <2>1, <2>2, <2>3, <2>4, TabsChange
<1>6. ASSUME Q!ListenerRemember PROVE QaInv'
  <2>1. UNCHANGED <<lease, leaseOver, policy, qaCommand, guests>>
        /\ listener.step = "remember"
    BY <1>6 DEF Q!ListenerRemember
  <2>2. CASE listener.tab \notin Q!Open
    <3>1. UNCHANGED tabs /\ listener' = Q!Quiet
      BY <1>6, <2>2 DEF Q!ListenerRemember
    <3>. QED BY <1>t, <1>c, <1>i, <2>1, <3>1, TabsChange DEF QaInv
  <2>3. CASE listener.tab \in Q!Open
    <3>1. PICK owner \in Q!Sessions :
            /\ tabs' = [tabs EXCEPT ![listener.tab] = [tabs[listener.tab] EXCEPT !.owner = owner]]
            /\ listener' = [listener EXCEPT !.step = "store"]
      <4>1. \A t \in Q!Open : tabs[t].owner \in Q!Sessions
        BY <1>t DEF Q!Open, TabRecord
      <4>. QED BY <1>6, <2>3, <4>1 DEF Q!ListenerRemember
    <3>2. listener.tab \in Q!Tab /\ listener.tab # 0 /\ tabs[listener.tab].by \in {"page", "gone"}
      <4>1. 0 \notin Q!Tab /\ listener.tab \in Q!Tab
        BY <2>3 DEF Q!Tab, Q!Open
      <4>. QED BY <1>i, <4>1
    <3>3. \A r \in TabRecord : /\ [r EXCEPT !.owner = owner] \in TabRecord
                               /\ [r EXCEPT !.owner = owner].by = r.by
      BY DEF TabRecord
    <3>4. /\ tabs' \in [Q!Tab -> TabRecord] /\ \A t \in Q!Tab : tabs'[t].by = tabs[t].by
          /\ \A t \in Q!Tab : t # listener.tab => tabs'[t] = tabs[t]
      BY <1>t, <3>1, <3>2, <3>3
    <3>5. listener' \in Listener /\ listener'.tab = listener.tab
      BY <1>t, <3>1 DEF Listener
    <3>6. listener.tab \notin guests
      BY <1>i, <3>2 DEF Q!Users
    <3>. QED BY <1>t, <1>i, <2>1, <3>2, <3>4, <3>5, <3>6, TabsChange DEF QaInv
  <2>. QED BY <2>2, <2>3
<1>7. ASSUME Q!UserOpens PROVE QaInv'
  <2>1. PICK t \in Q!Fresh, w \in Q!Window : Q!Opens(t, w, "user")
    BY <1>t, <1>7, WindowsTypes DEF Q!UserOpens
  <2>2. UNCHANGED <<lease, leaseOver, policy, qaCommand, listener, guests>>
    BY <1>7 DEF Q!UserOpens
  <2>3. t \in Q!Tab /\ tabs[t].by = "nobody"
    BY <1>t, WindowsTypes
  <2>4. /\ tabs' \in [Q!Tab -> TabRecord]
        /\ tabs'[t] = [window |-> w, by |-> "user", owner |-> NoSession]
        /\ \A u \in Q!Tab \ {t} : tabs'[u] = tabs[u]
    BY <1>t, <2>1, <2>3, OpensTypes
  <2>5. tabs'[t].owner = NoSession
    BY <2>4
  <2>6. t \notin guests /\ t # qaCommand.tab /\ t # listener.tab
    <3>1. 0 \notin Q!Tab
      BY DEF Q!Tab
    <3>. QED BY <1>i, <2>3, <3>1 DEF Q!Users
  <2>. QED BY <1>t, <1>i, <2>2, <2>4, <2>5, <2>6, TabsChange DEF QaInv
<1>8. ASSUME NEW t \in Q!Tab, Q!UserCloses(t) PROVE QaInv'
  <2>1. /\ UNCHANGED <<lease, leaseOver, policy, qaCommand, listener>>
        /\ Q!Close({t}) /\ guests' = guests \ {t}
    BY <1>8 DEF Q!UserCloses
  <2>2. tabs' \in [Q!Tab -> TabRecord] /\ \A u \in Q!Tab :
          /\ \/ tabs'[u].by = "gone" /\ tabs'[u].owner = NoSession
             \/ tabs'[u] = tabs[u]
          /\ u # t => tabs'[u] = tabs[u]
    BY <1>t, <2>1, CloseTypes
  <2>. QED BY <1>t, <1>i, <2>1, <2>2, TabsChange DEF QaInv
<1>9. ASSUME Q!PageOpens PROVE QaInv'
  <2>1. PICK t \in Q!Fresh, w \in Q!Window :
          Q!Opens(t, w, "page") /\ listener' = [tab |-> t, step |-> "remember"]
    <3>1. \A opener \in Q!Open : tabs[opener].window \in Q!Window
      BY <1>t DEF Q!Open, TabRecord
    <3>. QED BY <1>9, <3>1 DEF Q!PageOpens
  <2>2. UNCHANGED <<lease, leaseOver, policy, qaCommand, guests>>
    BY <1>9 DEF Q!PageOpens
  <2>3. t \in Q!Tab /\ tabs[t].by = "nobody"
    BY <1>t, WindowsTypes
  <2>4. /\ tabs' \in [Q!Tab -> TabRecord]
        /\ tabs'[t] = [window |-> w, by |-> "page", owner |-> NoSession]
        /\ \A u \in Q!Tab \ {t} : tabs'[u] = tabs[u]
    BY <1>t, <2>1, <2>3, OpensTypes
  <2>5. tabs'[t].by = "page" /\ tabs'[t].owner = NoSession
    BY <2>4
  <2>6. t \notin guests /\ t # qaCommand.tab
    <3>1. 0 \notin Q!Tab
      BY DEF Q!Tab
    <3>. QED BY <1>i, <2>3, <3>1 DEF Q!Users
  <2>7. listener' \in Listener /\ listener'.tab = t
    BY <2>1, <2>3 DEF Listener
  <2>. QED BY <1>t, <1>i, <2>2, <2>3, <2>4, <2>5, <2>6, <2>7, TabsChange DEF QaInv
<1>. QED BY <1>1, <1>2, <1>3, <1>4, <1>5, <1>6, <1>7, <1>8, <1>9

LEMMA QaNext ==
  ASSUME Q!CleanQaAssumption, QaInv, [Q!Next]_(Q!vars)
  PROVE  QaInv'
<1>1. CASE UNCHANGED Q!vars
  BY <1>1 DEF Q!vars, QaInv, Q!TypeOK, Q!Users, Q!Open
<1>2. CASE Q!Next
  BY <1>2, QaCommandSteps, QaTabSteps DEF Q!Next
<1>. QED BY <1>1, <1>2

(* No command on a tab of a Clean QA session is let through while a tab of   *)
(* the user that was incognito when it came still is, whatever became of the *)
(* lease on the way (README.md: Clean QA fails closed).                      *)
THEOREM CleanQaFailsClosed == Spec => []FailsClosed
<1> DEFINE Inv == part = "clean_qa" => QaInv
<1>1. Init => Inv
  BY QaInit, ComponentsAssumption DEF Init
<1>2. Inv /\ [Next]_vars => Inv'
  <2>1. SUFFICES ASSUME Inv, [Next]_vars, part' = "clean_qa" PROVE QaInv'
    OBVIOUS
  <2>2. part = "clean_qa" /\ [Q!Next]_(Q!vars)
    BY <2>1 DEF Next, vars, qaVars, Q!vars
  <2>. QED BY <2>1, <2>2, QaNext, ComponentsAssumption
<1>3. Inv => FailsClosed
  BY DEF FailsClosed, Q!FailsClosed, Q!Admitted, Q!Validated, QaInv
<1>. QED BY <1>1, <1>2, <1>3, PTL DEF Spec

-----------------------------------------------------------------------------
(* Types.  The invariants above have those of Approvals, CleanQa and         *)
(* RequestCache; here are those of the others.                               *)

(* Downloads: a slot is taken only when there is one, and filled in place.   *)
SlotCount == IsFiniteSet(slots) /\ Cardinality(slots) <= MaxRecords

LEMMA SameCardinality == \A S : D!Cardinality(S) = Cardinality(S)
BY DEF D!Cardinality, Cardinality

LEMMA FewerSlots ==
  ASSUME SlotCount, MaxRecords \in Nat, slots' \subseteq slots
  PROVE  SlotCount'
<1>1. IsFiniteSet(slots') /\ Cardinality(slots') <= Cardinality(slots)
  BY FS_Subset DEF SlotCount
<1>2. Cardinality(slots) \in Nat /\ Cardinality(slots') \in Nat
  BY <1>1, FS_CardinalityType DEF SlotCount
<1>. QED BY <1>1, <1>2 DEF SlotCount

LEMMA OneMoreSlot ==
  ASSUME SlotCount, MaxRecords \in Nat, NEW r, slots' = slots \cup {r}, D!canReserve
  PROVE  SlotCount'
<1>1. /\ IsFiniteSet(slots')
      /\ Cardinality(slots') \in {Cardinality(slots), Cardinality(slots) + 1}
  BY FS_AddElement DEF SlotCount
<1>2. Cardinality(slots) \in Nat
  BY FS_CardinalityType DEF SlotCount
<1>. QED BY <1>1, <1>2, SameCardinality DEF SlotCount, D!canReserve

LEMMA SlotReplaced ==
  ASSUME SlotCount, MaxRecords \in Nat, NEW r \in slots, NEW q, slots' = (slots \ {r}) \cup {q}
  PROVE  SlotCount'
<1> DEFINE others == slots \ {r}
<1>1. IsFiniteSet(others) /\ Cardinality(others) = Cardinality(slots) - 1
  BY FS_RemoveElement DEF SlotCount
<1>2. /\ IsFiniteSet(others \cup {q})
      /\ Cardinality(others \cup {q}) \in {Cardinality(others), Cardinality(others) + 1}
  BY <1>1, FS_AddElement
<1>3. Cardinality(slots) \in Nat
  BY FS_CardinalityType DEF SlotCount
<1>. QED BY <1>1, <1>2, <1>3 DEF SlotCount

LEMMA SlotCountNext ==
  ASSUME D!DownloadsAssumption, SlotCount, [D!Next]_(D!vars)
  PROVE  SlotCount'
<1>1. MaxRecords \in Nat
  BY DEF D!DownloadsAssumption
<1>2. ASSUME NEW h \in D!Handler, D!reserveDownload(h) PROVE SlotCount'
  BY <1>1, <1>2, OneMoreSlot DEF D!reserveDownload, SlotCount
<1>3. ASSUME NEW h \in D!Handler, D!Fulfil(h) PROVE SlotCount'
  BY <1>1, <1>3, SlotReplaced DEF D!Fulfil, D!canFulfill, D!fulfillDownloadReservation, SlotCount
<1>4. ASSUME NEW h \in D!Handler, D!Rollback(h) PROVE SlotCount'
  BY <1>1, <1>4, FewerSlots DEF D!Rollback, D!rollbackDownloadReservation
<1>5. ASSUME NEW s \in Session, D!commandDeleteDownload(s) PROVE SlotCount'
  BY <1>1, <1>5, FewerSlots DEF D!commandDeleteDownload
<1>6. ASSUME NEW s \in Session, D!releaseSessionDownloads(s) PROVE SlotCount'
  BY <1>1, <1>6, FewerSlots DEF D!releaseSessionDownloads
<1>7. ASSUME NEW h \in D!Handler,
             D!Start(h) \/ D!Click(h) \/ D!Signal(h) \/ D!reconcileCreatedDownload(h)
             \/ D!DownloadImage(h) \/ D!TabCreated(h) \/ D!DeadlinePasses(h)
      PROVE  SlotCount'
  BY <1>7 DEF SlotCount, D!Start, D!Click, D!Signal, D!reconcileCreatedDownload, D!DownloadImage,
              D!TabCreated, D!DeadlinePasses
<1>8. CASE D!DownloadCreated \/ D!WorkerDies \/ UNCHANGED D!vars
  BY <1>8 DEF SlotCount, D!DownloadCreated, D!WorkerDies, D!vars
<1>. QED BY <1>2, <1>3, <1>4, <1>5, <1>6, <1>7, <1>8 DEF D!Next

LEMMA DownloadTypes == SlotInv /\ SlotCount => D!TypeOK
BY SameCardinality DEF SlotInv, RunsTyped, SlotCount, D!TypeOK

LEMMA SlotCountInit == D!DownloadsAssumption /\ D!Init => SlotCount
BY FS_EmptySet DEF D!DownloadsAssumption, D!Init, SlotCount

(* BrokerStartup. *)

LEMMA StartupTypes ==
  ASSUME B!BrokerStartupAssumption, B!TypeOK, [B!Next]_(B!vars)
  PROVE  B!TypeOK'
<1>. USE DEF B!TypeOK, B!ClientPhase, B!BrokerPhase, B!lockVars, B!brokerVars
<1>1. ASSUME NEW c \in Client,
             B!Look(c) \/ B!StatLock(c) \/ B!RemoveLock(c) \/ B!tryAcquireStartupLock(c)
      PROVE  B!TypeOK'
  BY <1>1 DEF B!Look, B!StatLock, B!RemoveLock, B!tryAcquireStartupLock, B!Goes
<1>2. ASSUME NEW c \in Client, B!Poll(c) \/ B!releaseLock(c) \/ B!StartAgain(c)
      PROVE  B!TypeOK'
  BY <1>2 DEF B!Poll, B!releaseLock, B!StartAgain, B!Goes
<1>3. ASSUME NEW c \in Client, B!ClientKilled(c) PROVE B!TypeOK'
  BY <1>3 DEF B!ClientKilled, B!Goes, B!BrokerStartupAssumption
<1>4. ASSUME NEW b \in Broker, B!BridgeStart(b) \/ B!Listen(b) \/ B!CloseServer(b)
      PROVE  B!TypeOK'
  BY <1>4 DEF B!BridgeStart, B!Listen, B!CloseServer, B!Exits, B!Becomes
<1>5. ASSUME NEW b \in Broker, B!writeRuntime(b) \/ B!Serve(b) \/ B!StopBridge(b)
      PROVE  B!TypeOK'
  BY <1>5 DEF B!writeRuntime, B!Serve, B!StopBridge, B!Becomes
<1>6. ASSUME NEW b \in Broker, B!BrokerKilled(b) PROVE B!TypeOK'
  BY <1>6 DEF B!BrokerKilled, B!Exits, B!Becomes, B!BrokerStartupAssumption
<1>7. CASE B!LockAges \/ UNCHANGED B!vars
  BY <1>7 DEF B!LockAges, B!vars
<1>. QED BY <1>1, <1>2, <1>3, <1>4, <1>5, <1>6, <1>7 DEF B!Next

LEMMA StartupTypesInit == B!BrokerStartupAssumption /\ B!Init => B!TypeOK
<1>. SUFFICES ASSUME B!BrokerStartupAssumption, B!Init PROVE B!TypeOK
  OBVIOUS
<1>1. /\ client \in [Client -> B!ClientPhase] /\ startLock \in Client \cup {None}
      /\ old \in BOOLEAN /\ broker \in [Broker -> B!BrokerPhase]
  BY DEF B!Init, B!ClientPhase, B!BrokerPhase
<1>2. {bridge, ipc, runtime} \subseteq Broker \cup {None}
  BY DEF B!Init
<1>3. crashes \in 0..MaxCrashes
  BY DEF B!Init, B!BrokerStartupAssumption
<1>. QED BY <1>1, <1>2, <1>3 DEF B!TypeOK

(* Handshake: the token that ends a pairing is the only message whose key is *)
(* kept.                                                                     *)
Ends == [phase : H!ExtPhase, token : H!Tokens, code : H!Codes]
Links == [phase : H!SrvPhase, token : H!Tokens, open : BOOLEAN]
Messages == {m \in H!Message \cup {H!NoMessage} : m.kind = "pairing_complete" => m.key \in H!Tokens}

ConnectionTypes ==
  /\ ext \in [Profile -> Ends] /\ srv \in [Profile -> Links] /\ wire \in [Profile -> Messages]
  /\ current \in Profile \cup {None}

PairingTokens == {token, file, temporary} \subseteq H!Tokens
PairingCode == code \in H!Codes /\ fresh \in BOOLEAN /\ pairingLock \in {"no", "locked", "over"}
PairingCounts == attempts \in 0..MaxPairingAttempts /\ guesses \in Nat
PairingTypes == PairingTokens /\ PairingCode /\ PairingCounts

StoredTypes == stored \in [Profile -> H!Tokens] /\ faults \in 0..MaxFaults

HandshakeTypes == ConnectionTypes /\ PairingTypes /\ StoredTypes

LEMMA MessageFacts ==
  /\ H!NoMessage \in Messages /\ H!Closed \in Ends /\ H!Absent \in Links
  /\ \A key \in H!Tokens \cup H!Codes :
       \A kind \in {"hello", "pairing_approve", "pairing_confirm", "auth_response", "auth_confirm",
                    "pairing_required", "pairing_approved", "auth_challenge", "broker_proof", "ready"} :
         H!Say(kind, key) \in Messages
  /\ \A key \in H!Tokens : H!Say("pairing_complete", key) \in Messages
<1>1. H!NoMessage \in Messages
  BY DEF Messages, H!NoMessage
<1>2. H!Closed \in Ends /\ H!Absent \in Links
  BY DEF Ends, Links, H!Closed, H!Absent, H!ExtPhase, H!SrvPhase, H!Tokens, H!Codes
<1>. QED BY <1>1, <1>2 DEF Messages, H!Message, H!Say

LEMMA CutKeepsTypes ==
  ASSUME ConnectionTypes, NEW P, H!Cut(P)
  PROVE  ConnectionTypes'
<1>1. \A r \in Links : [r EXCEPT !.open = FALSE] \in Links
  BY DEF Links
<1>. QED BY <1>1, MessageFacts DEF ConnectionTypes, H!Cut

LEMMA ConnectionMoves ==
  ASSUME ConnectionTypes, NEW p \in Profile,
         \/ UNCHANGED ext
         \/ \E e \in Ends : ext' = [ext EXCEPT ![p] = e],
         \/ UNCHANGED srv
         \/ \E r \in Links : srv' = [srv EXCEPT ![p] = r],
         \/ UNCHANGED wire
         \/ \E m \in Messages : wire' = [wire EXCEPT ![p] = m],
         current' \in {current, p}
  PROVE  ConnectionTypes'
BY DEF ConnectionTypes

(* Either end goes to another phase. *)
LEMMA PhaseFacts ==
  ASSUME ConnectionTypes, NEW p \in Profile
  PROVE  /\ ext[p] \in Ends /\ srv[p] \in Links /\ wire[p] \in Messages
         /\ \A phase \in H!ExtPhase : [ext[p] EXCEPT !.phase = phase] \in Ends
         /\ \A phase \in H!SrvPhase : [srv[p] EXCEPT !.phase = phase] \in Links
         /\ ext[p].token \in H!Tokens /\ ext[p].code \in H!Codes /\ srv[p].token \in H!Tokens
<1>1. ext[p] \in Ends /\ srv[p] \in Links /\ wire[p] \in Messages
  BY DEF ConnectionTypes
<1>. QED BY <1>1 DEF Ends, Links

LEMMA ExtensionTypes ==
  ASSUME HandshakeTypes, NEW p \in Profile,
         H!connectTransport(p) \/ H!Opened(p) \/ H!approvePairing(p) \/ H!revokePairing(p)
  PROVE  HandshakeTypes'
<1>1. ConnectionTypes /\ PairingTypes /\ StoredTypes
  BY DEF HandshakeTypes
<1>2. stored[p] \in H!Tokens /\ None \in H!Tokens /\ None \in H!Codes
  BY <1>1 DEF StoredTypes, H!Tokens, H!Codes
<1>3. CASE H!connectTransport(p)
  <2>1. [phase |-> "connected", token |-> None, open |-> TRUE] \in Links
    BY <1>2 DEF Links, H!SrvPhase
  <2>2. "opening" \in H!ExtPhase
    BY DEF H!ExtPhase
  <2>3. ConnectionTypes'
    BY <1>1, <1>3, <2>1, <2>2, PhaseFacts, ConnectionMoves DEF H!connectTransport, H!Becomes
  <2>. QED BY <1>1, <1>3, <2>3
           DEF H!connectTransport, H!pairingVars, HandshakeTypes, PairingTypes,
               PairingTokens, PairingCode, PairingCounts, StoredTypes
<1>4. CASE H!Opened(p)
  <2>1. [phase |-> "hello_sent", token |-> stored[p], code |-> None] \in Ends
    BY <1>2 DEF Ends, H!ExtPhase
  <2>2. H!Say("hello", stored[p]) \in Messages
    BY <1>2, MessageFacts
  <2>3. ConnectionTypes'
    BY <1>1, <1>4, <2>1, <2>2, ConnectionMoves DEF H!Opened, H!Reply
  <2>. QED BY <1>1, <1>4, <2>3
           DEF H!Opened, H!pairingVars, HandshakeTypes, PairingTypes,
               PairingTokens, PairingCode, PairingCounts, StoredTypes
<1>5. CASE H!approvePairing(p)
  <2>1. PICK typed \in Code :
          /\ ext' = [ext EXCEPT ![p].phase = "pairing_request_sent", ![p].code = typed]
          /\ wire' = [wire EXCEPT ![p] = H!Say("pairing_approve", typed)]
    BY <1>5 DEF H!approvePairing, H!Reply
  <2>a. ext[p] \in Ends
    BY <1>1, PhaseFacts
  <2>2. [ext[p] EXCEPT !.phase = "pairing_request_sent", !.code = typed] \in Ends
    BY <2>a DEF Ends, H!ExtPhase, H!Codes
  <2>3. ext' = [ext EXCEPT ![p] = [ext[p] EXCEPT !.phase = "pairing_request_sent", !.code = typed]]
    BY <1>1, <2>1 DEF ConnectionTypes
  <2>4. H!Say("pairing_approve", typed) \in Messages
    BY MessageFacts DEF H!Codes
  <2>5. ConnectionTypes'
    BY <1>1, <1>5, <2>1, <2>2, <2>3, <2>4, ConnectionMoves DEF H!approvePairing
  <2>. QED BY <1>1, <1>5, <2>5
           DEF H!approvePairing, H!pairingVars, HandshakeTypes, PairingTypes,
               PairingTokens, PairingCode, PairingCounts, StoredTypes
<1>6. CASE H!revokePairing(p)
  <2>1. ConnectionTypes'
    BY <1>1, <1>6, CutKeepsTypes DEF H!revokePairing
  <2>. QED BY <1>1, <1>2, <1>6, <2>1
           DEF H!revokePairing, H!pairingVars, HandshakeTypes, PairingTypes,
               PairingTokens, PairingCode, PairingCounts, StoredTypes
<1>. QED BY <1>3, <1>4, <1>5, <1>6

LEMMA TransportTypes ==
  ASSUME HandshakeTypes, NEW p \in Profile, H!handleTransportMessage(p)
  PROVE  HandshakeTypes'
<1>1. ConnectionTypes /\ PairingTypes /\ StoredTypes
  BY DEF HandshakeTypes
<1>2. PairingTypes' /\ faults' = faults
  BY <1>1 DEF H!handleTransportMessage, H!pairingVars, PairingTypes, PairingTokens, PairingCode, PairingCounts
<1>3. CASE H!PairingComplete(p)
  <2>1. wire[p].key \in H!Tokens
    BY <1>1, <1>3, PhaseFacts DEF H!PairingComplete, H!Received, Messages
  <2>2. ConnectionTypes'
    BY <1>1, <1>3, CutKeepsTypes DEF H!PairingComplete
  <2>. QED BY <1>1, <1>2, <1>3, <2>1, <2>2 DEF H!PairingComplete, HandshakeTypes, StoredTypes
<1>4. ASSUME UNCHANGED stored, ConnectionTypes' PROVE HandshakeTypes'
  BY <1>1, <1>2, <1>4 DEF HandshakeTypes, StoredTypes
<1>5. /\ {"pairing_required", "pairing_confirm_sent", "auth_response_sent", "auth_confirm_sent",
          "authenticated"} \subseteq H!ExtPhase
  BY DEF H!ExtPhase
<1>6. CASE H!PairingRequired(p) \/ H!Ready(p)
  <2>1. ConnectionTypes'
    BY <1>1, <1>5, <1>6, PhaseFacts, MessageFacts, ConnectionMoves
    DEF H!PairingRequired, H!Ready, H!Becomes, H!Reply
  <2>. QED BY <1>4, <1>6, <2>1 DEF H!handleTransportMessage, H!PairingRequired, H!Ready, H!PairingComplete,
                                   H!Received
<1>7. CASE H!PairingApproved(p)
  <2>1. H!Say("pairing_confirm", ext[p].code) \in Messages
    BY <1>1, PhaseFacts, MessageFacts
  <2>2. ConnectionTypes'
    BY <1>1, <1>5, <1>7, <2>1, PhaseFacts, ConnectionMoves, CutKeepsTypes
    DEF H!PairingApproved, H!Becomes, H!Reply
  <2>. QED BY <1>4, <1>7, <2>2 DEF H!handleTransportMessage, H!PairingApproved, H!PairingComplete, H!Received
<1>8. CASE H!AuthChallenge(p) \/ H!BrokerProof(p)
  <2>1. H!Say("auth_response", ext[p].token) \in Messages /\ H!Say("auth_confirm", ext[p].token) \in Messages
    BY <1>1, PhaseFacts, MessageFacts
  <2>2. ConnectionTypes'
    BY <1>1, <1>5, <1>8, <2>1, PhaseFacts, ConnectionMoves, CutKeepsTypes
    DEF H!AuthChallenge, H!BrokerProof, H!Becomes, H!Reply
  <2>. QED BY <1>4, <1>8, <2>2 DEF H!handleTransportMessage, H!AuthChallenge, H!BrokerProof,
                                   H!PairingComplete, H!Received
<1>. QED BY <1>3, <1>6, <1>7, <1>8 DEF H!handleTransportMessage

(* #authenticate: what it does to the connection, and to what the pairing    *)
(* keeps beside it.                                                          *)
LEMMA HelloTypes ==
  ASSUME H!HandshakeAssumption, HandshakeTypes, NEW p \in Profile, H!hello(p)
  PROVE  ConnectionTypes' /\ PairingTypes'
<1>1. ConnectionTypes /\ PairingTypes
  BY DEF HandshakeTypes
<1>2. None \in H!Tokens \cup H!Codes /\ {"auth_challenge", "pairing_required"} \subseteq H!SrvPhase
  BY DEF H!Tokens, H!SrvPhase
<1>3. H!Say("auth_challenge", None) \in Messages /\ H!Say("pairing_required", None) \in Messages
  BY <1>2, MessageFacts
<1>4. ConnectionTypes'
  BY <1>1, <1>2, <1>3, PhaseFacts, ConnectionMoves, CutKeepsTypes DEF H!hello, H!Enter, H!Reply
<1>5. H!AttemptsSoFar \in 0..MaxPairingAttempts
  BY <1>1 DEF PairingTypes, PairingCounts, H!AttemptsSoFar, H!HandshakeAssumption
<1>6. PairingTypes'
  <2>1. PairingTokens'
    BY <1>1, <1>5 DEF PairingTypes, PairingTokens, H!hello, H!rotatePairingCode
  <2>2. PairingCode'
    BY <1>1, <1>5 DEF PairingTypes, PairingCode, H!hello, H!rotatePairingCode, H!Codes
  <2>3. PairingCounts'
    BY <1>1, <1>5 DEF PairingTypes, PairingCounts, H!hello, H!rotatePairingCode, H!HandshakeAssumption
  <2>. QED BY <2>1, <2>2, <2>3 DEF PairingTypes
<1>. QED BY <1>4, <1>6

LEMMA ApproveTypes ==
  ASSUME H!HandshakeAssumption, HandshakeTypes, NEW p \in Profile, H!pairing_approve(p)
  PROVE  ConnectionTypes' /\ PairingTypes'
<1>1. ConnectionTypes /\ PairingTypes
  BY DEF HandshakeTypes
<1>2. "pairing_proof" \in H!SrvPhase /\ H!Say("pairing_approved", code) \in Messages
  BY <1>1, MessageFacts DEF H!SrvPhase, PairingTypes, PairingCode
<1>3. ConnectionTypes'
  BY <1>1, <1>2, PhaseFacts, ConnectionMoves, CutKeepsTypes DEF H!pairing_approve, H!Enter, H!Reply
<1>4. attempts' \in 0..MaxPairingAttempts
  BY <1>1 DEF PairingTypes, PairingCounts, H!pairing_approve, H!HandshakeAssumption
<1>5. PairingTypes'
  <2>1. PairingTokens'
    BY <1>1, <1>4 DEF PairingTypes, PairingTokens, H!pairing_approve, H!rotatePairingCode
  <2>2. PairingCode'
    BY <1>1, <1>4 DEF PairingTypes, PairingCode, H!pairing_approve, H!rotatePairingCode, H!Codes
  <2>3. PairingCounts'
    BY <1>1, <1>4 DEF PairingTypes, PairingCounts, H!pairing_approve, H!rotatePairingCode, H!HandshakeAssumption
  <2>. QED BY <2>1, <2>2, <2>3 DEF PairingTypes
<1>. QED BY <1>3, <1>5

LEMMA ConfirmTypes ==
  ASSUME HandshakeTypes, NEW p \in Profile, H!pairing_confirm(p)
  PROVE  ConnectionTypes' /\ PairingTypes'
<1>1. ConnectionTypes /\ PairingTypes
  BY DEF HandshakeTypes
<1>2. PairingTypes'
  BY <1>1 DEF PairingTypes, PairingTokens, PairingCode, PairingCounts, H!pairing_confirm, H!pairingVars
<1>3. CASE wire[p].key = code
  <2>1. PICK new \in Token : srv' = [srv EXCEPT ![p].phase = "writing", ![p].token = new]
    BY <1>3 DEF H!pairing_confirm, H!Unused
  <2>a. srv[p] \in Links
    BY <1>1, PhaseFacts
  <2>2. [srv[p] EXCEPT !.phase = "writing", !.token = new] \in Links
    BY <2>a DEF Links, H!SrvPhase, H!Tokens
  <2>3. srv' = [srv EXCEPT ![p] = [srv[p] EXCEPT !.phase = "writing", !.token = new]]
    BY <1>1, <2>1 DEF ConnectionTypes
  <2>4. ConnectionTypes'
    BY <1>1, <1>3, <2>2, <2>3, MessageFacts, ConnectionMoves DEF H!pairing_confirm, H!Reply
  <2>. QED BY <1>2, <2>4
<1>4. CASE wire[p].key # code
  <2>1. ConnectionTypes'
    BY <1>1, <1>4, CutKeepsTypes DEF H!pairing_confirm
  <2>. QED BY <1>2, <2>1
<1>. QED BY <1>3, <1>4

LEMMA WriteTypes ==
  ASSUME HandshakeTypes, NEW p \in Profile, H!writeFile(p)
  PROVE  ConnectionTypes' /\ PairingTypes'
<1>1. ConnectionTypes /\ PairingTypes
  BY DEF HandshakeTypes
<1>2. srv[p].token \in H!Tokens /\ "renaming" \in H!SrvPhase
  BY <1>1, PhaseFacts DEF H!SrvPhase
<1>3. ConnectionTypes'
  BY <1>1, <1>2, PhaseFacts, ConnectionMoves DEF H!writeFile, H!Enter
<1>. QED BY <1>1, <1>2, <1>3 DEF PairingTypes, PairingTokens, PairingCode, PairingCounts, H!writeFile

LEMMA RenameTypes ==
  ASSUME H!HandshakeAssumption, HandshakeTypes, NEW p \in Profile, H!rename(p)
  PROVE  ConnectionTypes' /\ PairingTypes'
<1>1. ConnectionTypes /\ PairingTypes
  BY DEF HandshakeTypes
<1>2. srv[p] \in Links /\ srv[p].token \in H!Tokens /\ None \in H!Codes /\ None \in H!Tokens
  BY <1>1, PhaseFacts DEF H!Tokens, H!Codes
<1>3. H!Finished(p) \in Links
  BY <1>2, MessageFacts DEF H!Finished, Links, H!SrvPhase
<1>4. H!Say("pairing_complete", srv[p].token) \in Messages
  BY <1>2, MessageFacts
<1>5. CASE temporary = None
  <2>1. ConnectionTypes'
    BY <1>1, <1>5, MessageFacts, ConnectionMoves DEF H!rename, H!Reply
  <2>2. PairingTypes'
    BY <1>1, <1>5 DEF PairingTypes, PairingTokens, PairingCode, PairingCounts, H!rename, H!pairingVars
  <2>. QED BY <2>1, <2>2
<1>6. CASE temporary # None
  <2>1. ConnectionTypes'
    BY <1>1, <1>3, <1>4, <1>6, ConnectionMoves DEF H!rename, H!Reply
  <2>2. PairingTypes'
    <3>1. PairingTokens'
      BY <1>1, <1>2, <1>6 DEF PairingTypes, PairingTokens, H!rename
    <3>2. PairingCode'
      BY <1>1, <1>2, <1>6 DEF PairingTypes, PairingCode, H!rename, H!Codes
    <3>3. PairingCounts'
      BY <1>1, <1>2, <1>6 DEF PairingTypes, PairingCounts, H!rename, H!HandshakeAssumption
    <3>. QED BY <3>1, <3>2, <3>3 DEF PairingTypes
  <2>. QED BY <2>1, <2>2
<1>. QED BY <1>5, <1>6

LEMMA ProofTypes ==
  ASSUME HandshakeTypes, NEW p \in Profile, H!auth_response(p) \/ H!auth_confirm(p) \/ H!Unexpected(p)
  PROVE  ConnectionTypes' /\ PairingTypes'
<1>1. ConnectionTypes /\ PairingTypes
  BY DEF HandshakeTypes
<1>2. PairingTypes'
  BY <1>1 DEF PairingTypes, PairingTokens, PairingCode, PairingCounts, H!auth_response, H!auth_confirm, H!Unexpected, H!pairingVars
<1>3. "auth_proof" \in H!SrvPhase /\ "authenticated" \in H!SrvPhase
  BY DEF H!SrvPhase
<1>4. H!Say("broker_proof", token) \in Messages /\ H!Say("ready", None) \in Messages
  BY <1>1, MessageFacts DEF PairingTypes, PairingTokens, H!Tokens
<1>5. CASE H!auth_response(p) \/ H!Unexpected(p)
  <2>1. ConnectionTypes'
    BY <1>1, <1>3, <1>4, <1>5, PhaseFacts, ConnectionMoves, CutKeepsTypes
    DEF H!auth_response, H!Unexpected, H!Enter, H!Reply
  <2>. QED BY <1>2, <2>1
<1>6. CASE H!auth_confirm(p)
  <2>1. CASE H!Cut({p})
    BY <1>1, <1>2, <2>1, CutKeepsTypes
  <2>2. CASE ~H!Cut({p})
    <3>1. [srv[p] EXCEPT !.phase = "authenticated"] \in Links
      BY <1>1, <1>3, PhaseFacts
    <3>2. ConnectionTypes'
      BY <1>1, <1>4, <1>6, <2>2, <3>1, MessageFacts DEF ConnectionTypes, H!auth_confirm
    <3>. QED BY <1>2, <3>2
  <2>. QED BY <2>1, <2>2
<1>. QED BY <1>5, <1>6

LEMMA HandshakeTypesNext ==
  ASSUME H!HandshakeAssumption, HandshakeTypes, [H!Next]_(H!vars)
  PROVE  HandshakeTypes'
<1>1. ConnectionTypes /\ PairingTypes /\ StoredTypes
  BY DEF HandshakeTypes
<1>2. ASSUME NEW p \in Profile, H!authenticate(p) PROVE HandshakeTypes'
  <2>1. ConnectionTypes' /\ PairingTypes'
    BY <1>2, HelloTypes, ApproveTypes, ConfirmTypes, WriteTypes, RenameTypes, ProofTypes DEF H!authenticate
  <2>2. StoredTypes'
    BY <1>1, <1>2 DEF StoredTypes, H!authenticate
  <2>. QED BY <2>1, <2>2 DEF HandshakeTypes
<1>3. ASSUME NEW p \in Profile, H!HandshakeTimeout(p) \/ H!ConnectionLost(p) PROVE HandshakeTypes'
  <2>1. ConnectionTypes'
    BY <1>1, <1>3, CutKeepsTypes DEF H!HandshakeTimeout, H!ConnectionLost
  <2>2. PairingTypes'
    BY <1>1, <1>3 DEF PairingTypes, PairingTokens, PairingCode, PairingCounts, H!HandshakeTimeout, H!ConnectionLost, H!pairingVars
  <2>3. StoredTypes'
    BY <1>1, <1>3 DEF StoredTypes, H!HandshakeTimeout, H!ConnectionLost, H!HandshakeAssumption
  <2>. QED BY <2>1, <2>2, <2>3 DEF HandshakeTypes
<1>4. CASE H!BrokerRestarts
  <2>1. ConnectionTypes'
    BY <1>4, MessageFacts DEF ConnectionTypes, H!BrokerRestarts
  <2>2. PairingTypes'
    <3>1. PairingTokens'
      BY <1>1, <1>4 DEF PairingTypes, PairingTokens, H!BrokerRestarts
    <3>2. PairingCode'
      BY <1>1, <1>4 DEF PairingTypes, PairingCode, H!BrokerRestarts, H!Codes
    <3>3. PairingCounts'
      BY <1>1, <1>4 DEF PairingTypes, PairingCounts, H!BrokerRestarts, H!HandshakeAssumption
    <3>. QED BY <3>1, <3>2, <3>3 DEF PairingTypes
  <2>3. StoredTypes'
    BY <1>1, <1>4 DEF StoredTypes, H!BrokerRestarts, H!HandshakeAssumption
  <2>. QED BY <2>1, <2>2, <2>3 DEF HandshakeTypes
<1>5. CASE H!CodeExpires \/ H!LockPasses \/ UNCHANGED H!vars
  BY <1>1, <1>5 DEF HandshakeTypes, ConnectionTypes, PairingTypes, PairingTokens, PairingCode, PairingCounts,
                    StoredTypes, H!CodeExpires, H!LockPasses,
                    H!vars, H!pairingVars
<1>. QED BY <1>2, <1>3, <1>4, <1>5, ExtensionTypes, TransportTypes DEF H!Next

LEMMA HandshakeTypesInit == H!HandshakeAssumption /\ H!Init => HandshakeTypes
<1>. SUFFICES ASSUME H!HandshakeAssumption, H!Init PROVE HandshakeTypes
  OBVIOUS
<1>1. ConnectionTypes
  BY MessageFacts DEF H!Init, ConnectionTypes
<1>2. PairingTypes
  <2>1. PairingTokens /\ PairingCode
    BY DEF H!Init, PairingTokens, PairingCode, H!Tokens, H!Codes
  <2>2. PairingCounts
    BY DEF H!Init, PairingCounts, H!HandshakeAssumption
  <2>. QED BY <2>1, <2>2 DEF PairingTypes
<1>3. StoredTypes
  BY DEF H!Init, StoredTypes, H!Tokens, H!HandshakeAssumption
<1>. QED BY <1>1, <1>2, <1>3 DEF HandshakeTypes

LEMMA HandshakeTypesOK == HandshakeTypes => H!TypeOK
BY DEF HandshakeTypes, ConnectionTypes, PairingTypes, PairingTokens, PairingCode, PairingCounts,
       StoredTypes, H!TypeOK, Ends, Links, Messages

-----------------------------------------------------------------------------
(* Every component keeps to its types: bounds (the pairing attempts, the     *)
(* download slots, the crashes), the shape of what each record may hold, and *)
(* what goes with what (no broker, no claims), for any number of sessions,   *)
(* clients, profiles and requests.                                           *)
TypeInv ==
  /\ part = "cdp" => C!TypeInv
  /\ part = "trace" => T!TypeInv
  /\ part = "approvals" => ApprovalInv
  /\ part = "downloads" => SlotInv /\ SlotCount
  /\ part = "requests" => R!IInv
  /\ part = "startup" => B!TypeOK
  /\ part = "clean_qa" => QaInv
  /\ part = "handshake" => HandshakeTypes

THEOREM TypesAreKept == Spec => []TypeOK
<1>1. Init => TypeInv
  <2>. SUFFICES ASSUME Init  PROVE TypeInv
    OBVIOUS
  <2>1. CASE part = "cdp"
    BY <2>1, C!TypesInit, ComponentsAssumption DEF Init, TypeInv
  <2>2. CASE part = "trace"
    BY <2>2, T!TypesInit, ComponentsAssumption DEF Init, TypeInv
  <2>3. CASE part = "approvals"
    BY <2>3, ApprovalInit, ComponentsAssumption DEF Init, TypeInv
  <2>4. CASE part = "downloads"
    BY <2>4, SlotInit, SlotCountInit, ComponentsAssumption DEF Init, TypeInv
  <2>5. CASE part = "requests"
    BY <2>5, R!InitIInv, ComponentsAssumption DEF Init, TypeInv
  <2>6. CASE part = "startup"
    BY <2>6, StartupTypesInit, ComponentsAssumption DEF Init, TypeInv
  <2>7. CASE part = "clean_qa"
    BY <2>7, QaInit, ComponentsAssumption DEF Init, TypeInv
  <2>8. CASE part = "handshake"
    BY <2>8, HandshakeTypesInit, ComponentsAssumption DEF Init, TypeInv
  <2>. QED BY <2>1, <2>2, <2>3, <2>4, <2>5, <2>6, <2>7, <2>8 DEF Init
<1>2. TypeInv /\ [Next]_vars => TypeInv'
  <2>. SUFFICES ASSUME TypeInv, [Next]_vars  PROVE TypeInv'
    OBVIOUS
  <2>0. part' = part
    BY DEF Next, vars
  <2>1. CASE part = "cdp"
    <3>1. C!TypeInv /\ [C!Next]_(C!vars)
      BY <2>1 DEF Next, vars, cdpVars, C!vars, C!memoryVars, TypeInv
    <3>. QED BY <2>0, <2>1, <3>1, C!TypesNext, ComponentsAssumption DEF TypeInv
  <2>2. CASE part = "trace"
    <3>1. T!TypeInv /\ [T!Next]_(T!vars)
      BY <2>2 DEF Next, vars, cdpVars, T!vars, T!memoryVars, TypeInv
    <3>. QED BY <2>0, <2>2, <3>1, T!TypesNext, ComponentsAssumption DEF TypeInv
  <2>3. CASE part = "approvals"
    <3>1. ApprovalInv /\ [A!Next]_(A!vars)
      BY <2>3 DEF Next, vars, approvalVars, A!vars, TypeInv
    <3>. QED BY <2>0, <2>3, <3>1, ApprovalStep, ComponentsAssumption DEF TypeInv
  <2>4. CASE part = "downloads"
    <3>1. SlotInv /\ SlotCount /\ [D!Next]_(D!vars)
      BY <2>4 DEF Next, vars, downloadVars, D!vars, TypeInv
    <3>. QED BY <2>0, <2>4, <3>1, SlotNext, SlotCountNext, ComponentsAssumption DEF TypeInv
  <2>5. CASE part = "requests"
    <3>1. R!IInv /\ (R!Next \/ UNCHANGED R!vars)
      BY <2>5 DEF Next, vars, requestVars, R!vars, TypeInv
    <3>. QED BY <2>0, <2>5, <3>1, R!NextIInv, ComponentsAssumption DEF TypeInv
  <2>6. CASE part = "startup"
    <3>1. B!TypeOK /\ [B!Next]_(B!vars)
      BY <2>6 DEF Next, vars, startupVars, B!vars, TypeInv
    <3>. QED BY <2>0, <2>6, <3>1, StartupTypes, ComponentsAssumption DEF TypeInv
  <2>7. CASE part = "clean_qa"
    <3>1. QaInv /\ [Q!Next]_(Q!vars)
      BY <2>7 DEF Next, vars, qaVars, Q!vars, TypeInv
    <3>. QED BY <2>0, <2>7, <3>1, QaNext, ComponentsAssumption DEF TypeInv
  <2>8. CASE part = "handshake"
    <3>1. HandshakeTypes /\ [H!Next]_(H!vars)
      BY <2>8 DEF Next, vars, handshakeVars, H!vars, H!pairingVars, TypeInv
    <3>. QED BY <2>0, <2>8, <3>1, HandshakeTypesNext, ComponentsAssumption DEF TypeInv
  <2>9. CASE part \notin {"cdp", "trace", "approvals", "downloads", "requests", "startup",
                          "clean_qa", "handshake"}
    BY <2>0, <2>9 DEF TypeInv
  <2>. QED BY <2>1, <2>2, <2>3, <2>4, <2>5, <2>6, <2>7, <2>8, <2>9
<1>3. TypeInv => TypeOK
  BY C!TypeInvTypeOK, T!TypeInvTypeOK, DownloadTypes, R!RequestBudget, HandshakeTypesOK
  DEF TypeInv, TypeOK, ApprovalInv, QaInv
<1>. QED BY <1>1, <1>2, <1>3, PTL DEF Spec

=============================================================================
