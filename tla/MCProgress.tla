----------------------------- MODULE MCProgress -----------------------------
(* The scheduler, whatever becomes of six operations, and what must happen   *)
(* in the end: to operations that keep coming back, and to the handshake of  *)
(* two profiles that pair and reconnect.  Scheduler and handshake share      *)
(* nothing; a behaviour is one of either.                                    *)
EXTENDS FairScheduler

CONSTANTS s1, s2, s3, t1, a1, a2, a3, b1, c1, g1, g2, g3, h1,
          p1, p2, k1, k2, k3, d1, d2, None

MCSession == {s1, s2, s3}
MCTab == {t1}
MCOp == {a1, a2, a3, b1, c1, g1, g2, g3, h1}

Asks(table, s, t, cleanQa) == [table |-> table, session |-> s, tab |-> t, cleanQa |-> cleanQa]

(* Work of three sessions, all on one tab but for a2, and exclusive work of  *)
(* the first and of none.                                                    *)
CommandOf(op) ==
  CASE op \in {a1, a3} -> Asks("tab", s1, t1, FALSE)
    [] op = a2 -> Asks("session", s1, NoTab, FALSE)
    [] op = b1 -> Asks("tab", s2, t1, FALSE)
    [] op = c1 -> Asks("tab", s3, t1, FALSE)
    [] op \in {g1, g3} -> Asks("exclusive", s1, NoTab, FALSE)
    [] op = g2 -> Asks("tab", s1, t1, TRUE)
    [] op = h1 -> Asks("exclusive", NoSession, NoTab, FALSE)

MCCommand == [op \in MCOp |-> CommandOf(op)]

MCOptions ==
  {[maxConcurrency |-> n, maxQueuePerSession |-> 3, maxQueueTotal |-> 3] : n \in {1, 2}}

VARIABLES part, watched, stored, ext, srv, wire, current, token, file, temporary, code, fresh,
          attempts, lock, guesses, faults

H == INSTANCE Handshake WITH
  Profile <- {p1, p2}, Token <- {k1, k2, k3}, Code <- {d1, d2},
  MaxPairingAttempts <- 1, MaxFaults <- 1

ASSUME MCAssumption == H!HandshakeAssumption

handshakeVars == <<stored, ext, srv, wire, current, token, file, temporary, code, fresh,
                   attempts, lock, guesses, faults>>

(* The operations that are asked for.  Six of two sessions that share a tab  *)
(* and of none, to see all of the scheduler.  To follow what keeps coming    *)
(* back, three of one origin, or of one session: enough to keep its queue    *)
(* from ever being empty.  With more than one operation at a time the        *)
(* rotation is fair between two keys and no more (MCStarvation), so there    *)
(* are two origins, or two sessions that share a tab; with one at a time     *)
(* there are three sessions.                                                 *)
Asked ==
  IF part = "scheduler" THEN {a1, a2, b1, g1, g2, h1}
  ELSE IF part = "exclusive" THEN {b1, g1, g2, g3, h1}
  ELSE IF part = "handshake" THEN {}
  ELSE IF sched.options.maxConcurrency = 1 THEN {a1, b1, c1, g1}
  ELSE {a1, a2, a3, b1, h1}

(* One operation is watched in each behaviour that is followed: to look at   *)
(* one at a time is what all of them leave the queue means, and one          *)
(* property instead of several is quicker to check.  What holds of a1, b1    *)
(* and g1 holds of a3, c1 and g3, which differ from them in name only.       *)
MCInit ==
  /\ Init /\ H!Init
  /\ part \in {"scheduler", "exclusive", "sessions", "handshake"}
  /\ part = "exclusive" => sched.options.maxConcurrency = 2
  /\ part = "handshake" => sched.options.maxConcurrency = 1
  /\ watched \in (IF part \in {"scheduler", "handshake"} THEN {None} ELSE Asked \ {a3, c1, g3})

SchedulerNext ==
  /\ Next
  /\ InPhase(sched, {"idle"})' \cup Asked = Op

MCNext ==
  /\ UNCHANGED <<part, watched>>
  /\ \/ part # "handshake" /\ SchedulerNext /\ UNCHANGED handshakeVars
     \/ part = "handshake" /\ H!Next /\ UNCHANGED vars

(* The fairness of each component, where it is followed.                     *)
MCFairness ==
  /\ \A op \in Op :
       /\ WF_vars(op \in Asked /\ watched # None /\ Expire(op))
       /\ WF_vars(op \in Asked /\ watched # None /\ Dispatch(op))
       /\ WF_vars(op \in Asked /\ watched # None /\ Complete(op))
       /\ WF_vars(op \in Asked /\ watched # None /\ Release(op))
  /\ \A p \in {p1, p2} :
       /\ WF_handshakeVars(part = "handshake" /\ H!connectTransport(p))
       /\ WF_handshakeVars(part = "handshake" /\ H!Opened(p))
       /\ WF_handshakeVars(part = "handshake" /\ H!handleTransportMessage(p))
       /\ WF_handshakeVars(part = "handshake" /\ H!authenticate(p))
       /\ WF_handshakeVars(part = "handshake" /\ H!HandshakeTimeout(p))

MCSpec == MCInit /\ [][MCNext]_<<part, watched, vars, handshakeVars>> /\ MCFairness

(* What is admitted leaves the queue without help of its deadline, however   *)
(* often the others come back: with one operation at a time for any number   *)
(* of sessions, with several at a time for two keys of one lane, and also    *)
(* when the two sessions use one tab and exclusive work stands between them. *)
WatchedLeavesQueue ==
  (watched # None /\ sched.phase[watched] = "queued") ~> (watched # None /\ sched.phase[watched] # "queued")

(* A paired profile is connected again from whatever phase its handshake is  *)
(* in; the two profiles are alike, so that what holds of one holds of both.  *)
PairedReconnects == H!Reconnects(p1)
=============================================================================
