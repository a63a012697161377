----------------------------- MODULE MCStarvation ----------------------------
(* Two sessions that keep coming back with one request waiting behind the    *)
(* one at work, and the single request of a third, which shares the tab of   *)
(* the first.  No deadline passes, nothing is cancelled.                     *)
EXTENDS FairScheduler

CONSTANTS s1, s2, s3, t1, t2, a1, a2, b1, b2, c1

MCSession == {s1, s2, s3}
MCTab == {t1, t2}
MCOp == {a1, a2, b1, b2, c1}

SessionOf(op) == IF op \in {a1, a2} THEN s1 ELSE IF op = c1 THEN s3 ELSE s2

MCCommand ==
  [op \in MCOp |-> [table |-> "tab", session |-> SessionOf(op), cleanQa |-> FALSE,
                    tab |-> IF SessionOf(op) = s2 THEN t2 ELSE t1]]

MCOptions == {[maxConcurrency |-> 2, maxQueuePerSession |-> 2, maxQueueTotal |-> 4]}

MCNext == \E op \in Op : Schedule(op) \/ Dispatch(op) \/ Complete(op) \/ Release(op)
MCSpec == Init /\ [][MCNext]_vars /\ Fairness

(* "Each session has a FIFO queue, and round-robin dispatch prevents a       *)
(* flooded session from starving a sparse one." (docs/architecture.md:56-57) *)
(* The ring of session keys lets it happen: a key whose queue ran empty is   *)
(* added again at the end of the list, and once the index is past the key of *)
(* the sparse session, because it was blocked when its turn came, the two    *)
(* others come back behind the index in turn and it never wraps.             *)
SparseSessionServed == sched.phase[c1] = "queued" ~> sched.phase[c1] # "queued"
=============================================================================
