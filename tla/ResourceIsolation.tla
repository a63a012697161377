-------------------------- MODULE ResourceIsolation --------------------------
(* What both concurrency controls of TabWard promise, without saying how:    *)
(* the broker's FairScheduler and the extension's resource gate admit work,  *)
(* keep it waiting and let it run, and whatever runs at the same time is     *)
(* isolated.  docs/architecture.md states the contract: exclusive work runs  *)
(* alone, a session runs one command at a time, and commands on the same tab *)
(* serialize.                                                                *)
CONSTANTS Op,             \* the operations
          Exclusive,      \* those that must run alone
          Claim           \* what each one holds while it runs: session and tab

VARIABLES waiting,        \* admitted, not running
          running         \* holding their claims

vars == <<waiting, running>>

Compatible(a, b) ==
  /\ a \notin Exclusive
  /\ b \notin Exclusive
  /\ Claim[a] \cap Claim[b] = {}

Isolated(ops) == \A a, b \in ops : a # b => Compatible(a, b)

Init == waiting = {} /\ running = {}

(* Every event ends by letting some of the waiting operations run: w and r   *)
(* are what waits and runs after the event itself.                           *)
Grant(w, r) ==
  \E granted \in SUBSET w :
    /\ Isolated(r \cup granted)
    /\ waiting' = w \ granted
    /\ running' = r \cup granted

Arrive(op) ==
  /\ op \notin waiting \cup running
  /\ Grant(waiting \cup {op}, running)

(* Cancelled or expired before it ran. *)
Withdraw(op) ==
  /\ op \in waiting
  /\ Grant(waiting \ {op}, running)

Finish(op) ==
  /\ op \in running
  /\ Grant(waiting, running \ {op})

(* All the waiting work is dropped at once; what runs is not preempted. *)
Shutdown == waiting' = {} /\ UNCHANGED running

Next ==
  \/ \E op \in Op : Arrive(op) \/ Withdraw(op) \/ Finish(op)
  \/ Shutdown

Spec == Init /\ [][Next]_vars
=============================================================================
