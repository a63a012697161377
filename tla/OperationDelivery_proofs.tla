------------------------ MODULE OperationDelivery_proofs ------------------------
(* Whatever is lost, repeated or restarted, an operation is run at most once *)
(* and its caller is told truly, for any number of operations, limits and    *)
(* faults.  The argument follows one operation: a command exists in one      *)
(* place at a time on its way into the browser, and what comes back exists   *)
(* in many places that agree.                                                *)
EXTENDS OperationDelivery, SequenceTheorems, FiniteSetTheorems, WellFoundedInduction, TLAPS

Ledger == [state : [Op -> Outcome \cup {"none", "running"}], age : Seq(Op), evicted : SUBSET Op]

Types ==
  /\ client \in [Op -> Clients]
  /\ http \in [Op -> Https]
  /\ late \subseteq Op
  /\ ledger \in Ledger
  /\ bridge \in [Op -> {"none", "queued"} \cup Pending]
  /\ confirmed \in [Op -> Outcome \cup {"none"}]
  /\ socket \in Sockets
  /\ toExt \subseteq {"command", "cancel", "ack", "backpressure"} \X Op
  /\ toBroker \subseteq Op \X Outcome
  /\ extUp \in BOOLEAN /\ (extUp => socket = "current")
  /\ outbox \in [Op -> Outcome \cup {"none", "reserved"}]
  /\ exec \in [Op -> {"none", "waiting", "running"}]
  /\ aborted \subseteq {op \in Op : exec[op] # "none"}
  /\ dispatches \in [Op -> Nat]
  /\ acked \subseteq Op
  /\ faults \in 0..MaxFaults

-----------------------------------------------------------------------------
(* What holds of every operation.                                            *)

(* The client waits for an answer exactly as long as its HTTP request lives. *)
AsksOverHttp(op) ==
  /\ http[op] # "none" <=> client[op] \in {"asking", "again"}
  /\ client[op] = "idle" => ledger.state[op] = "none" /\ bridge[op] = "none"

(* Until a result has been taken over, the outbox remembers the dispatch.    *)
(* "lost" is an outcome of the broker only.                                  *)
OutboxRemembers(op) ==
  /\ outbox[op] # "lost"
  /\ exec[op] # "none" /\ op \notin acked => outbox[op] = "reserved"
  /\ exec[op] = "waiting" /\ op \notin acked => dispatches[op] = 0
  /\ op \notin acked => dispatches[op] <= 1
  /\ outbox[op] = "none" /\ op \notin acked => dispatches[op] = 0

-----------------------------------------------------------------------------
(* What holds of an operation that is not asked again of another broker and  *)
(* that the ledger has not forgotten.                                        *)

Tracked(op) == op \notin ReadOnly \cup ledger.evicted

Early == {"queued", "buffered", "stranded"}

InFlight(op) == <<"command", op>> \in toExt
Acknowledged(op) == <<"ack", op>> \in toExt
Reported(op, x) == <<op, x>> \in toBroker

(* The extension has not seen the operation, nor the broker anything of it.  *)
Unreached(op) ==
  /\ exec[op] = "none" /\ dispatches[op] = 0
  /\ outbox[op] = "none" /\ confirmed[op] = "none"
  /\ ~Acknowledged(op) /\ \A x \in Outcome : ~Reported(op, x)

(* The command is in one place at a time on its way into the browser: not    *)
(* yet admitted, with the bridge, in flight, reserved.                       *)
OnePlace(op) ==
  /\ client[op] \in {"idle", "asking", "broken", "again"} /\ ledger.state[op] = "none" =>
       bridge[op] = "none" /\ ~InFlight(op) /\ Unreached(op)
  /\ client[op] \notin {"asking", "again"} => http[op] # "sent"
  /\ bridge[op] \in Early => ~InFlight(op) /\ Unreached(op)
  /\ InFlight(op) => Unreached(op)
  /\ outbox[op] = "reserved" => ~Acknowledged(op) /\ \A x \in Outcome : ~Reported(op, x)
  /\ exec[op] # "none" => outbox[op] = "reserved"
  /\ exec[op] = "waiting" => dispatches[op] = 0
  /\ exec[op] = "running" => dispatches[op] = 1
  /\ dispatches[op] <= 1

(* Somebody holds x as the answer.                                           *)
Holds(op, x) ==
  \/ x \in {client[op], http[op], ledger.state[op], confirmed[op], outbox[op]}
  \/ Reported(op, x)

(* What is held as the answer is true of the browser, and stays so.          *)
Truthful(op) ==
  /\ Holds(op, "not_started") =>
       /\ dispatches[op] = 0 /\ exec[op] = "none"
       /\ ~InFlight(op) /\ bridge[op] \notin Early
  /\ Holds(op, "done") => dispatches[op] = 1

(* What the extension reports is what it keeps, and it is told to drop what  *)
(* the broker holds.                                                         *)
Retained(op) ==
  /\ \A x \in Outcome : Reported(op, x) => outbox[op] \in {x, "none"}
  /\ Acknowledged(op) =>
       /\ bridge[op] = "none"
       /\ outbox[op] \in {"none", ledger.state[op], confirmed[op]}

OpInv(op) ==
  /\ AsksOverHttp(op) /\ OutboxRemembers(op)
  /\ Tracked(op) => OnePlace(op) /\ Truthful(op) /\ Retained(op)

IInv == Types /\ \A op \in Op : OpInv(op)

-----------------------------------------------------------------------------
(* The ledger.                                                               *)

(* Removing an index from a sequence.                                        *)
LEMMA RemoveAtProperties ==
  ASSUME NEW S, NEW list \in Seq(S), NEW i \in 1..Len(list)
  PROVE  /\ RemoveAt(list, i) \in Seq(S)
         /\ Len(RemoveAt(list, i)) = Len(list) - 1
         /\ \A j \in 1..(Len(list) - 1) :
              RemoveAt(list, i)[j] = IF j < i THEN list[j] ELSE list[j + 1]
<1> DEFINE before == SubSeq(list, 1, i - 1)
           after == SubSeq(list, i + 1, Len(list))
<1>1. /\ before \in Seq(S)
      /\ Len(before) = i - 1
      /\ \A j \in 1..(i - 1) : before[j] = list[j]
  <2>1. \A j \in 1..(i - 1) : list[j] \in S
    BY ElementOfSeq
  <2>2. QED
    BY <2>1, SubSeqProperties
<1>2. /\ after \in Seq(S)
      /\ Len(after) = Len(list) - i
      /\ \A j \in 1..(Len(list) - i) : after[j] = list[i + j]
  <2>1. \A j \in (i + 1)..Len(list) : list[j] \in S
    BY ElementOfSeq
  <2>2. /\ after \in Seq(S)
        /\ Len(after) = IF i + 1 <= Len(list) THEN Len(list) - (i + 1) + 1 ELSE 0
        /\ \A j \in 1..(Len(list) - (i + 1) + 1) : after[j] = list[i + 1 + j - 1]
    BY <2>1, SubSeqProperties
  <2>3. QED
    BY <2>2
<1>3. RemoveAt(list, i) = before \o after
  BY DEF RemoveAt
<1> HIDE DEF before, after
<1>4. /\ before \o after \in Seq(S)
      /\ Len(before \o after) = Len(before) + Len(after)
      /\ \A j \in 1..(Len(before) + Len(after)) :
           (before \o after)[j] = IF j <= Len(before) THEN before[j] ELSE after[j - Len(before)]
  BY <1>1, <1>2, ConcatProperties
<1>5. Len(list) \in Nat /\ i \in Nat
  BY LenProperties
<1>6. ASSUME NEW j \in 1..(Len(list) - 1)
      PROVE  (before \o after)[j] = IF j < i THEN list[j] ELSE list[j + 1]
  <2>1. CASE j < i
    BY <2>1, <1>1, <1>2, <1>4, <1>5
  <2>2. CASE j >= i
    <3>1. (before \o after)[j] = after[j - (i - 1)]
      BY <2>2, <1>1, <1>2, <1>4, <1>5
    <3>2. j - (i - 1) \in 1..(Len(list) - i) /\ i + (j - (i - 1)) = j + 1
      BY <2>2, <1>5
    <3>3. QED
      BY <2>2, <3>1, <3>2, <1>2, <1>5
  <2>3. j < i \/ j >= i
    BY <1>5
  <2>4. QED
    BY <2>1, <2>2, <2>3
<1>7. QED
  BY <1>1, <1>2, <1>3, <1>4, <1>5, <1>6

(* There is an oldest settled record, if there is one.                       *)
LEMMA OldestSettled ==
  ASSUME NEW l \in Ledger, SettledPositions(l) # {}
  PROVE  \E i \in SettledPositions(l) : \A j \in SettledPositions(l) : i <= j
<1>1. SettledPositions(l) \subseteq Nat
  <2>1. DOMAIN l.age = 1..Len(l.age) /\ Len(l.age) \in Nat
    BY LenProperties DEF Ledger
  <2>. QED BY <2>1 DEF SettledPositions
<1>2. PICK i \in SettledPositions(l) :
        \A j \in SettledPositions(l) : ~(<<j, i>> \in OpToRel(<, Nat))
  BY <1>1, NatLessThanWellFounded, WFMin
<1>3. ASSUME NEW j \in SettledPositions(l) PROVE i <= j
  <2>1. ~(j < i)
    BY <1>1, <1>2 DEF OpToRel
  <2>. QED BY <1>1, <2>1
<1>. QED BY <1>3

(* An eviction takes a settled record away, or nothing.                      *)
LEMMA EvictProperties ==
  ASSUME NEW l \in Ledger
  PROVE  LET e == evictSettled(l)
         IN \/ e = l
            \/ \E i \in SettledPositions(l) : e = Evict(l, i)
<1>1. CASE Len(l.age) < MaxRequests \/ SettledPositions(l) = {}
  BY <1>1 DEF evictSettled
<1>2. CASE ~(Len(l.age) < MaxRequests \/ SettledPositions(l) = {})
  <2>1. (CHOOSE i \in SettledPositions(l) : \A j \in SettledPositions(l) : i <= j)
          \in SettledPositions(l)
    BY <1>2, OldestSettled
  <2>. QED BY <1>2, <2>1 DEF evictSettled
<1>. QED BY <1>1, <1>2

(* What a step of the ledger leaves as it was, but for what it forgets.      *)
Forgets(l, e) ==
  /\ e \in Ledger /\ l.evicted \subseteq e.evicted
  /\ \A o \in Op : /\ e.state[o] \in {l.state[o], "none"}
                   /\ o \notin e.evicted => e.state[o] = l.state[o]

LEMMA EvictForgets ==
  ASSUME NEW l \in Ledger
  PROVE  Forgets(l, evictSettled(l))
<1>1. CASE evictSettled(l) = l
  BY <1>1 DEF Forgets
<1>2. ASSUME NEW i \in SettledPositions(l), evictSettled(l) = Evict(l, i)
      PROVE  Forgets(l, evictSettled(l))
  <2>1. /\ i \in 1..Len(l.age) /\ l.age \in Seq(Op) /\ l.age[i] \in Op
    BY LenProperties, ElementOfSeq DEF SettledPositions, Ledger
  <2>2. RemoveAt(l.age, i) \in Seq(Op)
    BY <2>1, RemoveAtProperties
  <2>3. PICK e : e = Evict(l, i)
    OBVIOUS
  <2>4. /\ e.state = [l.state EXCEPT ![l.age[i]] = "none"]
        /\ e.age = RemoveAt(l.age, i)
        /\ e.evicted = l.evicted \cup {l.age[i]}
        /\ e = [state |-> e.state, age |-> e.age, evicted |-> e.evicted]
    BY <2>3 DEF Evict, removeRequest
  <2>5. e \in Ledger
    BY <2>1, <2>2, <2>4 DEF Ledger
  <2>. QED BY <1>2, <2>1, <2>3, <2>4, <2>5 DEF Forgets, Ledger
<1>. QED BY <1>1, <1>2, EvictProperties

LEMMA SettleForgets ==
  ASSUME NEW l \in Ledger, NEW ops, NEW x \in Outcome
  PROVE  LET e == settle(l, ops, x)
         IN /\ e \in Ledger /\ l.evicted \subseteq e.evicted
            /\ \A o \in Op :
                 /\ e.state[o] \in {IF o \in ops THEN x ELSE l.state[o], "none"}
                 /\ o \notin e.evicted => e.state[o] = IF o \in ops THEN x ELSE l.state[o]
<1>1. PICK m : m = [l EXCEPT !.state = [op \in Op |-> IF op \in ops THEN x ELSE l.state[op]]]
  OBVIOUS
<1>2. /\ m \in Ledger /\ m.evicted = l.evicted
      /\ \A o \in Op : m.state[o] = IF o \in ops THEN x ELSE l.state[o]
  BY <1>1 DEF Ledger
<1>3. settle(l, ops, x) = evictSettled(m)
  BY <1>1 DEF settle
<1>. QED BY <1>2, <1>3, EvictForgets DEF Forgets

LEMMA InsertProperties ==
  ASSUME NEW l \in Ledger, NEW op \in Op, NEW x \in Outcome \cup {"running"}
  PROVE  LET e == insert(l, op, x)
         IN /\ e \in Ledger /\ e.evicted = l.evicted
            /\ e.state = [l.state EXCEPT ![op] = x] /\ e.age = Append(l.age, op)
<1>1. PICK e : e = insert(l, op, x)
  OBVIOUS
<1>2. /\ e.state = [l.state EXCEPT ![op] = x] /\ e.age = Append(l.age, op)
      /\ e.evicted = l.evicted
      /\ e = [state |-> e.state, age |-> e.age, evicted |-> e.evicted]
  BY <1>1 DEF insert, Ledger
<1>3. Append(l.age, op) \in Seq(Op)
  BY AppendProperties DEF Ledger
<1>. QED BY <1>1, <1>2, <1>3 DEF Ledger

-----------------------------------------------------------------------------
(* A step that is none of the operation's own: its reservation may become an *)
(* unknown result, its frames may be lost, its record forgotten, its result  *)
(* replayed.                                                                 *)
Quiet(o) ==
  /\ client'[o] = client[o] /\ http'[o] = http[o]
  /\ ledger.evicted \subseteq ledger'.evicted
  /\ ledger'.state[o] \in {ledger.state[o], "none"}
  /\ o \notin ledger'.evicted => ledger'.state[o] = ledger.state[o]
  /\ \/ bridge'[o] = bridge[o]
     \/ bridge[o] = "buffered" /\ bridge'[o] = "stranded"
  /\ confirmed'[o] = confirmed[o]
  /\ exec'[o] \in {exec[o], "none"}
  /\ dispatches'[o] = dispatches[o] /\ (o \in acked' <=> o \in acked)
  /\ \/ outbox'[o] = outbox[o]
     \/ outbox[o] = "reserved" /\ outbox'[o] = "unknown" /\ exec'[o] = "none"
  /\ InFlight(o)' => InFlight(o)
  /\ Acknowledged(o)' => Acknowledged(o)
  /\ \A x \in Outcome : Reported(o, x)' => Reported(o, x) \/ outbox'[o] = x

LEMMA QuietKeeps ==
  ASSUME Types, NEW o \in Op, OpInv(o), Quiet(o)
  PROVE  OpInv(o)'
<1>. USE DEF Outcome
<1>1. AsksOverHttp(o)'
  BY DEF OpInv, AsksOverHttp, Quiet
<1>2. OutboxRemembers(o)'
  BY DEF OpInv, OutboxRemembers, Quiet
<1>3. ASSUME Tracked(o)' PROVE Tracked(o)
  BY <1>3 DEF Tracked, Quiet
<1>4. ASSUME Tracked(o)' PROVE OnePlace(o)'
  <2>1. OnePlace(o) /\ ledger'.state[o] = ledger.state[o]
    BY <1>3, <1>4 DEF OpInv, Tracked, Quiet
  <2>2. ASSUME Unreached(o) PROVE Unreached(o)'
    BY <2>2 DEF Unreached, Quiet
  <2>. QED BY <2>1, <2>2 DEF OnePlace, Quiet, Early, Unreached
<1>5. ASSUME Tracked(o)' PROVE Truthful(o)'
  <2>1. /\ OnePlace(o) /\ Truthful(o) /\ ledger'.state[o] = ledger.state[o]
    BY <1>3, <1>5 DEF OpInv, Tracked, Quiet
  <2>2. ASSUME NEW x \in {"not_started", "done"}, Holds(o, x)' PROVE Holds(o, x)
    BY <2>2 DEF Holds, Quiet
  <2>. QED BY <2>1, <2>2 DEF Truthful, OnePlace, Quiet, Early
<1>6. ASSUME Tracked(o)' PROVE Retained(o)'
  <2>1. /\ OnePlace(o) /\ Retained(o) /\ ledger'.state[o] = ledger.state[o]
    BY <1>3, <1>6 DEF OpInv, Tracked, Quiet
  <2>. QED BY <2>1 DEF Retained, OnePlace, Quiet
<1>. QED BY <1>1, <1>2, <1>4, <1>5, <1>6 DEF OpInv

(* A step of one operation.                                                  *)
LEMMA OwnStep ==
  ASSUME IInv, NEW op \in Op, Types', OpInv(op)', \A o \in Op \ {op} : Quiet(o)
  PROVE  IInv'
BY QuietKeeps DEF IInv

LEMMA QuietStep ==
  ASSUME IInv, Types', \A o \in Op : Quiet(o)
  PROVE  IInv'
BY QuietKeeps DEF IInv

-----------------------------------------------------------------------------
(* The client.                                                               *)

LEMMA AskKeeps ==
  ASSUME IInv, NEW op \in Op, Ask(op)
  PROVE  IInv'
<1>. USE DEF Ask, brokerVars, wireVars, extVars, IInv
<1>1. Types'
  BY DEF Types, Clients, Https
<1>2. ASSUME NEW o \in Op \ {op} PROVE Quiet(o)
  BY <1>2 DEF Quiet, Types, InFlight, Acknowledged, Reported
<1>3. OpInv(op)'
  BY DEF OpInv, Types, AsksOverHttp, OutboxRemembers, Tracked, OnePlace, Unreached, InFlight,
         Acknowledged, Reported, Truthful, Holds, Retained, Outcome, Early
<1>. QED BY <1>1, <1>2, <1>3, OwnStep

LEMMA DeadlineKeeps ==
  ASSUME IInv, NEW op \in Op, DeadlinePasses(op)
  PROVE  IInv'
<1>. USE DEF DeadlinePasses, brokerVars, wireVars, extVars, IInv
<1>1. Types'
  BY DEF Types
<1>2. ASSUME NEW o \in Op \ {op} PROVE Quiet(o)
  BY <1>2 DEF Quiet, Types, InFlight, Acknowledged, Reported
<1>3. OpInv(op)'
  BY DEF OpInv, Types, AsksOverHttp, OutboxRemembers, Tracked, OnePlace, Unreached, InFlight,
         Acknowledged, Reported, Truthful, Holds, Retained, Outcome, Early
<1>. QED BY <1>1, <1>2, <1>3, OwnStep

LEMMA ReplyKeeps ==
  ASSUME IInv, NEW op \in Op, Reply(op)
  PROVE  IInv'
<1>. USE DEF Reply, brokerVars, wireVars, extVars, IInv
<1>1. Types'
  BY DEF Types, Clients, Https, Answered, Outcome
<1>2. ASSUME NEW o \in Op \ {op} PROVE Quiet(o)
  BY <1>2 DEF Quiet, Types, InFlight, Acknowledged, Reported
<1>3. OpInv(op)'
  BY DEF OpInv, Types, AsksOverHttp, OutboxRemembers, Tracked, OnePlace, Unreached, InFlight,
         Acknowledged, Reported, Truthful, Holds, Retained, Outcome, Early
<1>. QED BY <1>1, <1>2, <1>3, OwnStep

LEMMA HttpDropKeeps ==
  ASSUME IInv, NEW op \in Op, HttpDrop(op)
  PROVE  IInv'
<1>. USE DEF HttpDrop, Fault, brokerVars, wireVars, extVars, IInv
<1>1. Types'
  BY DeliveryAssumption DEF Types, Clients, Https, Answered
<1>2. ASSUME NEW o \in Op \ {op} PROVE Quiet(o)
  BY <1>2 DEF Quiet, Types, InFlight, Acknowledged, Reported
<1>3. OpInv(op)'
  BY DEF OpInv, Types, AsksOverHttp, OutboxRemembers, Tracked, OnePlace, Unreached, InFlight,
         Acknowledged, Reported, Truthful, Holds, Retained, Outcome, Early, Clients, Https
<1>. QED BY <1>1, <1>2, <1>3, OwnStep

LEMMA RetryKeeps ==
  ASSUME IInv, NEW op \in Op, Retry(op)
  PROVE  IInv'
<1>. USE DEF Retry, brokerVars, wireVars, extVars, IInv
<1>1. Types'
  BY DEF Types, Clients, Https, Answered, Outcome
<1>2. ASSUME NEW o \in Op \ {op} PROVE Quiet(o)
  BY <1>2 DEF Quiet, Types, InFlight, Acknowledged, Reported
<1>3. OpInv(op)'
  <2>1. AsksOverHttp(op)' /\ OutboxRemembers(op)'
    BY DEF OpInv, Types, AsksOverHttp, OutboxRemembers
  <2>2. ASSUME Tracked(op)' PROVE OnePlace(op)'
    BY <2>2 DEF OpInv, Types, Tracked, OnePlace, Unreached, InFlight, Acknowledged, Reported
  <2>3. ASSUME Tracked(op)' PROVE Truthful(op)' /\ Retained(op)'
    BY <2>3 DEF OpInv, Types, Tracked, Truthful, Holds, Retained, InFlight,
         Acknowledged, Reported
  <2>. QED BY <2>1, <2>2, <2>3 DEF OpInv
<1>. QED BY <1>1, <1>2, <1>3, OwnStep

LEMMA AskNewBrokerKeeps ==
  ASSUME IInv, NEW op \in Op, AskNewBroker(op)
  PROVE  IInv'
<1>. USE DEF AskNewBroker, brokerVars, wireVars, extVars, IInv
<1>1. Types'
  BY DEF Types, Clients, Https, Answered, Outcome
<1>2. ASSUME NEW o \in Op \ {op} PROVE Quiet(o)
  BY <1>2 DEF Quiet, Types, InFlight, Acknowledged, Reported
<1>3. OpInv(op)'
  <2>1. AsksOverHttp(op)' /\ OutboxRemembers(op)'
    BY DEF OpInv, Types, AsksOverHttp, OutboxRemembers
  <2>2. CASE op \in ReadOnly
    BY <2>1, <2>2 DEF OpInv, Tracked
  <2>3. CASE op \notin ReadOnly
    <3>1. client' = [client EXCEPT ![op] = "unknown"] /\ http' = http
      BY <2>3
    <3>2. ASSUME Tracked(op)' PROVE OnePlace(op)'
      BY <3>1, <3>2 DEF OpInv, Types, AsksOverHttp, Tracked, OnePlace, Unreached, InFlight,
         Acknowledged, Reported
    <3>3. ASSUME Tracked(op)' PROVE Truthful(op)' /\ Retained(op)'
      BY <3>1, <3>3 DEF OpInv, Types, Tracked, Truthful, Holds, Retained, InFlight,
         Acknowledged, Reported
    <3>. QED BY <2>1, <3>2, <3>3 DEF OpInv
  <2>. QED BY <2>2, <2>3
<1>. QED BY <1>1, <1>2, <1>3, OwnStep


-----------------------------------------------------------------------------
(* The broker answers by itself: not started as long as the command is in    *)
(* its hands, lost after that.                                               *)
LEMMA SettleKeeps ==
  ASSUME IInv, NEW op \in Op, NEW x \in {"not_started", "lost"},
         bridge[op] # "none", x = "not_started" => bridge[op] \in Early, Settle(op, x),
         UNCHANGED <<client, late, confirmed, wireVars, extVars, faults>>
  PROVE  IInv'
<1>. USE DEF brokerVars, wireVars, extVars, Early, IInv
<1>0. /\ ledger' \in Ledger /\ ledger.evicted \subseteq ledger'.evicted
      /\ \A o \in Op :
           /\ ledger'.state[o] \in {IF o = op THEN x ELSE ledger.state[o], "none"}
           /\ o \notin ledger'.evicted => ledger'.state[o] = IF o = op THEN x ELSE ledger.state[o]
  BY SettleForgets DEF Settle, Types, Outcome
<1>00. /\ bridge' = [bridge EXCEPT ![op] = "none"]
      /\ http' = [o \in Op |-> IF o = op /\ http[o] = "joined" THEN x ELSE http[o]]
  BY DEF Settle, answered
<1>1. Types'
  BY <1>0, <1>00 DEF Types, Https, Outcome, Pending
<1>2. ASSUME NEW o \in Op \ {op} PROVE Quiet(o)
  BY <1>0, <1>00, <1>2 DEF Quiet, Types, InFlight, Acknowledged, Reported
<1>3. OpInv(op)'
  <2>1. AsksOverHttp(op)' /\ OutboxRemembers(op)'
    BY <1>0, <1>00 DEF OpInv, Types, AsksOverHttp, OutboxRemembers
  <2>2. ASSUME Tracked(op)' PROVE OnePlace(op)'
    BY <1>0, <1>00, <2>2 DEF OpInv, Types, AsksOverHttp, Tracked, OnePlace, Unreached, InFlight,
         Acknowledged, Reported
  <2>3. ASSUME Tracked(op)' PROVE Truthful(op)'
    BY <1>0, <1>00, <2>3 DEF OpInv, Types, AsksOverHttp, Tracked, OnePlace, Unreached, Truthful, Holds,
         InFlight, Acknowledged, Reported, Outcome
  <2>4. ASSUME Tracked(op)' PROVE Retained(op)'
    BY <1>0, <1>00, <2>4 DEF OpInv, Types, AsksOverHttp, Tracked, OnePlace, Unreached, Retained, InFlight,
         Acknowledged, Reported, Outcome
  <2>. QED BY <2>1, <2>2, <2>3, <2>4 DEF OpInv
<1>. QED BY <1>1, <1>2, <1>3, OwnStep


LEMMA ExpireKeeps ==
  ASSUME IInv, NEW op \in Op, Expire(op)
  PROVE  IInv'
BY SettleKeeps DEF Expire, Early

LEMMA WriteFailsKeeps ==
  ASSUME IInv, NEW op \in Op, WriteFails(op)
  PROVE  IInv'
BY SettleKeeps DEF WriteFails

LEMMA PendingTimeoutKeeps ==
  ASSUME IInv, NEW op \in Op, PendingTimeout(op)
  PROVE  IInv'
BY SettleKeeps DEF PendingTimeout, Pending

LEMMA CancellingKeeps ==
  ASSUME IInv, NEW op \in Op, bridge[op] \in Pending, socket = "current", toExt' = toExt \cup {<<"cancel", op>>},
         UNCHANGED <<client, http, late, brokerVars, socket, toBroker, extUp, extVars, faults>>
  PROVE  IInv'
<1>. USE DEF brokerVars, extVars, IInv
<1>1. Types'
  BY DEF Types
<1>2. ASSUME NEW o \in Op \ {op} PROVE Quiet(o)
  BY <1>2 DEF Quiet, Types, InFlight, Acknowledged, Reported
<1>3. OpInv(op)'
  <2>1. AsksOverHttp(op)' /\ OutboxRemembers(op)'
    BY DEF OpInv, Types, AsksOverHttp, OutboxRemembers
  <2>2. ASSUME Tracked(op)' PROVE OnePlace(op)'
    BY <2>2 DEF OpInv, Types, AsksOverHttp, Tracked, OnePlace, Unreached, InFlight,
         Acknowledged, Reported
  <2>3. ASSUME Tracked(op)' PROVE Truthful(op)'
    BY <2>3 DEF OpInv, Types, AsksOverHttp, Tracked, OnePlace, Unreached, Truthful, Holds,
         InFlight, Acknowledged, Reported
  <2>4. ASSUME Tracked(op)' PROVE Retained(op)'
    BY <2>4 DEF OpInv, Types, AsksOverHttp, Tracked, OnePlace, Unreached, Retained, InFlight,
         Acknowledged, Reported
  <2>. QED BY <2>1, <2>2, <2>3, <2>4 DEF OpInv
<1>. QED BY <1>1, <1>2, <1>3, OwnStep

LEMMA CancelKeeps ==
  ASSUME IInv, NEW op \in Op, Cancel(op)
  PROVE  IInv'
<1>1. CASE bridge[op] = "queued" /\ Settle(op, "not_started") /\ UNCHANGED wireVars
  BY <1>1, SettleKeeps DEF Cancel, Early
<1>2. CASE /\ bridge[op] \in Pending /\ socket = "current"
           /\ toExt' = toExt \cup {<<"cancel", op>>}
           /\ UNCHANGED <<http, ledger, bridge, socket, toBroker, extUp>>
  BY <1>2, CancellingKeeps DEF Cancel, brokerVars
<1>. QED BY <1>1, <1>2 DEF Cancel

LEMMA BufferedKeeps ==
  ASSUME IInv, NEW op \in Op, bridge[op] = "queued", bridge' = [bridge EXCEPT ![op] = "buffered"],
         UNCHANGED <<client, http, late, ledger, confirmed, wireVars, extVars, faults>>
  PROVE  IInv'
<1>. USE DEF wireVars, extVars, Early, IInv
<1>1. Types'
  BY DEF Types, Pending
<1>2. ASSUME NEW o \in Op \ {op} PROVE Quiet(o)
  BY <1>2 DEF Quiet, Types, InFlight, Acknowledged, Reported
<1>3. OpInv(op)'
  <2>1. AsksOverHttp(op)' /\ OutboxRemembers(op)'
    BY DEF OpInv, Types, AsksOverHttp, OutboxRemembers
  <2>2. ASSUME Tracked(op)' PROVE OnePlace(op)'
    BY <2>2 DEF OpInv, Types, AsksOverHttp, Tracked, OnePlace, Unreached, InFlight,
         Acknowledged, Reported
  <2>3. ASSUME Tracked(op)' PROVE Truthful(op)'
    BY <2>3 DEF OpInv, Types, AsksOverHttp, Tracked, OnePlace, Unreached, Truthful, Holds,
         InFlight, Acknowledged, Reported
  <2>4. ASSUME Tracked(op)' PROVE Retained(op)'
    BY <2>4 DEF OpInv, Types, AsksOverHttp, Tracked, OnePlace, Unreached, Retained, InFlight,
         Acknowledged, Reported
  <2>. QED BY <2>1, <2>2, <2>3, <2>4 DEF OpInv
<1>. QED BY <1>1, <1>2, <1>3, OwnStep

LEMMA SendNowKeeps ==
  ASSUME IInv, NEW op \in Op, SendNow(op)
  PROVE  IInv'
<1>1. CASE socket = "none" \/ op \in late
  BY <1>1, SettleKeeps DEF SendNow, Early
<1>2. CASE ~(socket = "none" \/ op \in late)
  BY <1>2, BufferedKeeps DEF SendNow
<1>. QED BY <1>1, <1>2

LEMMA WriteKeeps ==
  ASSUME IInv, NEW op \in Op, Write(op)
  PROVE  IInv'
<1>. USE DEF Write, extVars, Early, IInv
<1>1. Types'
  BY DEF Types, Pending
<1>2. ASSUME NEW o \in Op \ {op} PROVE Quiet(o)
  BY <1>2 DEF Quiet, Types, InFlight, Acknowledged, Reported
<1>3. OpInv(op)'
  <2>1. AsksOverHttp(op)' /\ OutboxRemembers(op)'
    BY DEF OpInv, Types, AsksOverHttp, OutboxRemembers
  <2>2. ASSUME Tracked(op)' PROVE OnePlace(op)'
    BY <2>2 DEF OpInv, Types, AsksOverHttp, Tracked, OnePlace, Unreached, InFlight,
         Acknowledged, Reported
  <2>3. ASSUME Tracked(op)' PROVE Truthful(op)'
    BY <2>3 DEF OpInv, Types, AsksOverHttp, Tracked, OnePlace, Unreached, Truthful, Holds,
         InFlight, Acknowledged, Reported
  <2>4. ASSUME Tracked(op)' PROVE Retained(op)'
    BY <2>4 DEF OpInv, Types, AsksOverHttp, Tracked, OnePlace, Unreached, Retained, InFlight,
         Acknowledged, Reported
  <2>. QED BY <2>1, <2>2, <2>3, <2>4 DEF OpInv
<1>. QED BY <1>1, <1>2, <1>3, OwnStep


-----------------------------------------------------------------------------
(* A result comes back: to the record that waits for it, and among the       *)
(* confirmed results.                                                        *)
LEMMA AcceptKeeps ==
  ASSUME IInv, NEW op \in Op, NEW x \in Outcome, Accept(op, x),
         \/ confirmed' = confirmed
         \/ confirmed' = [confirmed EXCEPT ![op] = x]
         \/ confirmed' = [confirmed EXCEPT ![op] = "none"] /\ bridge[op] \in Pending,
         toExt' \subseteq toExt \cup {<<"ack", op>>, <<"backpressure", op>>},
         Acknowledged(op)' =>
           \/ Acknowledged(op) /\ confirmed' = confirmed
           \/ confirmed'[op] = x \/ bridge[op] \in Pending,
         toBroker' \subseteq toBroker,
         socket' \in Sockets, extUp' \in BOOLEAN, extUp' => socket' = "current",
         faults' \in 0..MaxFaults,
         UNCHANGED <<client, late, outbox, exec, aborted, dispatches, acked>>
  PROVE  IInv'
<1>. USE DEF brokerVars, extVars, Early, IInv
<1>0. /\ ledger' \in Ledger /\ ledger.evicted \subseteq ledger'.evicted
      /\ \A o \in Op :
           /\ ledger'.state[o] \in
                {IF o = op /\ bridge[op] \in Pending THEN x ELSE ledger.state[o], "none"}
           /\ o \notin ledger'.evicted =>
                ledger'.state[o] = IF o = op /\ bridge[op] \in Pending THEN x ELSE ledger.state[o]
  BY SettleForgets DEF Accept, Settle, Types
<1>a. /\ bridge' = IF bridge[op] \in Pending THEN [bridge EXCEPT ![op] = "none"] ELSE bridge
      /\ http' = [o \in Op |-> IF o = op /\ http[o] = "joined" /\ bridge[op] \in Pending
                               THEN x ELSE http[o]]
  BY DEF Accept, Settle, answered, Types
<1>b. Reported(op, x) /\ "none" \notin Pending
  BY DEF Accept, Reported, Pending
<1>1. Types'
  BY <1>0, <1>a, <1>b DEF Types, Https, Outcome
<1>2. ASSUME NEW o \in Op \ {op} PROVE Quiet(o)
  BY <1>0, <1>a, <1>b, <1>2 DEF Quiet, Types, InFlight, Acknowledged, Reported
<1>3. ASSUME Tracked(op)'
      PROVE  /\ OnePlace(op) /\ Truthful(op) /\ Retained(op)
             /\ bridge[op] \notin Early /\ ~InFlight(op) /\ exec[op] = "none"
             /\ outbox[op] \in {x, "none"}
             /\ ~(client[op] \in {"idle", "asking", "broken", "again"} /\ ledger.state[op] = "none")
             /\ ledger'.state[op] = IF bridge[op] \in Pending THEN x ELSE ledger.state[op]
  <2>1. OnePlace(op) /\ Truthful(op) /\ Retained(op)
    BY <1>0, <1>3 DEF OpInv, Tracked
  <2>2. ~Unreached(op) /\ outbox[op] \in {x, "none"}
    BY <1>b, <2>1 DEF Unreached, Retained
  <2>3. outbox[op] # "reserved"
    BY <1>b, <2>1 DEF OnePlace
  <2>. QED BY <1>0, <1>3, <2>1, <2>2, <2>3 DEF OnePlace, Tracked
<1>c. /\ client[op] = client'[op] /\ outbox[op] = outbox'[op] /\ exec[op] = exec'[op]
      /\ dispatches[op] = dispatches'[op] /\ (op \in acked <=> op \in acked')
      /\ InFlight(op)' => InFlight(op)
      /\ \A y \in Outcome : Reported(op, y)' => Reported(op, y)
      /\ bridge'[op] = IF bridge[op] \in Pending THEN "none" ELSE bridge[op]
      /\ http'[op] \in {http[op], x} /\ (http'[op] = "none" <=> http[op] = "none")
      /\ http'[op] = "sent" <=> http[op] = "sent"
  BY <1>a DEF Types, InFlight, Reported, Outcome
<1>d. confirmed'[op] \in {confirmed[op], x, "none"}
  BY DEF Types
<1>4. AsksOverHttp(op)' /\ OutboxRemembers(op)'
  <2>1. client[op] = "idle" => bridge[op] \notin Pending /\ ledger'.state[op] = "none"
    BY <1>0, <1>b DEF OpInv, AsksOverHttp
  <2>. QED BY <1>c, <2>1 DEF OpInv, AsksOverHttp, OutboxRemembers
<1>5. ASSUME Tracked(op)' PROVE OnePlace(op)'
  <2>1. bridge'[op] \notin Early /\ ~InFlight(op)'
    BY <1>3, <1>5, <1>c
  <2>2. ~(client'[op] \in {"idle", "asking", "broken", "again"} /\ ledger'.state[op] = "none")
    BY <1>3, <1>5, <1>c DEF Outcome
  <2>3. outbox'[op] # "reserved" /\ exec'[op] = "none" /\ dispatches'[op] <= 1
    BY <1>3, <1>5, <1>c DEF Outcome, OnePlace
  <2>4. client'[op] \notin {"asking", "again"} => http'[op] # "sent"
    BY <1>3, <1>5, <1>c DEF OnePlace
  <2>. QED BY <2>1, <2>2, <2>3, <2>4 DEF OnePlace
<1>6. ASSUME Tracked(op)' PROVE Truthful(op)'
  <2>1. ASSUME NEW y \in {"not_started", "done"}, Holds(op, y)' PROVE Holds(op, y)
    <3>1. Holds(op, x)
      BY <1>b DEF Holds
    <3>2. \/ y \in {client[op], http[op], x, ledger.state[op], confirmed[op], outbox[op]}
          \/ Reported(op, y)
      BY <1>3, <1>6, <1>c, <1>d, <2>1 DEF Holds, Outcome
    <3>. QED BY <3>1, <3>2 DEF Holds
  <2>2. bridge'[op] \notin Early /\ ~InFlight(op)'
    BY <1>3, <1>6, <1>c
  <2>. QED BY <1>3, <1>6, <1>c, <2>1, <2>2 DEF Truthful
<1>7. ASSUME Tracked(op)' PROVE Retained(op)'
  <2>1. ASSUME Acknowledged(op)'
        PROVE  bridge'[op] = "none" /\ outbox'[op] \in {"none", ledger'.state[op], confirmed'[op]}
    <3>1. CASE bridge[op] \in Pending
      BY <1>3, <1>7, <1>c, <3>1
    <3>2. CASE bridge[op] \notin Pending
      <4>1. bridge'[op] = "none"
        BY <1>3, <1>7, <1>c, <3>2 DEF Types, Pending
      <4>. QED BY <1>3, <1>7, <1>c, <2>1, <3>2, <4>1 DEF Retained
    <3>. QED BY <3>1, <3>2
  <2>. QED BY <1>3, <1>7, <1>c, <2>1 DEF Retained
<1>8. OpInv(op)'
  BY <1>4, <1>5, <1>6, <1>7 DEF OpInv
<1>. QED BY <1>1, <1>2, <1>8, OwnStep


LEMMA ReceiveResultKeeps ==
  ASSUME IInv, NEW op \in Op, NEW x \in Outcome, ReceiveResult(op, x)
  PROVE  IInv'
<1>. DEFINE frame == IF CacheConfirmed(op) THEN "ack" ELSE "backpressure"
<1>1. /\ Accept(op, x) /\ socket' = socket /\ extUp' = extUp /\ faults' = faults
      /\ toBroker' \subseteq toBroker /\ toExt' = toExt \cup {<<frame, op>>}
      /\ UNCHANGED <<client, late, outbox, exec, aborted, dispatches, acked>>
  BY DEF ReceiveResult, extVars
<1>2. confirmed' = IF CacheConfirmed(op)
                   THEN IF bridge[op] \in Pending THEN [confirmed EXCEPT ![op] = "none"]
                                                  ELSE [confirmed EXCEPT ![op] = x]
                   ELSE confirmed
  BY DEF ReceiveResult, Cached
<1>3. CASE CacheConfirmed(op)
  <2>1. bridge[op] \in Pending \/ confirmed'[op] = x
    BY <1>2, <1>3 DEF IInv, Types
  <2>. QED BY <1>1, <1>2, <1>3, <2>1, AcceptKeeps DEF IInv, Types
<1>4. CASE ~CacheConfirmed(op)
  <2>1. confirmed' = confirmed /\ (Acknowledged(op)' => Acknowledged(op))
    BY <1>1, <1>2, <1>4 DEF Acknowledged
  <2>. QED BY <1>1, <1>4, <2>1, AcceptKeeps DEF IInv, Types
<1>. QED BY <1>3, <1>4

LEMMA ReceiveResultUnansweredKeeps ==
  ASSUME IInv, NEW op \in Op, NEW x \in Outcome, ReceiveResultUnanswered(op, x)
  PROVE  IInv'
<1>1. /\ Accept(op, x) /\ socket' \in Sockets /\ extUp' = FALSE /\ toExt' = {} /\ toBroker' = {}
      /\ UNCHANGED <<client, late, outbox, exec, aborted, dispatches, acked>>
  BY DEF ReceiveResultUnanswered, Disconnect, IInv, Types, Sockets
<1>2. confirmed' = confirmed \/ confirmed' = [confirmed EXCEPT ![op] = x]
  BY DEF ReceiveResultUnanswered, Cached
<1>3. faults' \in 0..MaxFaults
  BY DeliveryAssumption DEF ReceiveResultUnanswered, Fault, IInv, Types
<1>4. ~Acknowledged(op)'
  BY <1>1 DEF Acknowledged
<1>. QED BY <1>1, <1>2, <1>3, <1>4, AcceptKeeps

-----------------------------------------------------------------------------
(* POST /command.                                                            *)

LEMMA JoinKeeps ==
  ASSUME IInv, NEW op \in Op, Join(op), http[op] = "sent",
         UNCHANGED <<client, late, wireVars, extVars, faults>>
  PROVE  IInv'
<1>. USE DEF brokerVars, wireVars, extVars, Answer, Join, IInv
<1>0. PICK y \in {"joined"} \cup Outcome : http' = [http EXCEPT ![op] = y]
  BY DEF Types, Ledger
<1>1. Types'
  BY <1>0 DEF Types, Https
<1>2. ASSUME NEW o \in Op \ {op} PROVE Quiet(o)
  BY <1>2 DEF Quiet, Types, InFlight, Acknowledged, Reported
<1>3. OpInv(op)'
  <2>1. AsksOverHttp(op)' /\ OutboxRemembers(op)'
    BY DEF OpInv, Types, AsksOverHttp, OutboxRemembers, Outcome
  <2>2. ASSUME Tracked(op)' PROVE OnePlace(op)'
    BY <2>2 DEF OpInv, Types, AsksOverHttp, Tracked, OnePlace, Unreached, InFlight,
         Acknowledged, Reported, Outcome
  <2>3. ASSUME Tracked(op)' PROVE Truthful(op)'
    BY <2>3 DEF OpInv, Types, AsksOverHttp, Tracked, OnePlace, Unreached, Truthful, Holds,
         InFlight, Acknowledged, Reported, Outcome
  <2>4. ASSUME Tracked(op)' PROVE Retained(op)'
    BY <2>4 DEF OpInv, Types, AsksOverHttp, Tracked, OnePlace, Unreached, Retained, InFlight,
         Acknowledged, Reported, Outcome
  <2>. QED BY <2>1, <2>2, <2>3, <2>4 DEF OpInv
<1>. QED BY <1>1, <1>2, <1>3, OwnStep

LEMMA RefuseKeeps ==
  ASSUME IInv, NEW op \in Op, Refuse(op), http[op] = "sent",
         UNCHANGED <<client, late, wireVars, extVars, faults>>
  PROVE  IInv'
<1>. USE DEF brokerVars, wireVars, extVars, Answer, Refuse, Unknown, IInv
<1>1. Types'
  BY DEF Types, Https, Outcome
<1>2. ASSUME NEW o \in Op \ {op} PROVE Quiet(o)
  BY <1>2 DEF Quiet, Types, InFlight, Acknowledged, Reported
<1>3. OpInv(op)'
  <2>1. AsksOverHttp(op)' /\ OutboxRemembers(op)'
    BY DEF OpInv, Types, AsksOverHttp, OutboxRemembers
  <2>2. ASSUME Tracked(op)' PROVE OnePlace(op)'
    BY <2>2 DEF OpInv, Types, AsksOverHttp, Tracked, OnePlace, Unreached, InFlight,
         Acknowledged, Reported, Outcome
  <2>3. ASSUME Tracked(op)' PROVE Truthful(op)'
    BY <2>3 DEF OpInv, Types, AsksOverHttp, Tracked, OnePlace, Unreached, Truthful, Holds,
         InFlight, Acknowledged, Reported, Outcome, Early
  <2>4. ASSUME Tracked(op)' PROVE Retained(op)'
    BY <2>4 DEF OpInv, Types, AsksOverHttp, Tracked, OnePlace, Unreached, Retained, InFlight,
         Acknowledged, Reported, Outcome, Early
  <2>. QED BY <2>1, <2>2, <2>3, <2>4 DEF OpInv
<1>. QED BY <1>1, <1>2, <1>3, OwnStep


(* What becomes of the ledger when the request of an operation is recorded.  *)
Records(op, x) ==
  /\ ledger' \in Ledger /\ ledger.evicted \subseteq ledger'.evicted
  /\ \A o \in Op :
       /\ ledger'.state[o] \in {IF o = op THEN x ELSE ledger.state[o], "none"}
       /\ o \notin ledger'.evicted => ledger'.state[o] = IF o = op THEN x ELSE ledger.state[o]

LEMMA RoomRecords ==
  ASSUME Types, NEW op \in Op, NEW x \in Outcome \cup {"running"},
         ledger.state[op] = "none", ledger' = insert(evictSettled(ledger), op, x)
  PROVE  Records(op, x)
<1>1. PICK room : room = evictSettled(ledger)
  OBVIOUS
<1>2. Forgets(ledger, room)
  BY <1>1, EvictForgets DEF Types
<1>3. /\ ledger' \in Ledger /\ ledger'.evicted = room.evicted
      /\ ledger'.state = [room.state EXCEPT ![op] = x]
  BY <1>1, <1>2, InsertProperties DEF Forgets
<1>4. room.state \in [Op -> Outcome \cup {"none", "running"}]
  BY <1>2 DEF Forgets, Ledger
<1>. QED BY <1>2, <1>3, <1>4 DEF Records, Forgets

LEMMA FullRecords ==
  ASSUME Types, NEW op \in Op, ledger.state[op] = "none", ledger' = evictSettled(ledger)
  PROVE  Records(op, "none")
BY EvictForgets DEF Records, Forgets, Types

LEMMA ReplaceUnknownKeeps ==
  ASSUME IInv, NEW op \in Op, ReplaceUnknown(op), http[op] = "sent",
         UNCHANGED <<client, late, wireVars, extVars, faults>>
  PROVE  IInv'
<1>. USE DEF brokerVars, wireVars, extVars, Answer, IInv
<1>0. /\ Records(op, confirmed[op]) /\ confirmed[op] \in Outcome
      /\ ledger.state[op] = "lost"
      /\ confirmed' = [confirmed EXCEPT ![op] = "none"]
      /\ http' = [http EXCEPT ![op] = confirmed[op]] /\ bridge' = bridge
  <2>1. PICK i \in Positions(ledger, op) :
          ledger' = evictSettled(insert(removeRequest(ledger, i), op, confirmed[op]))
    BY DEF ReplaceUnknown
  <2>2. confirmed[op] \in Outcome
    BY DEF ReplaceUnknown, Types
  <2>3. /\ i \in 1..Len(ledger.age) /\ ledger.age \in Seq(Op) /\ ledger.age[i] = op
    BY <2>1, LenProperties DEF Positions, Types, Ledger
  <2>4. PICK m : m = removeRequest(ledger, i)
    OBVIOUS
  <2>5. /\ m.state = [ledger.state EXCEPT ![op] = "none"]
        /\ m.age = RemoveAt(ledger.age, i) /\ m.evicted = ledger.evicted
        /\ m = [state |-> m.state, age |-> m.age, evicted |-> m.evicted]
    BY <2>3, <2>4 DEF removeRequest
  <2>6. RemoveAt(ledger.age, i) \in Seq(Op)
    BY <2>3, RemoveAtProperties
  <2>7. m \in Ledger
    <3>1. m.state \in [Op -> Outcome \cup {"none", "running"}] /\ m.evicted \in SUBSET Op
      BY <2>5 DEF Types, Ledger
    <3>. QED BY <2>5, <2>6, <3>1 DEF Ledger
  <2>8. PICK n : n = insert(m, op, confirmed[op])
    OBVIOUS
  <2>9. /\ n \in Ledger /\ n.evicted = ledger.evicted
        /\ \A o \in Op : n.state[o] = IF o = op THEN confirmed[op] ELSE ledger.state[o]
    <3>1. n \in Ledger /\ n.evicted = m.evicted /\ n.state = [m.state EXCEPT ![op] = confirmed[op]]
      BY <2>2, <2>7, <2>8, InsertProperties
    <3>. QED BY <2>5, <3>1 DEF Types, Ledger
  <2>10. Forgets(n, ledger')
    BY <2>1, <2>4, <2>8, <2>9, EvictForgets
  <2>11. Records(op, confirmed[op])
    BY <2>9, <2>10 DEF Records, Forgets
  <2>. QED BY <2>2, <2>11 DEF ReplaceUnknown
<1>1. Types'
  BY <1>0 DEF Types, Https, Records
<1>2. ASSUME NEW o \in Op \ {op} PROVE Quiet(o)
  BY <1>0, <1>2 DEF Quiet, Types, InFlight, Acknowledged, Reported, Records
<1>3. OpInv(op)'
  <2>1. AsksOverHttp(op)' /\ OutboxRemembers(op)'
    BY <1>0 DEF OpInv, Types, AsksOverHttp, OutboxRemembers, Outcome, Records
  <2>2. ASSUME Tracked(op)' PROVE OnePlace(op)'
    BY <1>0, <2>2 DEF OpInv, Types, AsksOverHttp, Tracked, OnePlace, Unreached, InFlight,
         Acknowledged, Reported, Outcome, Records, Early
  <2>3. ASSUME Tracked(op)' PROVE Truthful(op)'
    BY <1>0, <2>3 DEF OpInv, Types, AsksOverHttp, Tracked, OnePlace, Unreached, Truthful, Holds,
         InFlight, Acknowledged, Reported, Outcome, Records, Early
  <2>4. ASSUME Tracked(op)' PROVE Retained(op)'
    BY <1>0, <2>4 DEF OpInv, Types, AsksOverHttp, OutboxRemembers, Tracked, OnePlace, Unreached, Retained,
         InFlight, Acknowledged, Reported, Outcome, Records, Early
  <2>. QED BY <2>1, <2>2, <2>3, <2>4 DEF OpInv
<1>. QED BY <1>1, <1>2, <1>3, OwnStep

LEMMA RecoverKeeps ==
  ASSUME IInv, NEW op \in Op, Recover(op), http[op] = "sent",
         UNCHANGED <<client, late, wireVars, extVars, faults>>
  PROVE  IInv'
<1>. USE DEF brokerVars, wireVars, extVars, Answer, IInv
<1>0. \E y \in Outcome, z \in {"none", confirmed[op]} :
        /\ y = confirmed[op] /\ Records(op, z)
        /\ confirmed' = IF z = "none" THEN confirmed ELSE [confirmed EXCEPT ![op] = "none"]
        /\ http' = [http EXCEPT ![op] = y] /\ bridge' = bridge
        /\ ledger.state[op] = "none"
  <2>1. confirmed[op] \in Outcome /\ ledger.state[op] = "none"
    BY DEF Recover, Types
  <2>2. CASE Len(evictSettled(ledger).age) < MaxRequests
    <3>1. Records(op, confirmed[op])
      BY <2>1, <2>2, RoomRecords DEF Recover
    <3>. QED BY <2>1, <2>2, <3>1 DEF Recover, Outcome
  <2>3. CASE ~(Len(evictSettled(ledger).age) < MaxRequests)
    <3>1. Records(op, "none")
      BY <2>1, <2>3, FullRecords DEF Recover
    <3>. QED BY <2>1, <2>3, <3>1 DEF Recover, Outcome
  <2>. QED BY <2>2, <2>3
<1>1. Types'
  BY <1>0 DEF Types, Https, Pending, Records
<1>2. ASSUME NEW o \in Op \ {op} PROVE Quiet(o)
  BY <1>0, <1>2 DEF Quiet, Types, InFlight, Acknowledged, Reported, Records
<1>3. OpInv(op)'
  <2>1. AsksOverHttp(op)' /\ OutboxRemembers(op)'
    BY <1>0 DEF OpInv, Types, AsksOverHttp, OutboxRemembers, Outcome, Records
  <2>2. ASSUME Tracked(op)' PROVE OnePlace(op)'
    BY <1>0, <2>2 DEF OpInv, Types, AsksOverHttp, Tracked, OnePlace, Unreached, InFlight,
         Acknowledged, Reported, Outcome, Records, Early
  <2>3. ASSUME Tracked(op)' PROVE Truthful(op)'
    BY <1>0, <2>3 DEF OpInv, Types, AsksOverHttp, Tracked, OnePlace, Unreached, Truthful, Holds,
         InFlight, Acknowledged, Reported, Outcome, Records, Early
  <2>4. ASSUME Tracked(op)' PROVE Retained(op)'
    BY <1>0, <2>4 DEF OpInv, Types, AsksOverHttp, Tracked, OnePlace, Unreached, Retained, InFlight,
         Acknowledged, Reported, Outcome, Records, Early
  <2>. QED BY <2>1, <2>2, <2>3, <2>4 DEF OpInv
<1>. QED BY <1>1, <1>2, <1>3, OwnStep

LEMMA AdmitKeeps ==
  ASSUME IInv, NEW op \in Op, Admit(op), http[op] = "sent",
         UNCHANGED <<client, late, wireVars, extVars, faults>>
  PROVE  IInv'
<1>. USE DEF brokerVars, wireVars, extVars, Answer, IInv
<1>0. /\ ledger.state[op] = "none" /\ confirmed[op] = "none" /\ confirmed' = confirmed
      /\ \/ /\ Records(op, "running") /\ bridge' = [bridge EXCEPT ![op] = "queued"]
            /\ http' = [http EXCEPT ![op] = "joined"]
         \/ /\ Records(op, "none") /\ bridge' = bridge
            /\ http' = [http EXCEPT ![op] = "not_started"]
  <2>1. ledger.state[op] = "none" /\ confirmed[op] = "none" /\ confirmed' = confirmed
    BY DEF Admit, Unknown
  <2>2. CASE Len(evictSettled(ledger).age) < MaxRequests
    <3>1. Records(op, "running")
      BY <2>1, <2>2, RoomRecords DEF Admit
    <3>. QED BY <2>1, <2>2, <3>1 DEF Admit
  <2>3. CASE ~(Len(evictSettled(ledger).age) < MaxRequests)
    <3>1. Records(op, "none")
      BY <2>1, <2>3, FullRecords DEF Admit
    <3>. QED BY <2>1, <2>3, <3>1 DEF Admit
  <2>. QED BY <2>1, <2>2, <2>3
<1>1. Types'
  <2>1. ledger' \in Ledger
    BY <1>0 DEF Records
  <2>2. http' \in [Op -> Https] /\ bridge' \in [Op -> {"none", "queued"} \cup Pending]
    BY <1>0 DEF Types, Https, Outcome
  <2>. QED BY <1>0, <2>1, <2>2 DEF Types
<1>2. ASSUME NEW o \in Op \ {op} PROVE Quiet(o)
  BY <1>0, <1>2 DEF Quiet, Types, InFlight, Acknowledged, Reported, Records
<1>3. OpInv(op)'
  <2>1. AsksOverHttp(op)' /\ OutboxRemembers(op)'
    BY <1>0 DEF OpInv, Types, AsksOverHttp, OutboxRemembers, Outcome, Records
  <2>2. ASSUME Tracked(op)' PROVE OnePlace(op)'
    BY <1>0, <2>2 DEF OpInv, Types, AsksOverHttp, Tracked, OnePlace, Unreached, InFlight,
         Acknowledged, Reported, Outcome, Records, Early
  <2>3. ASSUME Tracked(op)' PROVE Truthful(op)'
    BY <1>0, <2>3 DEF OpInv, Types, AsksOverHttp, Tracked, OnePlace, Unreached, Truthful, Holds,
         InFlight, Acknowledged, Reported, Outcome, Records, Early
  <2>4. ASSUME Tracked(op)' PROVE Retained(op)'
    BY <1>0, <2>4 DEF OpInv, Types, AsksOverHttp, Tracked, OnePlace, Unreached, Retained, InFlight,
         Acknowledged, Reported, Outcome, Records, Early
  <2>. QED BY <2>1, <2>2, <2>3, <2>4 DEF OpInv
<1>. QED BY <1>1, <1>2, <1>3, OwnStep

LEMMA HandleCommandKeeps ==
  ASSUME IInv, NEW op \in Op, HandleCommand(op)
  PROVE  IInv'
BY ReplaceUnknownKeeps, JoinKeeps, RecoverKeeps, RefuseKeeps, AdmitKeeps DEF HandleCommand

-----------------------------------------------------------------------------
(* The connection and the extension.                                         *)

LEMMA ReconciledProperties ==
  ASSUME Types, NEW box \in Reconciled
  PROVE  /\ box \in [Op -> Outcome \cup {"none", "reserved"}]
         /\ \A o \in Op : \/ box[o] = outbox[o]
                          \/ outbox[o] = "reserved" /\ box[o] = "unknown" /\ exec[o] = "none"
<1>1. PICK ops \in SUBSET {o \in late : outbox[o] = "reserved" /\ exec[o] = "none"} :
        box = [o \in Op |-> IF o \in ops THEN "unknown" ELSE outbox[o]]
  BY DEF Reconciled
<1>2. \A o \in Op : box[o] = IF o \in ops THEN "unknown" ELSE outbox[o]
  BY <1>1
<1>3. box \in [Op -> Outcome \cup {"none", "reserved"}]
  BY <1>1 DEF Types, Outcome
<1>. QED BY <1>2, <1>3

LEMMA LinkLostKeeps ==
  ASSUME IInv, LinkLost
  PROVE  IInv'
<1>. USE DEF LinkLost, Disconnect, brokerVars, extVars, IInv
<1>1. Types'
  <2>1. faults' \in 0..MaxFaults
    BY DeliveryAssumption DEF Fault, Types
  <2>2. socket' \in Sockets /\ extUp' = FALSE
    BY DEF Types, Sockets
  <2>. QED BY <2>1, <2>2 DEF Types
<1>2. ASSUME NEW o \in Op PROVE Quiet(o)
  BY <1>2 DEF Quiet, InFlight, Acknowledged, Reported
<1>. QED BY <1>1, <1>2, QuietStep

LEMMA WorkerDiesKeeps ==
  ASSUME IInv, WorkerDies
  PROVE  IInv'
<1>. USE DEF WorkerDies, Disconnect, brokerVars, IInv
<1>1. Types'
  <2>1. faults' \in 0..MaxFaults
    BY DeliveryAssumption DEF Fault, Types
  <2>2. socket' \in Sockets /\ extUp' = FALSE
    BY DEF Types, Sockets
  <2>3. exec' \in [Op -> {"none", "waiting", "running"}] /\ aborted' = {}
    OBVIOUS
  <2>. QED BY <2>1, <2>2, <2>3 DEF Types
<1>2. ASSUME NEW o \in Op PROVE Quiet(o)
  BY <1>2 DEF Quiet, InFlight, Acknowledged, Reported
<1>. QED BY <1>1, <1>2, QuietStep

LEMMA ReplayProperties ==
  ASSUME NEW box \in [Op -> Outcome \cup {"none", "reserved"}]
  PROVE  /\ Replay(box) \subseteq Op \X Outcome
         /\ \A o \in Op, x \in Outcome : <<o, x>> \in Replay(box) => box[o] = x
BY DEF Replay, Completed

LEMMA ReconnectKeeps ==
  ASSUME IInv, Reconnect
  PROVE  IInv'
<1>. USE DEF IInv
<1>1. Types'
  BY DEF Reconnect, Types, Sockets, Pending
<1>2. ASSUME NEW o \in Op PROVE Quiet(o)
  BY <1>2 DEF Reconnect, Quiet, Types, InFlight, Acknowledged, Reported
<1>. QED BY <1>1, <1>2, QuietStep

LEMMA ReceiveBackpressureKeeps ==
  ASSUME IInv, NEW op \in Op, ReceiveBackpressure(op)
  PROVE  IInv'
<1>. USE DEF ReceiveBackpressure, Took, brokerVars, IInv
<1>1. Types'
  BY DEF Types
<1>2. ASSUME NEW o \in Op PROVE Quiet(o)
  BY <1>2 DEF Quiet, InFlight, Acknowledged, Reported
<1>. QED BY <1>1, <1>2, QuietStep

LEMMA FlushCalledKeeps ==
  ASSUME IInv, FlushWhenReady \/ \E op \in Op : FlushAfterPause(op)
  PROVE  IInv'
<1>. USE DEF brokerVars, wireVars, IInv
<1>0. /\ UNCHANGED <<client, http, late, brokerVars, wireVars, faults>>
      /\ UNCHANGED <<outbox, exec, aborted, dispatches, acked>>
  BY DEF FlushWhenReady, FlushAfterPause
<1>1. Types'
  BY <1>0 DEF Types
<1>2. ASSUME NEW o \in Op PROVE Quiet(o)
  BY <1>0, <1>2 DEF Quiet, InFlight, Acknowledged, Reported
<1>. QED BY <1>1, <1>2, QuietStep

LEMMA FlushEndsKeeps ==
  ASSUME IInv, FlushEnds
  PROVE  IInv'
<1>. USE DEF IInv
<1>1. /\ outbox' \in [Op -> Outcome \cup {"none", "reserved"}]
      /\ \A o \in Op :
           \/ outbox'[o] = outbox[o]
           \/ outbox[o] = "reserved" /\ outbox'[o] = "unknown" /\ exec[o] = "none"
  BY ReconciledProperties DEF FlushEnds
<1>2. /\ toBroker' \subseteq Op \X Outcome
      /\ \A o \in Op, x \in Outcome :
           <<o, x>> \in toBroker' => <<o, x>> \in toBroker \/ outbox'[o] = x
  <2>1. toBroker' = toBroker \/ toBroker' = toBroker \cup Replay(outbox')
    BY DEF FlushEnds
  <2>. QED BY <1>1, <2>1, ReplayProperties DEF Types
<1>3. Types'
  BY <1>1, <1>2 DEF FlushEnds, Types, brokerVars
<1>4. ASSUME NEW o \in Op PROVE Quiet(o)
  BY <1>1, <1>2, <1>4 DEF FlushEnds, Quiet, Types, InFlight, Acknowledged, Reported, brokerVars
<1>. QED BY <1>3, <1>4, QuietStep

LEMMA ReceiveCancelKeeps ==
  ASSUME IInv, NEW op \in Op, ReceiveCancel(op)
  PROVE  IInv'
<1>. USE DEF ReceiveCancel, Took, brokerVars, IInv
<1>1. Types'
  BY DEF Types
<1>2. ASSUME NEW o \in Op PROVE Quiet(o)
  BY <1>2 DEF Quiet, InFlight, Acknowledged, Reported
<1>. QED BY <1>1, <1>2, QuietStep

LEMMA ReceiveAckKeeps ==
  ASSUME IInv, NEW op \in Op, ReceiveAck(op)
  PROVE  IInv'
<1>. USE DEF ReceiveAck, Took, brokerVars, IInv
<1>1. Types'
  BY DEF Types, Outcome
<1>2. ASSUME NEW o \in Op \ {op} PROVE Quiet(o)
  BY <1>2 DEF Quiet, Types, InFlight, Acknowledged, Reported
<1>3. OpInv(op)'
  <2>1. AsksOverHttp(op)' /\ OutboxRemembers(op)'
    BY DEF OpInv, Types, AsksOverHttp, OutboxRemembers
  <2>2. ASSUME Tracked(op)' PROVE OnePlace(op)'
    BY <2>2 DEF OpInv, Types, AsksOverHttp, Tracked, OnePlace, Unreached, InFlight,
         Acknowledged, Reported
  <2>3. ASSUME Tracked(op)' PROVE Truthful(op)'
    BY <2>3 DEF OpInv, Types, AsksOverHttp, Tracked, OnePlace, Unreached, Truthful, Holds,
         InFlight, Acknowledged, Reported, Outcome
  <2>4. ASSUME Tracked(op)' PROVE Retained(op)'
    BY <2>4 DEF OpInv, Types, AsksOverHttp, Tracked, OnePlace, Unreached, Retained, InFlight,
         Acknowledged, Reported, Outcome
  <2>. QED BY <2>1, <2>2, <2>3, <2>4 DEF OpInv
<1>. QED BY <1>1, <1>2, <1>3, OwnStep

(* The result of an operation is committed to the outbox and reported.       *)
LEMMA CommitKeeps ==
  ASSUME IInv, NEW op \in Op, NEW x \in {"done", "not_started", "unknown"}, Commit(op, x),
         exec[op] # "none",
         x = "done" => exec[op] = "running",
         x = "not_started" => exec[op] = "waiting",
         UNCHANGED <<client, http, late, brokerVars, socket, toExt, extUp, dispatches, acked, faults>>
  PROVE  IInv'
<1>. USE DEF brokerVars, IInv
<1>0. /\ outbox' = [outbox EXCEPT ![op] = x] /\ exec' = [exec EXCEPT ![op] = "none"]
      /\ aborted' = aborted \ {op}
      /\ toBroker' \subseteq toBroker \cup {<<op, x>>}
  BY DEF Commit, Send
<1>1. Types'
  BY <1>0 DEF Types, Outcome
<1>2. ASSUME NEW o \in Op \ {op} PROVE Quiet(o)
  BY <1>0, <1>2 DEF Quiet, Types, InFlight, Acknowledged, Reported
<1>3. /\ exec'[op] = "none" /\ outbox'[op] = x
      /\ \A y \in Outcome : Reported(op, y)' => Reported(op, y) \/ y = x
      /\ InFlight(op)' = InFlight(op) /\ Acknowledged(op)' = Acknowledged(op)
  BY <1>0 DEF Types, Reported, InFlight, Acknowledged
<1>4. AsksOverHttp(op)' /\ OutboxRemembers(op)'
  BY <1>3 DEF OpInv, AsksOverHttp, OutboxRemembers
<1>5. ASSUME Tracked(op)' PROVE OnePlace(op) /\ Truthful(op) /\ Retained(op)
  BY <1>5 DEF OpInv, Tracked
<1>6. ASSUME Tracked(op)'
      PROVE  /\ ~InFlight(op) /\ ~Acknowledged(op) /\ \A y \in Outcome : ~Reported(op, y)
             /\ bridge[op] \notin Early
             /\ ~(client[op] \in {"idle", "asking", "broken", "again"} /\ ledger.state[op] = "none")
  BY <1>5, <1>6 DEF OnePlace, Unreached
<1>7. ASSUME Tracked(op)' PROVE OnePlace(op)'
  BY <1>3, <1>5, <1>6, <1>7 DEF OnePlace
<1>8. ASSUME Tracked(op)' PROVE Truthful(op)'
  <2>1. ASSUME NEW y \in {"done", "not_started"}, Holds(op, y)' PROVE Holds(op, y) \/ y = x
    BY <1>3, <2>1 DEF Holds, Outcome
  <2>. QED BY <1>3, <1>5, <1>6, <1>8, <2>1 DEF Truthful, OnePlace
<1>9. ASSUME Tracked(op)' PROVE Retained(op)'
  BY <1>3, <1>6, <1>9 DEF Retained
<1>10. OpInv(op)'
  BY <1>4, <1>7, <1>8, <1>9 DEF OpInv
<1>. QED BY <1>1, <1>2, <1>10, OwnStep

LEMMA FinishKeeps ==
  ASSUME IInv, NEW op \in Op, Finish(op)
  PROVE  IInv'
BY CommitKeeps DEF Finish

LEMMA EnterKeeps ==
  ASSUME IInv, NEW op \in Op, Enter(op)
  PROVE  IInv'
<1>1. CASE Commit(op, "unknown") /\ UNCHANGED dispatches
  BY <1>1, CommitKeeps DEF Enter
<1>2. CASE Commit(op, "not_started") /\ UNCHANGED dispatches
  BY <1>2, CommitKeeps DEF Enter
<1>3. CASE /\ op \notin aborted \cup late
           /\ exec' = [exec EXCEPT ![op] = "running"]
           /\ dispatches' = [dispatches EXCEPT ![op] = @ + 1]
           /\ UNCHANGED <<outbox, aborted, toBroker>>
  <2>. USE DEF Enter, brokerVars, IInv
  <2>1. Types'
    BY <1>3 DEF Types
  <2>2. ASSUME NEW o \in Op \ {op} PROVE Quiet(o)
    BY <1>3, <2>2 DEF Quiet, Types, InFlight, Acknowledged, Reported
  <2>3. OpInv(op)'
    <3>1. exec'[op] = "running" /\ dispatches'[op] = dispatches[op] + 1 /\ dispatches[op] \in Nat
      BY <1>3 DEF Types
    <3>2. AsksOverHttp(op)' /\ OutboxRemembers(op)'
      BY <1>3, <3>1 DEF OpInv, AsksOverHttp, OutboxRemembers
    <3>3. ASSUME Tracked(op)' PROVE OnePlace(op) /\ Truthful(op) /\ Retained(op)
      BY <3>3 DEF OpInv, Tracked
    <3>4. ASSUME Tracked(op)' PROVE OnePlace(op)'
      BY <1>3, <3>1, <3>3, <3>4 DEF OnePlace, Unreached, InFlight, Acknowledged, Reported
    <3>5. ASSUME Tracked(op)' PROVE Truthful(op)'
      BY <1>3, <3>1, <3>3, <3>5 DEF Truthful, OnePlace, Holds, Reported
    <3>6. ASSUME Tracked(op)' PROVE Retained(op)'
      BY <1>3, <3>3, <3>6 DEF Retained, Acknowledged, Reported
    <3>. QED BY <3>2, <3>4, <3>5, <3>6 DEF OpInv
  <2>. QED BY <2>1, <2>2, <2>3, OwnStep
<1>. QED BY <1>1, <1>2, <1>3 DEF Enter

(* A command of the extension's connection has arrived.                      *)
LEMMA ReserveKeeps ==
  ASSUME IInv, NEW op \in Op, Reserve(op)
  PROVE  IInv'
<1>. USE DEF brokerVars, IInv
<1>0. /\ InFlight(op) /\ ~InFlight(op)'
      /\ \A o \in Op : /\ InFlight(o)' => InFlight(o)
                       /\ Acknowledged(o)' = Acknowledged(o)
      /\ toExt' \subseteq toExt
      /\ UNCHANGED <<client, http, late, brokerVars, socket, extUp, aborted, dispatches, acked, faults>>
  BY DEF Reserve, Took, InFlight, Acknowledged
<1>1. PICK box \in Reconciled :
       \/ /\ box[op] \in Outcome
          /\ outbox' = box
          /\ Send({<<op, box[op]>>})
          /\ UNCHANGED exec
       \/ /\ box[op] = "reserved" /\ exec[op] # "none"
          /\ outbox' = box
          /\ UNCHANGED <<exec, toBroker>>
       \/ /\ box[op] = "reserved" /\ exec[op] = "none"
          /\ outbox' = [box EXCEPT ![op] = "unknown"]
          /\ Send({<<op, "unknown">>})
          /\ UNCHANGED exec
       \/ /\ box[op] = "none" /\ Full(box)
          /\ outbox' = box
          /\ Send({<<op, "not_started">>})
          /\ UNCHANGED exec
       \/ /\ box[op] = "none" /\ ~Full(box)
          /\ outbox' = [box EXCEPT ![op] = "reserved"]
          /\ exec' = [exec EXCEPT ![op] = "waiting"]
          /\ UNCHANGED toBroker
  BY DEF Reserve
<1>2. /\ box \in [Op -> Outcome \cup {"none", "reserved"}]
      /\ \A o \in Op : \/ box[o] = outbox[o]
                       \/ outbox[o] = "reserved" /\ box[o] = "unknown" /\ exec[o] = "none"
  BY ReconciledProperties
(* What that means for the operation: its result again, nothing, a doubtful  *)
(* reservation, no room, a new reservation.                                  *)
<1>3. \/ /\ outbox' = box /\ box[op] \in Outcome /\ exec' = exec
         /\ toBroker' \subseteq toBroker \cup {<<op, box[op]>>}
      \/ outbox' = box /\ exec' = exec /\ toBroker' = toBroker
      \/ /\ outbox' = [box EXCEPT ![op] = "unknown"] /\ box[op] = "reserved" /\ exec' = exec
         /\ exec[op] = "none" /\ toBroker' \subseteq toBroker \cup {<<op, "unknown">>}
      \/ /\ outbox' = box /\ exec' = exec
         /\ box[op] = "none" /\ toBroker' \subseteq toBroker \cup {<<op, "not_started">>}
      \/ /\ outbox' = [box EXCEPT ![op] = "reserved"] /\ exec' = [exec EXCEPT ![op] = "waiting"]
         /\ box[op] = "none" /\ toBroker' = toBroker
  BY <1>1 DEF Send
<1>4. Types'
  BY <1>0, <1>2, <1>3 DEF Types, Outcome
<1>5. ASSUME NEW o \in Op \ {op} PROVE Quiet(o)
  BY <1>0, <1>2, <1>3, <1>5 DEF Quiet, Types, Reported
<1>6. AsksOverHttp(op)' /\ OutboxRemembers(op)'
  BY <1>0, <1>2, <1>3 DEF OpInv, Types, AsksOverHttp, OutboxRemembers, Outcome
<1>7. ASSUME Tracked(op)'
      PROVE  /\ OnePlace(op) /\ Truthful(op) /\ Unreached(op) /\ bridge[op] \notin Early
             /\ box[op] = "none"
             /\ ~(client[op] \in {"idle", "asking", "broken", "again"} /\ ledger.state[op] = "none")
             /\ ~Holds(op, "not_started") /\ ~Holds(op, "done")
  <2>1. OnePlace(op) /\ Truthful(op)
    BY <1>0, <1>7 DEF OpInv, Tracked
  <2>2. Unreached(op)
    BY <1>0, <2>1 DEF OnePlace
  <2>. QED BY <1>0, <1>2, <2>1, <2>2 DEF OnePlace, Truthful, Unreached
<1>8. ASSUME Tracked(op)'
      PROVE  /\ ~Acknowledged(op)' /\ dispatches'[op] = 0
             /\ \/ /\ exec'[op] = "none" /\ outbox'[op] = "none"
                   /\ \A y \in Outcome : Reported(op, y)' => y = "not_started"
                \/ /\ exec'[op] = "waiting" /\ outbox'[op] = "reserved"
                   /\ \A y \in Outcome : ~Reported(op, y)'
  <2>1. box[op] = "none" /\ Unreached(op) /\ outbox[op] = "none"
    BY <1>7, <1>8 DEF Unreached
  <2>. QED BY <1>0, <1>2, <1>3, <2>1 DEF Unreached, Types, Reported, Outcome
<1>9. ASSUME Tracked(op)' PROVE OnePlace(op)'
  BY <1>0, <1>7, <1>8, <1>9 DEF OnePlace
<1>10. ASSUME Tracked(op)' PROVE Truthful(op)'
  <2>1. ~Holds(op, "done")' /\ (Holds(op, "not_started")' => exec'[op] = "none")
    BY <1>0, <1>7, <1>8, <1>10 DEF Holds, Outcome
  <2>. QED BY <1>0, <1>7, <1>8, <1>10, <2>1 DEF Truthful
<1>11. ASSUME Tracked(op)' PROVE Retained(op)'
  BY <1>8, <1>11 DEF Retained
<1>12. OpInv(op)'
  BY <1>6, <1>9, <1>10, <1>11 DEF OpInv
<1>. QED BY <1>4, <1>5, <1>12, OwnStep

-----------------------------------------------------------------------------
(* Steps of every operation at once.                                         *)

LEMMA BrokerNoticesKeeps ==
  ASSUME IInv, BrokerNotices
  PROVE  IInv'
<1>. USE DEF IInv
<1> DEFINE sent == {op \in Op : bridge[op] = "dispatched"}
           unsent == {op \in Op : bridge[op] \in {"buffered", "stranded"}}
           final(o) == IF o \in unsent THEN "not_started"
                       ELSE IF o \in sent THEN "lost" ELSE ledger.state[o]
<1>0. /\ ledger' \in Ledger /\ ledger.evicted \subseteq ledger'.evicted
      /\ \A o \in Op : /\ ledger'.state[o] \in {final(o), "none"}
                       /\ o \notin ledger'.evicted => ledger'.state[o] = final(o)
  <2>1. PICK m : m = settle(ledger, sent, "lost")
    OBVIOUS
  <2>2. /\ m \in Ledger /\ ledger.evicted \subseteq m.evicted
        /\ \A o \in Op :
             /\ m.state[o] \in {IF o \in sent THEN "lost" ELSE ledger.state[o], "none"}
             /\ o \notin m.evicted => m.state[o] = IF o \in sent THEN "lost" ELSE ledger.state[o]
    BY <2>1, SettleForgets DEF Types, Outcome
  <2>3. /\ ledger' \in Ledger /\ m.evicted \subseteq ledger'.evicted
        /\ \A o \in Op :
             /\ ledger'.state[o] \in {IF o \in unsent THEN "not_started" ELSE m.state[o], "none"}
             /\ o \notin ledger'.evicted =>
                  ledger'.state[o] = IF o \in unsent THEN "not_started" ELSE m.state[o]
    <3>1. ledger' = settle(m, unsent, "not_started")
      BY <2>1 DEF BrokerNotices
    <3>. QED BY <2>2, <3>1, SettleForgets DEF Outcome
  <2>. QED BY <2>2, <2>3
<1>1. /\ socket' = "none" /\ socket = "stale"
      /\ UNCHANGED <<client, late, confirmed, toExt, toBroker, extUp, extVars, faults>>
      /\ bridge' = [op \in Op |-> IF bridge[op] \in Pending THEN "none" ELSE bridge[op]]
      /\ http' = [o \in Op |-> IF o \in sent /\ http[o] = "joined" THEN "lost"
                               ELSE IF o \in unsent /\ http[o] = "joined" THEN "not_started"
                               ELSE http[o]]
  BY DEF BrokerNotices, answered
<1>2. Types'
  <2>1. bridge' \in [Op -> {"none", "queued"} \cup Pending]
    BY <1>1 DEF Types
  <2>2. http' \in [Op -> Https]
    BY <1>1 DEF Types, Https, Outcome
  <2>. QED BY <1>0, <1>1, <2>1, <2>2 DEF Types, Sockets, extVars
<1>3. ASSUME NEW o \in Op, o \notin sent, o \notin unsent PROVE Quiet(o)
  BY <1>0, <1>1, <1>3 DEF Quiet, Types, InFlight, Acknowledged, Reported, Pending, extVars
<1>4. ASSUME NEW o \in Op, o \in sent \/ o \in unsent PROVE OpInv(o)'
  <2> DEFINE x == IF o \in sent THEN "lost" ELSE "not_started"
  <2>1. /\ bridge[o] \in Pending /\ bridge'[o] = "none"
        /\ http'[o] \in {http[o], x} /\ (http'[o] = "none" <=> http[o] = "none")
        /\ http'[o] = "sent" <=> http[o] = "sent"
        /\ o \in unsent => bridge[o] \in Early
        /\ final(o) = x /\ x \in Outcome
    BY <1>1, <1>4 DEF Types, Pending, Early, Outcome
  <2>2. /\ client'[o] = client[o] /\ confirmed'[o] = confirmed[o] /\ outbox'[o] = outbox[o]
        /\ exec'[o] = exec[o] /\ dispatches'[o] = dispatches[o] /\ (o \in acked' <=> o \in acked)
        /\ InFlight(o)' = InFlight(o) /\ Acknowledged(o)' = Acknowledged(o)
        /\ \A y \in Outcome : Reported(o, y)' = Reported(o, y)
    BY <1>1 DEF InFlight, Acknowledged, Reported, extVars
  <2>3. AsksOverHttp(o)' /\ OutboxRemembers(o)'
    <3>1. client[o] # "idle"
      BY <2>1 DEF OpInv, AsksOverHttp, Pending
    <3>. QED BY <2>1, <2>2, <3>1 DEF OpInv, AsksOverHttp, OutboxRemembers
  <2>4. ASSUME Tracked(o)'
        PROVE  /\ OnePlace(o) /\ Truthful(o) /\ Retained(o) /\ ledger'.state[o] = x
    BY <1>0, <2>1, <2>4 DEF OpInv, Tracked
  <2> HIDE DEF sent, unsent, final
  <2>5. ASSUME Tracked(o)' PROVE OnePlace(o)'
    <3>1. ASSUME Unreached(o) PROVE Unreached(o)'
      BY <2>2, <3>1 DEF Unreached
    <3>2. ledger'.state[o] # "none"
      BY <2>1, <2>4, <2>5 DEF Outcome
    <3>. QED BY <2>1, <2>2, <2>4, <2>5, <3>1, <3>2 DEF OnePlace, Early
  <2>6. ASSUME Tracked(o)' PROVE Truthful(o)'
    <3>1. ASSUME NEW y \in {"done", "not_started"}, Holds(o, y)' PROVE Holds(o, y) \/ y = x
      BY <2>1, <2>2, <2>4, <2>6, <3>1 DEF Holds, Outcome
    <3>2. x # "done" /\ (x = "not_started" => o \in unsent)
      BY <1>4
    <3>. QED BY <2>1, <2>2, <2>4, <2>6, <3>1, <3>2 DEF Truthful, OnePlace, Unreached, Early
  <2>7. ASSUME Tracked(o)' PROVE Retained(o)'
    <3>1. ~Acknowledged(o)
      BY <2>1, <2>4, <2>7 DEF Retained, Pending
    <3>. QED BY <2>2, <2>4, <2>7, <3>1 DEF Retained
  <2>. QED BY <2>3, <2>5, <2>6, <2>7 DEF OpInv
<1>. QED BY <1>2, <1>3, <1>4, QuietKeeps

LEMMA BrokerDiesKeeps ==
  ASSUME IInv, BrokerDies
  PROVE  IInv'
<1>. USE DEF IInv
<1>1. /\ socket' = "none" /\ extUp' = FALSE /\ toExt' = {} /\ toBroker' = {}
      /\ UNCHANGED <<late, outbox, exec, aborted, dispatches, acked>>
      /\ bridge' = [op \in Op |-> "none"] /\ confirmed' = [op \in Op |-> "none"]
      /\ http' = [op \in Op |-> "none"]
      /\ client' = [op \in Op |-> CASE client[op] \in {"asking", "broken"} -> "restarted"
                                    [] client[op] = "again" -> "error"
                                    [] OTHER -> client[op]]
  BY DEF BrokerDies
<1>2. /\ ledger'.state = [op \in Op |-> "none"] /\ ledger'.evicted = ledger.evicted
      /\ ledger' \in Ledger
  <2>1. PICK m : m = [NewLedger EXCEPT !.evicted = ledger.evicted]
    OBVIOUS
  <2>2. /\ m.state = [op \in Op |-> "none"] /\ m.age = << >> /\ m.evicted = ledger.evicted
        /\ m = [state |-> m.state, age |-> m.age, evicted |-> m.evicted]
    BY <2>1 DEF NewLedger
  <2>3. m.state \in [Op -> Outcome \cup {"none", "running"}] /\ m.evicted \in SUBSET Op
    BY <2>2 DEF Types, Ledger
  <2>4. m.age \in Seq(Op)
    BY <2>2
  <2>. QED BY <2>1, <2>2, <2>3, <2>4 DEF BrokerDies, Ledger
<1>3. \A o \in Op : client'[o] = IF client[o] \in {"asking", "broken"} THEN "restarted"
                                 ELSE IF client[o] = "again" THEN "error" ELSE client[o]
  BY <1>1
<1>4. Types'
  <2>1. faults' \in 0..MaxFaults
    BY DeliveryAssumption DEF BrokerDies, Fault, Types
  <2>2. client' \in [Op -> Clients]
    <3>1. \A o \in Op : client'[o] \in Clients
      BY <1>3 DEF Types, Clients, Answered
    <3>. QED BY <1>1, <3>1
  <2>3. /\ bridge' \in [Op -> {"none", "queued"} \cup Pending]
        /\ confirmed' \in [Op -> Outcome \cup {"none"}] /\ http' \in [Op -> Https]
    BY <1>1 DEF Https
  <2>. QED BY <1>1, <1>2, <2>1, <2>2, <2>3 DEF Types, Sockets, extVars
<1>5. ASSUME NEW o \in Op PROVE OpInv(o)'
  <2>1. /\ ~InFlight(o)' /\ ~Acknowledged(o)' /\ \A x \in Outcome : ~Reported(o, x)'
        /\ bridge'[o] = "none" /\ confirmed'[o] = "none" /\ http'[o] = "none"
        /\ ledger'.state[o] = "none" /\ outbox'[o] = outbox[o] /\ exec'[o] = exec[o]
        /\ dispatches'[o] = dispatches[o] /\ (o \in acked' <=> o \in acked)
        /\ client'[o] \notin {"asking", "broken", "again"}
    BY <1>1, <1>2, <1>3 DEF InFlight, Acknowledged, Reported, extVars
  <2>2. AsksOverHttp(o)' /\ OutboxRemembers(o)'
    BY <2>1 DEF OpInv, AsksOverHttp, OutboxRemembers
  <2>3. ASSUME Tracked(o)' PROVE OnePlace(o) /\ Truthful(o) /\ Retained(o)
    BY <1>2, <2>3 DEF OpInv, Tracked
  <2>4. ASSUME Tracked(o)' PROVE OnePlace(o)'
    <3>1. client'[o] = "idle" => client[o] = "idle"
      BY <1>3
    <3>2. ASSUME client[o] = "idle" PROVE Unreached(o)
      BY <2>3, <2>4, <3>2 DEF OpInv, AsksOverHttp, OnePlace
    <3>3. ASSUME client'[o] = "idle" PROVE Unreached(o)'
      BY <2>1, <3>1, <3>2, <3>3 DEF Unreached
    <3>. QED BY <2>1, <2>3, <2>4, <3>3 DEF OnePlace, Early
  <2>5. ASSUME Tracked(o)' PROVE Truthful(o)'
    <3>1. ASSUME NEW y \in {"done", "not_started"}, Holds(o, y)' PROVE Holds(o, y)
      BY <1>3, <2>1, <3>1 DEF Holds, Outcome
    <3>. QED BY <2>1, <2>3, <2>5, <3>1 DEF Truthful, Early
  <2>6. ASSUME Tracked(o)' PROVE Retained(o)'
    BY <2>1, <2>6 DEF Retained
  <2>. QED BY <2>2, <2>4, <2>5, <2>6 DEF OpInv
<1>. QED BY <1>4, <1>5

-----------------------------------------------------------------------------
LEMMA InitIInv == Init => IInv
<1>1. SUFFICES ASSUME Init PROVE IInv
  OBVIOUS
<1>2. ledger.state = [op \in Op |-> "none"] /\ ledger.evicted = {} /\ ledger \in Ledger
  <2>1. NewLedger.state \in [Op -> Outcome \cup {"none", "running"}] /\ NewLedger.age \in Seq(Op)
    BY DEF NewLedger
  <2>. QED BY <1>1, <2>1 DEF Init, NewLedger, Ledger
<1>3. Types
  <2>1. /\ client \in [Op -> Clients] /\ http \in [Op -> Https]
        /\ socket \in Sockets /\ dispatches \in [Op -> Nat]
    BY <1>1 DEF Init, Clients, Https, Sockets
  <2>2. faults \in 0..MaxFaults
    BY <1>1, DeliveryAssumption DEF Init
  <2>. QED BY <1>1, <1>2, <2>1, <2>2 DEF Init, Types
<1>4. ASSUME NEW op \in Op PROVE OpInv(op)
  BY <1>1, <1>2 DEF Init, OpInv, AsksOverHttp, OutboxRemembers, OnePlace, Unreached, InFlight,
       Acknowledged, Reported, Truthful, Holds, Retained, Outcome, Early
<1>. QED BY <1>3, <1>4 DEF IInv

LEMMA NextIInv ==
  ASSUME IInv, [Next]_vars
  PROVE  IInv'
<1>1. CASE UNCHANGED vars
  <2>1. Types'
    BY <1>1 DEF vars, brokerVars, wireVars, extVars, IInv, Types
  <2>2. ASSUME NEW o \in Op PROVE Quiet(o)
    BY <1>1 DEF vars, brokerVars, wireVars, extVars, Quiet, InFlight, Acknowledged, Reported
  <2>. QED BY <2>1, <2>2, QuietStep
<1>2. ASSUME NEW op \in Op, Ask(op) \/ DeadlinePasses(op) \/ HttpDrop(op) \/ ClientStep(op)
      PROVE  IInv'
  BY <1>2, AskKeeps, DeadlineKeeps, HttpDropKeeps, ReplyKeeps, RetryKeeps, AskNewBrokerKeeps
     DEF ClientStep
<1>3. ASSUME NEW op \in Op, HandleCommand(op) \/ Cancel(op) \/ BridgeStep(op)
      PROVE  IInv'
  BY <1>3, HandleCommandKeeps, CancelKeeps, ExpireKeeps, SendNowKeeps, WriteKeeps, WriteFailsKeeps,
     PendingTimeoutKeeps DEF BridgeStep
<1>4. ASSUME NEW op \in Op, NEW x \in Outcome,
             ReceiveResult(op, x) \/ ReceiveResultUnanswered(op, x)
      PROVE  IInv'
  BY <1>4, ReceiveResultKeeps, ReceiveResultUnansweredKeeps
<1>5. ASSUME NEW op \in Op, ExtensionStep(op)
      PROVE  IInv'
  BY <1>5, ReserveKeeps, ReceiveCancelKeeps, EnterKeeps, FinishKeeps, ReceiveAckKeeps,
     ReceiveBackpressureKeeps, FlushCalledKeeps DEF ExtensionStep
<1>6. CASE \/ LinkLost \/ BrokerNotices \/ Reconnect \/ WorkerDies \/ BrokerDies
           \/ FlushWhenReady \/ FlushEnds
  BY <1>6, LinkLostKeeps, BrokerNoticesKeeps, ReconnectKeeps, WorkerDiesKeeps, BrokerDiesKeeps,
     FlushCalledKeeps, FlushEndsKeeps
<1>. QED BY <1>1, <1>2, <1>3, <1>4, <1>5, <1>6 DEF Next

(* Every operation stays tracked by the argument above, whatever fails.      *)
THEOREM InductiveInvariant == Spec => []IInv
BY InitIInv, NextIInv, PTL DEF Spec

LEMMA IInvAnswers ==
  ASSUME IInv
  PROVE  OnceAndTruthfully
<1>1. AtMostOnceDispatch
  <2>1. ASSUME NEW op \in Op, dispatches[op] > 1
        PROVE  op \in acked /\ op \in ReadOnly \cup ledger.evicted
    <3>1. dispatches[op] \in Nat /\ OpInv(op)
      BY DEF IInv, Types
    <3>2. op \in acked
      BY <2>1, <3>1 DEF OpInv, OutboxRemembers
    <3>3. ~Tracked(op)
      BY <2>1, <3>1 DEF OpInv, OnePlace
    <3>. QED BY <3>2, <3>3 DEF Tracked
  <2>. QED BY <2>1 DEF AtMostOnceDispatch
<1>2. AnswersAreTruthful
  BY DEF IInv, OpInv, Tracked, Truthful, Holds, AnswersAreTruthful
<1>. QED BY <1>1, <1>2 DEF OnceAndTruthfully

(* Whatever is lost, repeated, restarted or late, a request is run at most   *)
(* once and its caller is told truly whether it was: OnceAndTruthfully of    *)
(* the run delivery, for any number of operations, faults and limits.        *)
THEOREM RunsOnceAndTellsTruly == Spec => []OnceAndTruthfully
BY InductiveInvariant, IInvAnswers, PTL

LEMMA IInvRetains ==
  ASSUME IInv
  PROVE  AcknowledgedIsRetained
BY DEF IInv, OpInv, Tracked, Retained, Acknowledged, AcknowledgedIsRetained, Outcome

(* The extension is told to drop its durable copy of a result only while the *)
(* broker holds that result, in the ledger or among the confirmed ones.      *)
THEOREM AcknowledgesOnlyWhatItKeeps == Spec => []AcknowledgedIsRetained
BY InductiveInvariant, IInvRetains, PTL

-----------------------------------------------------------------------------
(* The ledger lists every record once, in no more places than it has.        *)

Listed(l) ==
  /\ \A i, j \in 1..Len(l.age) : l.age[i] = l.age[j] => i = j
  /\ \A o \in Op : l.state[o] # "none" <=> \E i \in 1..Len(l.age) : l.age[i] = o

LEMMA RemoveListed ==
  ASSUME NEW l \in Ledger, Listed(l), NEW i \in 1..Len(l.age)
  PROVE  LET e == removeRequest(l, i)
         IN /\ e \in Ledger /\ Listed(e) /\ Len(e.age) = Len(l.age) - 1
            /\ l.age[i] \in Op /\ e.state = [l.state EXCEPT ![l.age[i]] = "none"]
<1>1. PICK e : e = removeRequest(l, i)
  OBVIOUS
<1>2. l.age \in Seq(Op) /\ Len(l.age) \in Nat /\ i \in Nat /\ l.age[i] \in Op
  BY LenProperties, ElementOfSeq DEF Ledger
<1>3. /\ e.state = [l.state EXCEPT ![l.age[i]] = "none"]
      /\ e.age = RemoveAt(l.age, i) /\ e.evicted = l.evicted
      /\ e = [state |-> e.state, age |-> e.age, evicted |-> e.evicted]
  BY <1>1 DEF removeRequest
<1>4. /\ e.age \in Seq(Op) /\ Len(e.age) = Len(l.age) - 1
      /\ \A j \in 1..(Len(l.age) - 1) : e.age[j] = IF j < i THEN l.age[j] ELSE l.age[j + 1]
  BY <1>2, <1>3, RemoveAtProperties
<1>5. e \in Ledger
  <2>1. e.state \in [Op -> Outcome \cup {"none", "running"}] /\ e.evicted \in SUBSET Op
    BY <1>2, <1>3 DEF Ledger
  <2>. QED BY <1>3, <1>4, <2>1 DEF Ledger
<1> DEFINE from(j) == IF j < i THEN j ELSE j + 1
<1>6. ASSUME NEW j \in 1..Len(e.age)
      PROVE  from(j) \in 1..Len(l.age) /\ from(j) # i /\ e.age[j] = l.age[from(j)]
  <2>1. j \in 1..(Len(l.age) - 1) /\ j \in Nat /\ j + 1 \in 1..Len(l.age)
    BY <1>2, <1>4
  <2>2. CASE j < i
    BY <1>2, <1>4, <2>1, <2>2
  <2>3. CASE ~(j < i)
    <3>1. from(j) = j + 1 /\ e.age[j] = l.age[j + 1]
      BY <1>4, <2>1, <2>3
    <3>. QED BY <1>2, <2>1, <2>3, <3>1
  <2>. QED BY <2>2, <2>3
<1>7. \A j, k \in 1..Len(e.age) : from(j) = from(k) => j = k
  BY <1>2, <1>4
<1>8. \A k \in 1..Len(l.age) : k # i => \E j \in 1..Len(e.age) : from(j) = k
  <2>1. ASSUME NEW k \in 1..Len(l.age), k # i PROVE \E j \in 1..Len(e.age) : from(j) = k
    <3>1. CASE k < i
      <4>1. k \in 1..Len(e.age) /\ from(k) = k
        BY <1>2, <1>4, <3>1
      <4>. QED BY <4>1
    <3>2. CASE k > i
      <4>1. k - 1 \in 1..Len(e.age) /\ from(k - 1) = k
        BY <1>2, <1>4, <3>2
      <4>. QED BY <4>1
    <3>. QED BY <1>2, <2>1, <3>1, <3>2
  <2>. QED BY <2>1
<1> HIDE DEF from
<1>9. ASSUME NEW j \in 1..Len(e.age), NEW k \in 1..Len(e.age), e.age[j] = e.age[k]
      PROVE  j = k
  <2>1. from(j) \in 1..Len(l.age) /\ from(k) \in 1..Len(l.age) /\ l.age[from(j)] = l.age[from(k)]
    BY <1>6, <1>9
  <2>2. from(j) = from(k)
    BY <2>1 DEF Listed
  <2>. QED BY <1>7, <2>2
<1>10. ASSUME NEW o \in Op
       PROVE  e.state[o] # "none" <=> \E j \in 1..Len(e.age) : e.age[j] = o
  <2>1. CASE o = l.age[i]
    <3>1. e.state[o] = "none"
      BY <1>3, <2>1 DEF Ledger
    <3>2. \A j \in 1..Len(e.age) : e.age[j] # o
      BY <1>6, <2>1 DEF Listed
    <3>. QED BY <3>1, <3>2
  <2>2. CASE o # l.age[i]
    <3>1. e.state[o] = l.state[o]
      BY <1>2, <1>3, <2>2 DEF Ledger
    <3>2. (\E k \in 1..Len(l.age) : l.age[k] = o) <=> \E j \in 1..Len(e.age) : e.age[j] = o
      BY <1>6, <1>8, <2>2
    <3>. QED BY <3>1, <3>2 DEF Listed
  <2>. QED BY <2>1, <2>2
<1>. QED BY <1>1, <1>2, <1>3, <1>4, <1>5, <1>9, <1>10 DEF Listed

LEMMA InsertListed ==
  ASSUME NEW l \in Ledger, Listed(l), NEW op \in Op, NEW x \in Outcome \cup {"running"},
         l.state[op] = "none"
  PROVE  LET e == insert(l, op, x) IN Listed(e) /\ Len(e.age) = Len(l.age) + 1
<1>1. PICK e : e = insert(l, op, x)
  OBVIOUS
<1>2. e \in Ledger /\ e.state = [l.state EXCEPT ![op] = x] /\ e.age = Append(l.age, op)
  BY <1>1, InsertProperties
<1>3. /\ l.age \in Seq(Op) /\ Len(l.age) \in Nat
      /\ Len(e.age) = Len(l.age) + 1
      /\ \A i \in 1..Len(l.age) : e.age[i] = l.age[i]
      /\ e.age[Len(l.age) + 1] = op
  BY <1>2, LenProperties, AppendProperties DEF Ledger
<1>4. \A i \in 1..Len(l.age) : l.age[i] # op
  BY DEF Listed
<1>5. ASSUME NEW i \in 1..Len(e.age), NEW j \in 1..Len(e.age), e.age[i] = e.age[j]
      PROVE  i = j
  <2>1. /\ i \in 1..Len(l.age) \/ i = Len(l.age) + 1
        /\ j \in 1..Len(l.age) \/ j = Len(l.age) + 1
    BY <1>3
  <2>2. CASE i \in 1..Len(l.age) /\ j \in 1..Len(l.age)
    <3>1. l.age[i] = l.age[j]
      BY <1>3, <1>5, <2>2
    <3>. QED BY <2>2, <3>1 DEF Listed
  <2>. QED BY <1>3, <1>4, <1>5, <2>1, <2>2
<1>6. ASSUME NEW o \in Op
      PROVE  e.state[o] # "none" <=> \E j \in 1..Len(e.age) : e.age[j] = o
  <2>1. CASE o = op
    <3>1. Len(l.age) + 1 \in 1..Len(e.age) /\ e.state[o] # "none"
      BY <1>2, <1>3, <2>1 DEF Ledger, Outcome
    <3>. QED BY <1>3, <2>1, <3>1
  <2>2. CASE o # op
    <3>1. e.state[o] = l.state[o]
      BY <1>2, <2>2 DEF Ledger
    <3>2. (\E k \in 1..Len(l.age) : l.age[k] = o) <=> \E j \in 1..Len(e.age) : e.age[j] = o
      BY <1>3, <2>2
    <3>. QED BY <3>1, <3>2 DEF Listed
  <2>. QED BY <2>1, <2>2
<1>. QED BY <1>1, <1>3, <1>5, <1>6 DEF Listed

(* An eviction only ever takes a settled record.                             *)
LEMMA EvictListed ==
  ASSUME NEW l \in Ledger, Listed(l)
  PROVE  LET e == evictSettled(l)
         IN /\ e \in Ledger /\ Listed(e) /\ Len(e.age) <= Len(l.age)
            /\ \A o \in Op : l.state[o] = "running" => e.state[o] = "running"
            /\ \A o \in Op : l.state[o] = "none" => e.state[o] = "none"
<1>0. Len(l.age) \in Nat
  BY LenProperties DEF Ledger
<1>1. CASE evictSettled(l) = l
  BY <1>0, <1>1
<1>2. ASSUME NEW i \in SettledPositions(l), evictSettled(l) = Evict(l, i)
      PROVE  LET e == evictSettled(l)
             IN /\ e \in Ledger /\ Listed(e) /\ Len(e.age) <= Len(l.age)
                /\ \A o \in Op : l.state[o] = "running" => e.state[o] = "running"
                /\ \A o \in Op : l.state[o] = "none" => e.state[o] = "none"
  <2>1. i \in 1..Len(l.age) /\ l.state[l.age[i]] \in Outcome /\ l.age[i] \in Op
    BY <1>0, LenProperties DEF SettledPositions, Settled, Ledger
  <2>2. PICK r : r = removeRequest(l, i)
    OBVIOUS
  <2>3. /\ r \in Ledger /\ Listed(r) /\ Len(r.age) = Len(l.age) - 1
        /\ r.state = [l.state EXCEPT ![l.age[i]] = "none"]
    BY <2>1, <2>2, RemoveListed
  <2>4. PICK e : e = evictSettled(l)
    OBVIOUS
  <2>5. e \in Ledger /\ e.state = r.state /\ e.age = r.age
    <3>1. e = [r EXCEPT !.evicted = l.evicted \cup {l.age[i]}]
      BY <1>2, <2>2, <2>4 DEF Evict
    <3>2. l.evicted \cup {l.age[i]} \in SUBSET Op
      BY <2>1 DEF Ledger
    <3>. QED BY <2>3, <3>1, <3>2 DEF Ledger
  <2>6. Listed(e) /\ Len(e.age) <= Len(l.age)
    BY <1>0, <2>3, <2>5 DEF Listed
  <2>7. \A o \in Op : /\ l.state[o] = "running" => e.state[o] = "running"
                      /\ l.state[o] = "none" => e.state[o] = "none"
    BY <2>1, <2>3, <2>5 DEF Ledger, Outcome
  <2>. QED BY <2>4, <2>5, <2>6, <2>7
<1>. QED BY <1>1, <1>2, EvictProperties

LEMMA SettleListed ==
  ASSUME NEW l \in Ledger, Listed(l), NEW ops, NEW x \in Outcome,
         \A o \in Op : o \in ops => l.state[o] # "none"
  PROVE  LET e == settle(l, ops, x)
         IN /\ e \in Ledger /\ Listed(e) /\ Len(e.age) <= Len(l.age)
            /\ \A o \in Op : o \notin ops /\ l.state[o] = "running" => e.state[o] = "running"
<1>1. PICK m : m = [l EXCEPT !.state = [op \in Op |-> IF op \in ops THEN x ELSE l.state[op]]]
  OBVIOUS
<1>2. /\ m \in Ledger /\ m.age = l.age
      /\ \A o \in Op : m.state[o] = IF o \in ops THEN x ELSE l.state[o]
  BY <1>1 DEF Ledger
<1>3. \A o \in Op : m.state[o] # "none" <=> l.state[o] # "none"
  BY <1>2 DEF Outcome
<1>4. Listed(m)
  BY <1>2, <1>3 DEF Listed
<1>5. settle(l, ops, x) = evictSettled(m)
  BY <1>1 DEF settle
<1>. QED BY <1>2, <1>4, <1>5, EvictListed

(* The list is as long as there are records.                                 *)
LEMMA ListedCounts ==
  ASSUME NEW l \in Ledger, Listed(l)
  PROVE  /\ {l.age[i] : i \in DOMAIN l.age} = Recorded(l)
         /\ Len(l.age) = Cardinality(Recorded(l))
<1>1. l.age \in Seq(Op) /\ Len(l.age) \in Nat /\ DOMAIN l.age = 1..Len(l.age)
      /\ \A i \in 1..Len(l.age) : l.age[i] \in Op
  BY LenProperties, ElementOfSeq DEF Ledger
<1>2. {l.age[i] : i \in 1..Len(l.age)} = Recorded(l)
  BY <1>1 DEF Listed, Recorded
<1>3. l.age \in [1..Len(l.age) -> Recorded(l)]
  BY <1>1, <1>2, LenProperties
<1>4. \A o \in Recorded(l) : \E i \in 1..Len(l.age) : l.age[i] = o
  BY <1>2
<1>5. ExistsBijection(1..Len(l.age), Recorded(l))
  BY <1>3, <1>4 DEF Listed, ExistsBijection, Bijection, Injection, IsInjective, Surjection
<1>. QED BY <1>1, <1>2, <1>5, FS_CountingElements

-----------------------------------------------------------------------------
(* The bounds, and with them the rest of the type invariant.  Only a running *)
(* record has a command at the bridge, so that what settles was listed.      *)

Books ==
  /\ Listed(ledger) /\ Len(ledger.age) <= MaxRequests
  /\ \A op \in Op : bridge[op] # "none" => ledger.state[op] = "running"

ConfirmedFit == Cardinality(ConfirmedOps) <= MaxConfirmed

LEMMA SameBooks ==
  ASSUME Books, ledger' = ledger, \A o \in Op : bridge'[o] # "none" => bridge[o] # "none"
  PROVE  Books'
BY DEF Books, Listed

LEMMA SameConfirmed ==
  ASSUME ConfirmedFit, confirmed' = confirmed
  PROVE  ConfirmedFit'
BY DEF ConfirmedFit, ConfirmedOps

LEMMA LedgerLength ==
  ASSUME Types
  PROVE  ledger \in Ledger /\ Len(ledger.age) \in Nat
BY LenProperties DEF Types, Ledger

LEMMA SettleBooks ==
  ASSUME Types, Types', Books, NEW ops, NEW x \in Outcome, ledger' = settle(ledger, ops, x),
         \A o \in Op : o \in ops => ledger.state[o] # "none",
         \A o \in Op : bridge'[o] # "none" => bridge[o] # "none" /\ o \notin ops
  PROVE  Books'
<1>1. /\ Listed(ledger') /\ Len(ledger'.age) <= Len(ledger.age)
      /\ \A o \in Op : o \notin ops /\ ledger.state[o] = "running" => ledger'.state[o] = "running"
  BY SettleListed, LedgerLength DEF Books
<1>2. Len(ledger.age) \in Nat /\ Len(ledger'.age) \in Nat /\ MaxRequests \in Nat
  BY LedgerLength, LenProperties, DeliveryAssumption DEF Types, Ledger
<1>. QED BY <1>1, <1>2 DEF Books, Listed

LEMMA SettlesOneBooks ==
  ASSUME Types, Types', Books, NEW op \in Op, NEW x \in Outcome, Settle(op, x),
         bridge[op] # "none"
  PROVE  Books'
<1>1. /\ ledger' = settle(ledger, {op}, x) /\ ledger.state[op] # "none"
      /\ \A o \in Op : bridge'[o] # "none" => bridge[o] # "none" /\ o # op
  BY DEF Settle, Books, Types
<1>. QED BY <1>1, SettleBooks

LEMMA ConfirmedFinite ==
  IsFiniteSet(ConfirmedOps) /\ Cardinality(ConfirmedOps) \in Nat
BY DeliveryAssumption, FS_Subset, FS_CardinalityType DEF ConfirmedOps

LEMMA TakenFit ==
  ASSUME Types, ConfirmedFit, NEW op \in Op, confirmed' = [confirmed EXCEPT ![op] = "none"]
  PROVE  ConfirmedFit'
<1>1. ConfirmedOps' = ConfirmedOps \ {op}
  BY DEF ConfirmedOps, Types
<1>2. Cardinality(ConfirmedOps \ {op}) <= Cardinality(ConfirmedOps)
      /\ Cardinality(ConfirmedOps \ {op}) \in Nat
  BY ConfirmedFinite, FS_RemoveElement, FS_CardinalityType
<1>. QED BY <1>1, <1>2, ConfirmedFinite, DeliveryAssumption DEF ConfirmedFit

LEMMA CachedFit ==
  ASSUME Types, ConfirmedFit, NEW op \in Op, NEW x \in Outcome, Cached(op, x)
  PROVE  ConfirmedFit'
<1>1. CASE ~CacheConfirmed(op)
  BY <1>1, SameConfirmed DEF Cached
<1>2. CASE CacheConfirmed(op)
  <2>1. ConfirmedOps' = ConfirmedOps \cup {op}
    BY <1>2 DEF ConfirmedOps, Types, Cached, Outcome
  <2>2. Cardinality(ConfirmedOps \cup {op}) =
          IF op \in ConfirmedOps THEN Cardinality(ConfirmedOps) ELSE Cardinality(ConfirmedOps) + 1
    BY ConfirmedFinite, FS_AddElement
  <2>3. op \in ConfirmedOps \/ Cardinality(ConfirmedOps) < MaxConfirmed
    BY <1>2 DEF CacheConfirmed, ConfirmedOps
  <2>. QED BY <2>1, <2>2, <2>3, ConfirmedFinite, DeliveryAssumption DEF ConfirmedFit
<1>. QED BY <1>1, <1>2

LEMMA AcceptBooks ==
  ASSUME Types, Types', Books, NEW op \in Op, NEW x \in Outcome, Accept(op, x)
  PROVE  Books'
<1>1. CASE bridge[op] \in Pending
  BY <1>1, SettlesOneBooks DEF Accept, Pending
<1>2. CASE bridge[op] \notin Pending
  BY <1>2, SameBooks DEF Accept
<1>. QED BY <1>1, <1>2

LEMMA CommandBooks ==
  ASSUME Types, Types', Books, ConfirmedFit, NEW op \in Op, HandleCommand(op)
  PROVE  Books' /\ ConfirmedFit'
<1>0. ledger \in Ledger /\ Len(ledger.age) \in Nat /\ MaxRequests \in Nat /\ Listed(ledger)
  BY LedgerLength, DeliveryAssumption DEF Books
<1>1. CASE ReplaceUnknown(op)
  <2>1. PICK i \in Positions(ledger, op) :
          ledger' = evictSettled(insert(removeRequest(ledger, i), op, confirmed[op]))
    BY <1>1 DEF ReplaceUnknown
  <2>2. i \in 1..Len(ledger.age) /\ ledger.age[i] = op /\ confirmed[op] \in Outcome
    BY <1>0, <1>1, <2>1, LenProperties DEF Positions, Ledger, ReplaceUnknown, Types
  <2>3. PICK m : m = removeRequest(ledger, i)
    OBVIOUS
  <2>4. /\ m \in Ledger /\ Listed(m) /\ Len(m.age) = Len(ledger.age) - 1
        /\ m.state = [ledger.state EXCEPT ![op] = "none"]
    BY <1>0, <2>2, <2>3, RemoveListed
  <2>5. PICK n : n = insert(m, op, confirmed[op])
    OBVIOUS
  <2>6. m.state[op] = "none"
    BY <1>0, <2>4 DEF Ledger
  <2>7. n \in Ledger /\ Listed(n) /\ Len(n.age) = Len(m.age) + 1
        /\ n.state = [m.state EXCEPT ![op] = confirmed[op]]
    <3>1. n \in Ledger /\ n.state = [m.state EXCEPT ![op] = confirmed[op]]
      BY <2>2, <2>4, <2>5, InsertProperties
    <3>2. Listed(n) /\ Len(n.age) = Len(m.age) + 1
      BY <2>2, <2>4, <2>5, <2>6, InsertListed
    <3>. QED BY <3>1, <3>2
  <2>8. /\ Listed(ledger') /\ ledger' \in Ledger /\ Len(ledger'.age) <= Len(n.age)
        /\ \A o \in Op : n.state[o] = "running" => ledger'.state[o] = "running"
    BY <2>1, <2>3, <2>5, <2>7, EvictListed
  <2>9. Len(ledger'.age) \in Nat
    BY <2>8, LenProperties DEF Ledger
  <2>10. Len(ledger'.age) <= MaxRequests
    BY <1>0, <2>4, <2>7, <2>8, <2>9 DEF Books
  <2>11. ASSUME NEW o \in Op, bridge'[o] # "none" PROVE ledger'.state[o] = "running"
    <3>1. ledger.state[o] = "running" /\ o # op
      BY <1>1, <2>11 DEF ReplaceUnknown, Books
    <3>2. n.state[o] = "running"
      BY <1>0, <2>4, <2>7, <3>1 DEF Ledger
    <3>. QED BY <2>8, <3>2
  <2>12. Books'
    BY <2>8, <2>10, <2>11 DEF Books, Listed
  <2>. QED BY <1>1, <2>12, TakenFit DEF ReplaceUnknown
<1>2. CASE Join(op) \/ Refuse(op)
  BY <1>2, SameBooks, SameConfirmed DEF Join, Refuse, brokerVars
<1>3. CASE Recover(op) \/ Admit(op)
  <2>1. PICK room : room = evictSettled(ledger)
    OBVIOUS
  <2>2. /\ room \in Ledger /\ Listed(room) /\ Len(room.age) <= Len(ledger.age)
        /\ \A o \in Op : ledger.state[o] = "running" => room.state[o] = "running"
        /\ \A o \in Op : ledger.state[o] = "none" => room.state[o] = "none"
    BY <1>0, <2>1, EvictListed
  <2>3. Len(room.age) \in Nat /\ ledger.state[op] = "none" /\ bridge[op] = "none"
    BY <1>3, <2>2, LenProperties DEF Ledger, Recover, Admit, Unknown, Books
  <2>4. CASE ~(Len(room.age) < MaxRequests)
    <3>1. ledger' = room /\ bridge' = bridge /\ confirmed' = confirmed
      BY <1>3, <2>1, <2>4 DEF Recover, Admit
    <3>. QED BY <1>0, <2>2, <2>3, <3>1, SameConfirmed DEF Books, Listed
  <2>5. CASE Len(room.age) < MaxRequests
    <3>1. PICK x \in Outcome \cup {"running"} :
            /\ ledger' = insert(room, op, x)
            /\ \A o \in Op : bridge'[o] # "none" => bridge[o] # "none" \/ (o = op /\ x = "running")
            /\ confirmed' = confirmed \/ confirmed' = [confirmed EXCEPT ![op] = "none"]
      <4>1. CASE Recover(op)
        <5>1. /\ ledger' = insert(room, op, confirmed[op]) /\ bridge' = bridge
              /\ confirmed' = [confirmed EXCEPT ![op] = "none"] /\ confirmed[op] \in Outcome
          BY <2>1, <2>5, <4>1 DEF Recover, Types
        <5>. QED BY <5>1
      <4>2. CASE Admit(op)
        <5>1. /\ ledger' = insert(room, op, "running") /\ confirmed' = confirmed
              /\ \A o \in Op : bridge'[o] # "none" => bridge[o] # "none" \/ o = op
          BY <2>1, <2>5, <4>2 DEF Admit, Types
        <5>. QED BY <5>1
      <4>. QED BY <1>3, <4>1, <4>2
    <3>2. /\ Listed(ledger') /\ Len(ledger'.age) = Len(room.age) + 1
          /\ ledger'.state = [room.state EXCEPT ![op] = x]
      <4>1. ledger'.state = [room.state EXCEPT ![op] = x]
        BY <2>2, <3>1, InsertProperties
      <4>2. room.state[op] = "none"
        BY <2>2, <2>3
      <4>3. Listed(insert(room, op, x)) /\ Len(insert(room, op, x).age) = Len(room.age) + 1
        BY <2>2, <4>2, InsertListed
      <4>4. Listed(ledger') /\ Len(ledger'.age) = Len(room.age) + 1
        BY <3>1, <4>3
      <4>. QED BY <4>1, <4>4
    <3>3. Len(ledger'.age) <= MaxRequests
      BY <1>0, <2>3, <2>5, <3>2
    <3>4. ASSUME NEW o \in Op, bridge'[o] # "none" PROVE ledger'.state[o] = "running"
      <4>1. CASE o = op
        BY <2>2, <2>3, <3>1, <3>2, <3>4, <4>1 DEF Ledger
      <4>2. CASE o # op
        BY <2>2, <3>1, <3>2, <3>4, <4>2 DEF Ledger, Books
      <4>. QED BY <4>1, <4>2
    <3>5. Books'
      BY <3>2, <3>3, <3>4 DEF Books, Listed
    <3>. QED BY <3>1, <3>5, SameConfirmed, TakenFit
  <2>. QED BY <2>4, <2>5
<1>. QED BY <1>1, <1>2, <1>3 DEF HandleCommand

LEMMA NoticesBooks ==
  ASSUME Types, Types', Books, BrokerNotices
  PROVE  Books'
<1> DEFINE sent == {op \in Op : bridge[op] = "dispatched"}
           unsent == {op \in Op : bridge[op] \in {"buffered", "stranded"}}
<1>0. ledger \in Ledger /\ Len(ledger.age) \in Nat /\ MaxRequests \in Nat /\ Listed(ledger)
  BY LedgerLength, DeliveryAssumption DEF Books
<1>1. PICK m : m = settle(ledger, sent, "lost")
  OBVIOUS
<1>2. /\ m \in Ledger /\ Listed(m) /\ Len(m.age) <= Len(ledger.age)
      /\ \A o \in Op : o \notin sent /\ ledger.state[o] = "running" => m.state[o] = "running"
  <2>1. \A o \in Op : o \in sent => ledger.state[o] # "none"
    BY DEF Books
  <2>2. "lost" \in Outcome
    BY DEF Outcome
  <2>. QED BY <1>0, <1>1, <2>1, <2>2, SettleListed
<1>3. \A o \in Op : o \in unsent => m.state[o] # "none"
  BY <1>2 DEF Books
<1>4. /\ ledger' \in Ledger /\ Listed(ledger') /\ Len(ledger'.age) <= Len(m.age)
      /\ \A o \in Op : o \notin unsent /\ m.state[o] = "running" => ledger'.state[o] = "running"
  <2>1. ledger' = settle(m, unsent, "not_started") /\ "not_started" \in Outcome
    BY <1>1 DEF BrokerNotices, Outcome
  <2>. QED BY <1>2, <1>3, <2>1, SettleListed
<1>5. Len(m.age) \in Nat /\ Len(ledger'.age) \in Nat
  BY <1>2, <1>4, LenProperties DEF Ledger
<1>6. ASSUME NEW o \in Op, bridge'[o] # "none" PROVE ledger'.state[o] = "running"
  <2>1. bridge[o] # "none" /\ o \notin sent /\ o \notin unsent
    BY <1>6 DEF BrokerNotices, Pending
  <2>. QED BY <1>2, <1>4, <2>1 DEF Books
<1>. QED BY <1>0, <1>2, <1>4, <1>5, <1>6 DEF Books, Listed

LEMMA NextBooks ==
  ASSUME Types, Types', Books, ConfirmedFit, [Next]_vars
  PROVE  Books' /\ ConfirmedFit'
<1>1. CASE UNCHANGED vars
  BY <1>1, SameBooks, SameConfirmed DEF vars, brokerVars
<1>2. ASSUME NEW op \in Op, Ask(op) \/ DeadlinePasses(op) \/ HttpDrop(op) \/ ClientStep(op)
      PROVE  Books' /\ ConfirmedFit'
  <2>1. ledger' = ledger /\ bridge' = bridge /\ confirmed' = confirmed
    BY <1>2 DEF Ask, DeadlinePasses, HttpDrop, ClientStep, Reply, Retry, AskNewBroker, brokerVars
  <2>. QED BY <2>1, SameBooks, SameConfirmed
<1>3. ASSUME NEW op \in Op, Cancel(op) \/ BridgeStep(op)
      PROVE  Books' /\ ConfirmedFit'
  <2>1. confirmed' = confirmed
    BY <1>3 DEF Cancel, BridgeStep, Expire, SendNow, Write, WriteFails, PendingTimeout
  <2>2. \/ bridge[op] # "none" /\ \E x \in Outcome : Settle(op, x)
        \/ ledger' = ledger /\ \A o \in Op : bridge'[o] # "none" => bridge[o] # "none"
    BY <1>3 DEF Cancel, BridgeStep, Expire, SendNow, Write, WriteFails, PendingTimeout, Outcome,
         Pending, Types
  <2>. QED BY <2>1, <2>2, SettlesOneBooks, SameBooks, SameConfirmed
<1>4. ASSUME NEW op \in Op, NEW x \in Outcome,
             ReceiveResult(op, x) \/ ReceiveResultUnanswered(op, x)
      PROVE  Books' /\ ConfirmedFit'
  <2>1. Accept(op, x) /\ (Cached(op, x) \/ confirmed' = [confirmed EXCEPT ![op] = "none"])
    BY <1>4 DEF ReceiveResult, ReceiveResultUnanswered
  <2>. QED BY <2>1, AcceptBooks, CachedFit, TakenFit
<1>5. ASSUME NEW op \in Op, ExtensionStep(op)
      PROVE  Books' /\ ConfirmedFit'
  <2>1. ledger' = ledger /\ bridge' = bridge /\ confirmed' = confirmed
    BY <1>5 DEF ExtensionStep, Reserve, ReceiveCancel, Enter, Finish, ReceiveAck,
         ReceiveBackpressure, FlushAfterPause, brokerVars
  <2>. QED BY <2>1, SameBooks, SameConfirmed
<1>6. CASE LinkLost \/ Reconnect \/ WorkerDies \/ FlushWhenReady \/ FlushEnds
  <2>1. /\ ledger' = ledger /\ confirmed' = confirmed
        /\ \A o \in Op : bridge'[o] # "none" => bridge[o] # "none"
    BY <1>6 DEF LinkLost, Reconnect, WorkerDies, FlushWhenReady, FlushEnds, brokerVars
  <2>. QED BY <2>1, SameBooks, SameConfirmed
<1>7. CASE BrokerNotices
  BY <1>7, NoticesBooks, SameConfirmed DEF BrokerNotices
<1>8. CASE BrokerDies
  <2>1. ledger'.age = << >> /\ \A o \in Op : ledger'.state[o] = "none" /\ bridge'[o] = "none"
    BY <1>8 DEF BrokerDies, NewLedger
  <2>2. ConfirmedOps' = {}
    BY <1>8 DEF BrokerDies, ConfirmedOps
  <2>3. Len(ledger'.age) = 0
    BY <2>1
  <2>. QED BY <2>1, <2>2, <2>3, FS_EmptySet, DeliveryAssumption DEF Books, ConfirmedFit, Listed
<1>. QED BY <1>1, <1>2, <1>3, <1>4, <1>5, <1>6, <1>7, <1>8, CommandBooks DEF Next

LEMMA InitBooks == Init => Books /\ ConfirmedFit
<1>1. SUFFICES ASSUME Init PROVE Books /\ ConfirmedFit
  OBVIOUS
<1>2. /\ ledger.age = << >> /\ Len(ledger.age) = 0 /\ ConfirmedOps = {}
      /\ \A o \in Op : ledger.state[o] = "none" /\ bridge[o] = "none"
  BY <1>1 DEF Init, NewLedger, ConfirmedOps
<1>. QED BY <1>2, FS_EmptySet, DeliveryAssumption DEF Books, ConfirmedFit, Listed

(* A flush that is about to start, or sends, does so on a connection.        *)
Flushes == [at : {"none", "live", "dead"}, ready : BOOLEAN, timers : SUBSET Op, missed : BOOLEAN]

FlushOK == flush \in Flushes /\ (flush.ready \/ flush.at = "live" => extUp)

LEMMA FlushLostFits ==
  ASSUME FlushOK
  PROVE  FlushLost \in Flushes /\ ~FlushLost.ready /\ FlushLost.at # "live"
BY DEF FlushOK, Flushes, FlushLost

LEMMA CalledFits ==
  ASSUME NEW f \in Flushes, f.ready \/ f.at = "live" => extUp, extUp \in BOOLEAN
  PROVE  Called(f) \in Flushes /\ (Called(f).ready \/ Called(f).at = "live" => extUp)
<1>1. [f EXCEPT !.missed = @ \/ (extUp /\ f.at = "dead")] \in Flushes
  BY DEF Flushes
<1>2. [f EXCEPT !.at = IF extUp THEN "live" ELSE "none"] \in Flushes
  BY DEF Flushes
<1>. QED BY <1>1, <1>2 DEF Called, Flushes

LEMMA FlushKeeps ==
  ASSUME Types, FlushOK, [Next]_vars
  PROVE  FlushOK'
<1>1. CASE UNCHANGED <<flush, extUp>>
  BY <1>1 DEF FlushOK
<1>2. CASE flush' = FlushLost
  BY <1>2, FlushLostFits DEF FlushOK
<1>3. CASE WorkerDies
  BY <1>3 DEF WorkerDies, NoFlush, FlushOK, Flushes
<1>4. CASE Reconnect
  <2>1. [flush EXCEPT !.ready = TRUE] \in Flushes
    BY DEF FlushOK, Flushes
  <2>. QED BY <1>4, <2>1 DEF Reconnect, FlushOK
<1>5. ASSUME NEW op \in Op, ReceiveBackpressure(op) PROVE FlushOK'
  <2>1. [flush EXCEPT !.timers = @ \cup {op}] \in Flushes
    BY DEF FlushOK, Flushes
  <2>2. /\ [flush EXCEPT !.timers = @ \cup {op}].ready = flush.ready
        /\ [flush EXCEPT !.timers = @ \cup {op}].at = flush.at
    BY DEF FlushOK, Flushes
  <2>. QED BY <1>5, <2>1, <2>2 DEF ReceiveBackpressure, FlushOK
<1>6. CASE FlushWhenReady
  <2>1. PICK f : f = [flush EXCEPT !.ready = FALSE]
    OBVIOUS
  <2>2. f \in Flushes /\ (f.ready \/ f.at = "live" => extUp)
    BY <2>1 DEF FlushOK, Flushes
  <2>3. flush' = Called(f) /\ extUp' = extUp
    BY <1>6, <2>1 DEF FlushWhenReady, wireVars
  <2>. QED BY <2>2, <2>3, CalledFits DEF FlushOK, Types
<1>7. ASSUME NEW op \in Op, FlushAfterPause(op) PROVE FlushOK'
  <2>1. PICK f : f = [flush EXCEPT !.timers = @ \ {op}]
    OBVIOUS
  <2>2. f \in Flushes /\ (f.ready \/ f.at = "live" => extUp)
    BY <2>1 DEF FlushOK, Flushes
  <2>3. flush' = Called(f) /\ extUp' = extUp
    BY <1>7, <2>1 DEF FlushAfterPause, wireVars
  <2>. QED BY <2>2, <2>3, CalledFits DEF FlushOK, Types
<1>8. CASE FlushEnds
  <2>1. [flush EXCEPT !.at = "none", !.missed = @ /\ flush.at = "dead"] \in Flushes
    BY DEF FlushOK, Flushes
  <2>. QED BY <1>8, <2>1 DEF FlushEnds, FlushOK, Flushes
<1>9. ASSUME NEW op \in Op, Ask(op) \/ DeadlinePasses(op) \/ HttpDrop(op) \/ ClientStep(op)
      PROVE  UNCHANGED <<flush, extUp>>
  BY <1>9 DEF Ask, DeadlinePasses, HttpDrop, ClientStep, Reply, Retry, AskNewBroker, wireVars,
       extVars
<1>10. ASSUME NEW op \in Op, HandleCommand(op)
       PROVE  UNCHANGED <<flush, extUp>>
  BY <1>10 DEF HandleCommand, ReplaceUnknown, Join, Recover, Refuse, Admit, wireVars, extVars
<1>11. ASSUME NEW op \in Op, Cancel(op) \/ BridgeStep(op)
       PROVE  UNCHANGED <<flush, extUp>>
  BY <1>11 DEF Cancel, BridgeStep, Expire, SendNow, Write, WriteFails, PendingTimeout, wireVars,
       extVars
<1>12. ASSUME NEW op \in Op, NEW x \in Outcome,
              ReceiveResult(op, x) \/ ReceiveResultUnanswered(op, x)
       PROVE  UNCHANGED <<flush, extUp>> \/ flush' = FlushLost
  BY <1>12 DEF ReceiveResult, ReceiveResultUnanswered, extVars
<1>13. ASSUME NEW op \in Op, Reserve(op) \/ ReceiveCancel(op) \/ Enter(op) \/ Finish(op)
                                \/ ReceiveAck(op)
       PROVE  UNCHANGED <<flush, extUp>>
  BY <1>13 DEF Reserve, ReceiveCancel, Enter, Finish, ReceiveAck, brokerVars
<1>14. CASE LinkLost \/ BrokerNotices \/ BrokerDies
  BY <1>1, <1>2, <1>14 DEF LinkLost, BrokerNotices, BrokerDies, extVars
<1>15. CASE UNCHANGED vars
  BY <1>1, <1>15 DEF vars, wireVars, extVars
<1>. QED BY <1>1, <1>2, <1>3, <1>4, <1>5, <1>6, <1>7, <1>8, <1>9, <1>10, <1>11, <1>12, <1>13, <1>14,
            <1>15 DEF Next, ExtensionStep

LEMMA InvariantsTypeOK ==
  ASSUME IInv, Books, ConfirmedFit, FlushOK
  PROVE  TypeOK
<1>1. /\ {ledger.age[i] : i \in DOMAIN ledger.age} = Recorded(ledger)
      /\ Len(ledger.age) = Cardinality(Recorded(ledger))
  BY ListedCounts DEF IInv, Types, Books
<1>. QED BY <1>1 DEF TypeOK, IInv, Types, Ledger, Books, ConfirmedFit, FlushOK, Flushes

(* The ledger of requests and the confirmed results stay within their limits *)
(* and the ids in order of age are those on record, each once.               *)
THEOREM TypeCorrect == Spec => []TypeOK
<1>1. Init => IInv /\ Books /\ ConfirmedFit /\ FlushOK
  BY InitIInv, InitBooks DEF Init, NoFlush, FlushOK, Flushes
<1>2. IInv /\ Books /\ ConfirmedFit /\ FlushOK /\ [Next]_vars
        => (IInv /\ Books /\ ConfirmedFit /\ FlushOK)'
  BY NextIInv, NextBooks, FlushKeeps DEF IInv
<1>. QED BY <1>1, <1>2, InvariantsTypeOK, PTL DEF Spec

=============================================================================
