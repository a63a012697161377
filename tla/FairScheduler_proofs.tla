------------------------ MODULE FairScheduler_proofs -------------------------
EXTENDS FairScheduler, SequenceTheorems, FiniteSetTheorems, TLAPS

(* Removing an index from a sequence.                                        *)
LEMMA RemoveAtProperties ==
  ASSUME NEW S, NEW list \in Seq(S), NEW i \in 1..Len(list)
  PROVE  /\ RemoveAt(list, i) \in Seq(S)
         /\ Len(RemoveAt(list, i)) = Len(list) - 1
         /\ \A j \in 1..(Len(list) - 1) :
              RemoveAt(list, i)[j] = IF j < i THEN list[j] ELSE list[j + 1]
<1> DEFINE before == SubSeq(list, 1, i - 1)
           after == SubSeq(list, i + 1, Len(list))
<1>1. /\ before \in Seq(S)
      /\ Len(before) = i - 1
      /\ \A j \in 1..(i - 1) : before[j] = list[j]
  <2>1. \A j \in 1..(i - 1) : list[j] \in S
    BY ElementOfSeq
  <2>2. QED
    BY <2>1, SubSeqProperties
<1>2. /\ after \in Seq(S)
      /\ Len(after) = Len(list) - i
      /\ \A j \in 1..(Len(list) - i) : after[j] = list[i + j]
  <2>1. \A j \in (i + 1)..Len(list) : list[j] \in S
    BY ElementOfSeq
  <2>2. /\ after \in Seq(S)
        /\ Len(after) = IF i + 1 <= Len(list) THEN Len(list) - (i + 1) + 1 ELSE 0
        /\ \A j \in 1..(Len(list) - (i + 1) + 1) : after[j] = list[i + 1 + j - 1]
    BY <2>1, SubSeqProperties
  <2>3. QED
    BY <2>2
<1>3. RemoveAt(list, i) = before \o after
  BY DEF RemoveAt
<1> HIDE DEF before, after
<1>4. /\ before \o after \in Seq(S)
      /\ Len(before \o after) = Len(before) + Len(after)
      /\ \A j \in 1..(Len(before) + Len(after)) :
           (before \o after)[j] = IF j <= Len(before) THEN before[j] ELSE after[j - Len(before)]
  BY <1>1, <1>2, ConcatProperties
<1>5. Len(list) \in Nat /\ i \in Nat
  BY LenProperties
<1>6. ASSUME NEW j \in 1..(Len(list) - 1)
      PROVE  (before \o after)[j] = IF j < i THEN list[j] ELSE list[j + 1]
  <2>1. CASE j < i
    BY <2>1, <1>1, <1>2, <1>4, <1>5
  <2>2. CASE j >= i
    <3>1. (before \o after)[j] = after[j - (i - 1)]
      BY <2>2, <1>1, <1>2, <1>4, <1>5
    <3>2. j - (i - 1) \in 1..(Len(list) - i) /\ i + (j - (i - 1)) = j + 1
      BY <2>2, <1>5
    <3>3. QED
      BY <2>2, <3>1, <3>2, <1>2, <1>5
  <2>3. j < i \/ j >= i
    BY <1>5
  <2>4. QED
    BY <2>1, <2>2, <2>3
<1>7. QED
  BY <1>1, <1>2, <1>3, <1>4, <1>5, <1>6

-----------------------------------------------------------------------------
(* The inductive invariant, as parts of a predicate on the scheduler object. *)

OneEach(s) == \A i, j \in DOMAIN s.queue : s.queue[i] = s.queue[j] => i = j

RingsServe(s) ==
  \A op \in Queued(s) :
    Key(op) \in Members(IF Global(op) THEN s.globalRing.keys ELSE s.sessionRing.keys)

QueueInv(s) ==
  /\ s \in Schedulers
  /\ OneEach(s)
  /\ s.queued = Len(s.queue)
  /\ RingsServe(s)

LoadInv(s) == \A k \in Session : s.load[k] = Cardinality(LoadOf(s, k))

ActiveInv(s) ==
  /\ s.active = Cardinality(Active(s))
  /\ s.active <= s.options.maxConcurrency
  /\ s.activeSessions = {Key(op) : op \in {o \in Active(s) : ~Global(o)}}
  /\ s.activeTabs = UNION {Tabs(op) : op \in Active(s)}
  /\ s.globalActive <=> \E op \in Active(s) : Global(op)

Alone(s) ==
  \A a, b \in Active(s) : a # b =>
    ~Global(a) /\ ~Global(b) /\ Key(a) # Key(b) /\ Tabs(a) \cap Tabs(b) = {}

SchedulerInv(s) ==
  /\ QueueInv(s)
  /\ Queued(s) = InPhase(s, {"queued"})
  /\ LoadInv(s)
  /\ ActiveInv(s)
  /\ Alone(s)

IInv ==
  /\ SchedulerInv(sched)
  /\ late \subseteq InPhase(sched, {"queued", "started"})

-----------------------------------------------------------------------------
(* The lane of an operation.                                                 *)

LEMMA LaneType ==
  ASSUME NEW op \in Op
  PROVE  /\ Key(op) \in Keys
         /\ Tabs(op) \subseteq Tab
         /\ ~Global(op) => Key(op) \in Session
         /\ Global(op) => Tabs(op) = {}
<1>1. Command[op] \in Commands /\ Lane[op] = classifyCommand(Command[op])
  BY OperationAssumption DEF Lane
<1>2. QED
  BY <1>1 DEF Commands, classifyCommand, MustBeExclusive, ProvenOnTab, Key, Tabs, Global, Keys

(* The rings.                                                                *)

LEMMA ModuloType ==
  ASSUME NEW a \in Int, NEW b \in Nat \ {0}
  PROVE  a % b \in Nat
OBVIOUS

LEMMA IndexOfMember ==
  ASSUME NEW keys \in Seq(Keys), NEW key \in Members(keys)
  PROVE  /\ (CHOOSE i \in DOMAIN keys : keys[i] = key) \in 1..Len(keys)
         /\ keys[CHOOSE i \in DOMAIN keys : keys[i] = key] = key
         /\ Len(keys) \in Nat \ {0}
<1>1. \E i \in DOMAIN keys : keys[i] = key
  BY DEF Members
<1>2. DOMAIN keys = 1..Len(keys) /\ Len(keys) \in Nat
  BY LenProperties
<1>3. QED
  BY <1>1, <1>2

LEMMA RingAddProperties ==
  ASSUME NEW ring \in Rings, NEW key \in Keys
  PROVE  /\ RingAdd(ring, key) \in Rings
         /\ Members(RingAdd(ring, key).keys) = Members(ring.keys) \cup {key}
<1>1. ring.keys \in Seq(Keys) /\ ring.next \in Nat
  BY DEF Rings
<1>2. /\ RingAdd(ring, key) = [keys |-> Append(ring.keys, key), next |-> ring.next]
      /\ RingAdd(ring, key).keys = Append(ring.keys, key)
  BY DEF Rings, RingAdd
<1>3. /\ Append(ring.keys, key) \in Seq(Keys)
      /\ DOMAIN Append(ring.keys, key) = 1..(Len(ring.keys) + 1)
      /\ \A i \in 1..Len(ring.keys) : Append(ring.keys, key)[i] = ring.keys[i]
      /\ Append(ring.keys, key)[Len(ring.keys) + 1] = key
      /\ DOMAIN ring.keys = 1..Len(ring.keys)
      /\ Len(ring.keys) \in Nat
  BY <1>1
<1>4. QED
  BY <1>1, <1>2, <1>3 DEF Rings, Members

LEMMA RingRemoveProperties ==
  ASSUME NEW ring \in Rings, NEW key \in Keys
  PROVE  /\ RingRemove(ring, key) \in Rings
         /\ Members(ring.keys) \ {key} \subseteq Members(RingRemove(ring, key).keys)
<1>1. ring.keys \in Seq(Keys) /\ ring.next \in Nat
  BY DEF Rings
<1>2. CASE key \notin Members(ring.keys)
  BY <1>2 DEF RingRemove
<1>3. CASE key \in Members(ring.keys)
  <2> DEFINE i == CHOOSE i \in DOMAIN ring.keys : ring.keys[i] = key
             at == i - 1
             keys == RemoveAt(ring.keys, at + 1)
             next == IF keys = <<>> THEN 0
                     ELSE IF at < ring.next THEN ring.next - 1
                     ELSE ring.next % Len(keys)
  <2>1. i \in 1..Len(ring.keys) /\ ring.keys[i] = key /\ Len(ring.keys) \in Nat \ {0}
    BY <1>1, <1>3, IndexOfMember
  <2>2. RingRemove(ring, key) = [keys |-> keys, next |-> next]
    BY <1>3 DEF RingRemove
  <2> HIDE DEF i
  <2>3. /\ keys \in Seq(Keys)
        /\ Len(keys) = Len(ring.keys) - 1
        /\ \A j \in 1..(Len(ring.keys) - 1) :
             keys[j] = IF j < i THEN ring.keys[j] ELSE ring.keys[j + 1]
    <3>1. at + 1 = i
      BY <2>1
    <3>2. QED
      BY <1>1, <2>1, <3>1, RemoveAtProperties
  <2> HIDE DEF keys
  <2>4. next \in Nat
    <3>1. keys # <<>> => Len(keys) \in Nat \ {0}
      BY <2>3, EmptySeq
    <3>2. keys # <<>> => ring.next % Len(keys) \in Nat
      <4>1. ring.next \in Int
        BY <1>1
      <4>2. QED
        BY <3>1, <4>1, ModuloType, Zenon
    <3>3. at \in Nat /\ (at < ring.next => ring.next - 1 \in Nat)
      BY <1>1, <2>1
    <3>4. QED
      BY <3>2, <3>3
  <2>5. Members(ring.keys) \ {key} \subseteq Members(keys)
    <3>1. SUFFICES ASSUME NEW k \in DOMAIN ring.keys, ring.keys[k] # key
                   PROVE  ring.keys[k] \in Members(keys)
      BY DEF Members
    <3>2. k \in 1..Len(ring.keys) /\ k # i
      BY <1>1, <2>1, <3>1, LenProperties
    <3>3. DOMAIN keys = 1..(Len(ring.keys) - 1)
      BY <2>3, LenProperties
    <3>4. CASE k < i
      <4>1. k \in 1..(Len(ring.keys) - 1) /\ keys[k] = ring.keys[k]
        BY <2>1, <2>3, <3>2, <3>4
      <4>2. QED
        BY <3>3, <4>1 DEF Members
    <3>5. CASE k > i
      <4>1. /\ k - 1 \in 1..(Len(ring.keys) - 1)
            /\ ~(k - 1 < i)
            /\ k - 1 + 1 = k
        BY <2>1, <3>2, <3>5
      <4>2. keys[k - 1] = ring.keys[k]
        BY <2>3, <4>1
      <4>3. QED
        BY <3>3, <4>1, <4>2 DEF Members
    <3>6. k < i \/ k > i
      BY <2>1, <3>2
    <3>7. QED
      BY <3>4, <3>5, <3>6
  <2>6. QED
    BY <2>2, <2>3, <2>4, <2>5 DEF Rings
<1>4. QED
  BY <1>2, <1>3

LEMMA RingServeProperties ==
  ASSUME NEW ring \in Rings, NEW key \in Members(ring.keys)
  PROVE  /\ RingServe(ring, key) \in Rings
         /\ RingServe(ring, key).keys = ring.keys
<1>1. ring.keys \in Seq(Keys) /\ ring.next \in Nat
  BY DEF Rings
<1> DEFINE i == CHOOSE i \in DOMAIN ring.keys : ring.keys[i] = key
<1>2. i \in 1..Len(ring.keys) /\ Len(ring.keys) \in Nat \ {0}
  BY <1>1, IndexOfMember
<1>3. RingServe(ring, key) = [ring EXCEPT !.next = (i - 1 + 1) % Len(ring.keys)]
  BY DEF RingServe
<1> HIDE DEF i
<1>4. (i - 1 + 1) % Len(ring.keys) \in Nat
  <2>1. i - 1 + 1 \in Int
    BY <1>2
  <2>2. QED
    BY <1>2, <2>1, ModuloType, Zenon
<1> DEFINE next == (i - 1 + 1) % Len(ring.keys)
<1>5. RingServe(ring, key) = [ring EXCEPT !.next = next]
  BY <1>3
<1>6. next \in Nat
  BY <1>4
<1> HIDE DEF next
<1>7. QED
  BY <1>1, <1>5, <1>6 DEF Rings

-----------------------------------------------------------------------------
(* Leaving the queue.                                                        *)

(* Fields removeQueued does not touch. *)
SameWork(s, r) ==
  /\ r.options = s.options /\ r.stopped = s.stopped
  /\ r.phase = s.phase /\ r.load = s.load
  /\ r.active = s.active /\ r.globalActive = s.globalActive
  /\ r.activeSessions = s.activeSessions /\ r.activeTabs = s.activeTabs

(* Removing one occurrence from a list without repetition removes the value. *)
LEMMA RemoveOnce ==
  ASSUME NEW S, NEW list \in Seq(S), NEW at \in 1..Len(list),
         \A i, j \in DOMAIN list : list[i] = list[j] => i = j
  PROVE  LET rest == RemoveAt(list, at) IN
         /\ rest \in Seq(S)
         /\ Len(rest) = Len(list) - 1
         /\ \A i, j \in DOMAIN rest : rest[i] = rest[j] => i = j
         /\ {rest[i] : i \in DOMAIN rest} = {list[i] : i \in DOMAIN list} \ {list[at]}
<1> DEFINE rest == RemoveAt(list, at)
           old(j) == IF j < at THEN j ELSE j + 1
<1>1. /\ rest \in Seq(S)
      /\ Len(rest) = Len(list) - 1
      /\ \A j \in 1..(Len(list) - 1) : rest[j] = IF j < at THEN list[j] ELSE list[j + 1]
  BY RemoveAtProperties
<1> HIDE DEF rest
<1>2. /\ DOMAIN list = 1..Len(list) /\ Len(list) \in Nat /\ at \in Nat
      /\ DOMAIN rest = 1..(Len(list) - 1)
  BY <1>1, LenProperties
<1>3. \A j \in DOMAIN rest : old(j) \in DOMAIN list /\ old(j) # at /\ rest[j] = list[old(j)]
  BY <1>1, <1>2
<1>4. \A i, j \in DOMAIN rest : old(i) = old(j) => i = j
  BY <1>2
<1>5. \A k \in DOMAIN list : k # at => \E j \in DOMAIN rest : old(j) = k
  <2>1. SUFFICES ASSUME NEW k \in DOMAIN list, k # at
                 PROVE  \E j \in DOMAIN rest : old(j) = k
    OBVIOUS
  <2>2. CASE k < at
    <3>1. k \in DOMAIN rest /\ old(k) = k
      BY <1>2, <2>1, <2>2
    <3>2. QED
      BY <3>1
  <2>3. CASE k > at
    <3>1. k - 1 \in DOMAIN rest /\ old(k - 1) = k
      BY <1>2, <2>1, <2>3
    <3>2. QED
      BY <3>1
  <2>4. k < at \/ k > at
    BY <1>2, <2>1
  <2>5. QED
    BY <2>2, <2>3, <2>4
<1> HIDE DEF old
<1>6. \A i, j \in DOMAIN rest : rest[i] = rest[j] => i = j
  BY <1>3, <1>4
<1>7. {rest[i] : i \in DOMAIN rest} = {list[i] : i \in DOMAIN list} \ {list[at]}
  <2>1. at \in DOMAIN list
    BY <1>2
  <2>2. \A j \in DOMAIN rest : rest[j] # list[at]
    BY <1>3, <2>1
  <2>3. QED
    BY <1>3, <1>5, <2>1, <2>2
<1>8. QED
  BY <1>1, <1>6, <1>7 DEF rest

LEMMA RemoveQueuedProperties ==
  ASSUME NEW s, QueueInv(s), NEW op \in Queued(s)
  PROVE  /\ QueueInv(removeQueued(s, op))
         /\ Queued(removeQueued(s, op)) = Queued(s) \ {op}
         /\ SameWork(s, removeQueued(s, op))
<1> DEFINE at == CHOOSE i \in DOMAIN s.queue : s.queue[i] = op
           queue == RemoveAt(s.queue, at)
           Shrink(ring) ==
             IF QueueOf(s, op) \ {op} = {} THEN RingRemove(ring, Key(op)) ELSE ring
           sessionRing == IF Global(op) THEN s.sessionRing ELSE Shrink(s.sessionRing)
           globalRing == IF Global(op) THEN Shrink(s.globalRing) ELSE s.globalRing
           r == removeQueued(s, op)
<1>1. /\ s \in Schedulers /\ s.queue \in Seq(Op) /\ s.queued = Len(s.queue)
      /\ s.sessionRing \in Rings /\ s.globalRing \in Rings
      /\ DOMAIN s.queue = 1..Len(s.queue) /\ Len(s.queue) \in Nat
  BY DEF QueueInv, Schedulers
<1>2. at \in 1..Len(s.queue) /\ s.queue[at] = op
  <2>1. \E i \in DOMAIN s.queue : s.queue[i] = op
    BY DEF Queued
  <2>2. QED
    BY <1>1, <2>1
<1>3. r = [s EXCEPT !.queue = queue, !.queued = s.queued - 1,
                    !.sessionRing = sessionRing, !.globalRing = globalRing]
  BY DEF removeQueued
<1> HIDE DEF at
<1>4. /\ queue \in Seq(Op)
      /\ Len(queue) = Len(s.queue) - 1
      /\ \A i, j \in DOMAIN queue : queue[i] = queue[j] => i = j
      /\ {queue[i] : i \in DOMAIN queue} = Queued(s) \ {op}
  BY <1>1, <1>2, RemoveOnce DEF QueueInv, OneEach, Queued
<1>5. op \in Op
  BY <1>1, <1>2, ElementOfSeq
<1>6. Key(op) \in Keys
  BY <1>5, LaneType
<1>7. \A ring \in Rings : /\ Shrink(ring) \in Rings
                          /\ Members(ring.keys) \ {Key(op)} \subseteq Members(Shrink(ring).keys)
                          /\ QueueOf(s, op) \ {op} # {} => Shrink(ring) = ring
  BY <1>6, RingRemoveProperties
<1> HIDE DEF Shrink
<1>8. sessionRing \in Rings /\ globalRing \in Rings
  BY <1>1, <1>7
<1> HIDE DEF queue, sessionRing, globalRing, r
<1>9. /\ r.queue = queue /\ r.queued = s.queued - 1
      /\ r.sessionRing = sessionRing /\ r.globalRing = globalRing
      /\ SameWork(s, r)
      /\ r \in Schedulers
  <2>1. s.queued - 1 \in Nat
    BY <1>1, <1>2
  <2> DEFINE queued == s.queued - 1
  <2>2. queued \in Nat /\ r = [s EXCEPT !.queue = queue, !.queued = queued,
                               !.sessionRing = sessionRing, !.globalRing = globalRing]
    BY <1>3, <2>1
  <2> HIDE DEF queued
  <2>3. r \in Schedulers
    BY <1>1, <1>4, <1>8, <2>2 DEF Schedulers
  <2>4. r.queue = queue /\ r.queued = queued /\ r.sessionRing = sessionRing
        /\ r.globalRing = globalRing /\ SameWork(s, r)
    BY <1>1, <2>2 DEF Schedulers, SameWork
  <2>5. QED
    BY <2>3, <2>4 DEF queued
<1>10. Queued(r) = Queued(s) \ {op}
  <2>1. Queued(r) = {queue[i] : i \in DOMAIN queue}
    BY <1>9 DEF Queued
  <2>2. QED
    BY <1>4, <2>1
<1>11. RingsServe(r)
  <2>1. SUFFICES ASSUME NEW o \in Queued(s), o # op
                 PROVE  Key(o) \in Members(IF Global(o) THEN r.globalRing.keys ELSE r.sessionRing.keys)
    BY <1>10 DEF RingsServe
  <2>2. Key(o) \in Members(IF Global(o) THEN s.globalRing.keys ELSE s.sessionRing.keys)
    BY DEF QueueInv, RingsServe
  <2>3. CASE Global(o) = Global(op) /\ Key(o) = Key(op)
    <3>1. o \in QueueOf(s, op) \ {op}
      BY <2>1, <2>3 DEF QueueOf
    <3>2. r.globalRing = s.globalRing /\ r.sessionRing = s.sessionRing
      BY <1>1, <1>7, <1>9, <3>1 DEF sessionRing, globalRing
    <3>3. QED
      BY <2>2, <3>2
  <2>4. CASE Global(o) # Global(op)
    <3>1. CASE Global(o)
      <4>1. ~Global(op)
        BY <2>4, <3>1 DEF Global
      <4>2. QED
        BY <1>9, <2>2, <3>1, <4>1 DEF globalRing
    <3>2. CASE ~Global(o)
      <4>1. Global(op)
        BY <2>4, <3>2 DEF Global
      <4>2. QED
        BY <1>9, <2>2, <3>2, <4>1 DEF sessionRing
    <3>3. QED
      BY <3>1, <3>2
  <2>5. CASE Key(o) # Key(op)
    <3>1. Key(o) \in Members(IF Global(o) THEN s.globalRing.keys ELSE s.sessionRing.keys) \ {Key(op)}
      BY <2>2, <2>5
    <3>2. QED
      BY <1>1, <1>7, <1>9, <3>1, <2>2 DEF sessionRing, globalRing
  <2>6. QED
    BY <2>3, <2>4, <2>5
<1>12. OneEach(r) /\ r.queued = Len(r.queue)
  BY <1>1, <1>4, <1>9 DEF OneEach
<1>13. QED
  BY <1>9, <1>10, <1>11, <1>12 DEF QueueInv, r

LEMMA RingServedProperties ==
  ASSUME NEW s, QueueInv(s), NEW op \in Queued(s)
  PROVE  /\ QueueInv(ringServed(s, op))
         /\ Queued(ringServed(s, op)) = Queued(s)
         /\ SameWork(s, ringServed(s, op))
<1>1. /\ s \in Schedulers /\ s.queue \in Seq(Op)
      /\ s.sessionRing \in Rings /\ s.globalRing \in Rings
  BY DEF QueueInv, Schedulers
<1>2. CASE s.options.maxConcurrency = 1
  BY <1>2 DEF ringServed, SameWork
<1>3. CASE s.options.maxConcurrency # 1 /\ Global(op)
  <2> DEFINE ring == RingServe(s.globalRing, Key(op))
  <2>1. Key(op) \in Members(s.globalRing.keys)
    BY <1>3 DEF QueueInv, RingsServe
  <2>2. ring \in Rings /\ ring.keys = s.globalRing.keys
    BY <1>1, <2>1, RingServeProperties
  <2>3. ringServed(s, op) = [s EXCEPT !.globalRing = ring]
    BY <1>3 DEF ringServed
  <2> HIDE DEF ring
  <2>4. /\ ringServed(s, op) \in Schedulers
        /\ SameWork(s, ringServed(s, op))
        /\ ringServed(s, op).queue = s.queue /\ ringServed(s, op).queued = s.queued
        /\ ringServed(s, op).sessionRing = s.sessionRing
        /\ ringServed(s, op).globalRing = ring
    BY <1>1, <2>2, <2>3 DEF Schedulers, SameWork
  <2>5. QED
    BY <2>2, <2>4 DEF QueueInv, OneEach, RingsServe, Queued
<1>4. CASE s.options.maxConcurrency # 1 /\ ~Global(op)
  <2> DEFINE ring == RingServe(s.sessionRing, Key(op))
  <2>1. Key(op) \in Members(s.sessionRing.keys)
    BY <1>4 DEF QueueInv, RingsServe
  <2>2. ring \in Rings /\ ring.keys = s.sessionRing.keys
    BY <1>1, <2>1, RingServeProperties
  <2>3. ringServed(s, op) = [s EXCEPT !.sessionRing = ring]
    BY <1>4 DEF ringServed
  <2> HIDE DEF ring
  <2>4. /\ ringServed(s, op) \in Schedulers
        /\ SameWork(s, ringServed(s, op))
        /\ ringServed(s, op).queue = s.queue /\ ringServed(s, op).queued = s.queued
        /\ ringServed(s, op).globalRing = s.globalRing
        /\ ringServed(s, op).sessionRing = ring
    BY <1>1, <2>2, <2>3 DEF Schedulers, SameWork
  <2>5. QED
    BY <2>2, <2>4 DEF QueueInv, OneEach, RingsServe, Queued
<1>5. QED
  BY <1>2, <1>3, <1>4

-----------------------------------------------------------------------------
(* Starting one operation.                                                   *)

LEMMA FiniteOps ==
  ASSUME NEW A, A \subseteq Op
  PROVE  IsFiniteSet(A) /\ Cardinality(A) \in Nat
BY OperationAssumption, FS_Subset, FS_CardinalityType

LEMMA OptionsType ==
  ASSUME NEW s \in Schedulers
  PROVE  s.options.maxConcurrency \in 1..4
<1>1. s.options \in Options
  BY DEF Schedulers
<1>2. s.options \in [maxConcurrency : 1..4,
                    maxQueuePerSession : Nat \ {0},
                    maxQueueTotal : Nat \ {0}]
  BY <1>1, SchedulerAssumption
<1>3. QED
  BY <1>2

(* What #start relies on, whichever lane it was called for. *)
MayStart(s, op) ==
  /\ op \in Queued(s)
  /\ s.active < s.options.maxConcurrency
  /\ Global(op) => Active(s) = {}
  /\ ~Global(op) => /\ ~s.globalActive
                    /\ Key(op) \notin s.activeSessions
                    /\ Tabs(op) \cap s.activeTabs = {}

(* Some of the queued operations have moved to the active ones, and nothing  *)
(* else: what #pump may do.                                                  *)
Granting(s, r) ==
  /\ r.options = s.options
  /\ r.stopped = s.stopped
  /\ Queued(r) \subseteq Queued(s)
  /\ Active(r) = Active(s) \cup (Queued(s) \ Queued(r))
  /\ InPhase(r, {"queued", "started"}) = InPhase(s, {"queued", "started"})

LEMMA GrantingTransitive ==
  ASSUME NEW s, NEW r, NEW q, Granting(s, r), Granting(r, q)
  PROVE  Granting(s, q)
BY DEF Granting

LEMMA GrantingReflexive ==
  ASSUME NEW s
  PROVE  Granting(s, s)
BY DEF Granting

LEMMA StartKeepsInv ==
  ASSUME NEW s, SchedulerInv(s), NEW op, MayStart(s, op)
  PROVE  /\ SchedulerInv(start(ringServed(s, op), op))
         /\ Granting(s, start(ringServed(s, op), op))
         /\ start(ringServed(s, op), op).globalActive <=> s.globalActive \/ Global(op)
         /\ start(ringServed(s, op), op).active = s.active + 1
<1> DEFINE q == removeQueued(ringServed(s, op), op)
           r == start(ringServed(s, op), op)
           active == q.active + 1
           globalActive == q.globalActive \/ Global(op)
           sessions == IF Global(op) THEN q.activeSessions ELSE q.activeSessions \cup {Key(op)}
           tabs == q.activeTabs \cup Tabs(op)
           phase == [q.phase EXCEPT ![op] = "started"]
<1>1. QueueInv(s) /\ op \in Queued(s)
  BY DEF SchedulerInv, MayStart
<1>2. QueueInv(q) /\ Queued(q) = Queued(s) \ {op} /\ SameWork(s, q)
  <2>1. /\ QueueInv(ringServed(s, op))
        /\ Queued(ringServed(s, op)) = Queued(s)
        /\ SameWork(s, ringServed(s, op))
    BY <1>1, RingServedProperties
  <2>2. op \in Queued(ringServed(s, op))
    BY <1>1, <2>1
  <2> DEFINE t == ringServed(s, op)
  <2>3. QueueInv(t) /\ op \in Queued(t) /\ Queued(t) = Queued(s) /\ SameWork(s, t)
    BY <2>1, <2>2
  <2> HIDE DEF t
  <2>4. /\ QueueInv(removeQueued(t, op))
        /\ Queued(removeQueued(t, op)) = Queued(t) \ {op}
        /\ SameWork(t, removeQueued(t, op))
    BY <2>3, RemoveQueuedProperties
  <2>5. q = removeQueued(t, op)
    BY DEF t
  <2>6. QED
    BY <2>3, <2>4, <2>5 DEF SameWork
<1>3. r = [q EXCEPT !.phase = phase, !.active = active, !.globalActive = globalActive,
                    !.activeSessions = sessions, !.activeTabs = tabs]
  BY DEF start
<1>4. /\ q \in Schedulers /\ s \in Schedulers
      /\ s.phase \in [Op -> Phases] /\ q.phase = s.phase
      /\ s.active \in Nat /\ q.active = s.active
  BY <1>1, <1>2 DEF QueueInv, Schedulers, SameWork
<1>5. op \in Op /\ s.phase[op] = "queued"
  BY <1>1 DEF SchedulerInv, InPhase
<1>6. Key(op) \in Keys /\ Tabs(op) \subseteq Tab /\ (~Global(op) => Key(op) \in Session)
      /\ (Global(op) => Tabs(op) = {})
  BY <1>5, LaneType
<1>7. /\ active \in Nat /\ globalActive \in BOOLEAN
      /\ sessions \subseteq Session /\ tabs \subseteq Tab /\ phase \in [Op -> Phases]
  <2>1. q.activeSessions \subseteq Session /\ q.activeTabs \subseteq Tab
    BY <1>4 DEF Schedulers
  <2>2. QED
    BY <1>4, <1>5, <1>6, <2>1 DEF Phases
<1> HIDE DEF q, r, active, globalActive, sessions, tabs, phase
<1>8. /\ r \in Schedulers
      /\ r.queue = q.queue /\ r.queued = q.queued
      /\ r.sessionRing = q.sessionRing /\ r.globalRing = q.globalRing
      /\ r.options = s.options /\ r.stopped = s.stopped /\ r.load = s.load
      /\ r.phase = phase /\ r.active = active /\ r.globalActive = globalActive
      /\ r.activeSessions = sessions /\ r.activeTabs = tabs
  BY <1>2, <1>3, <1>4, <1>7 DEF Schedulers, SameWork
<1>9. QueueInv(r)
  BY <1>2, <1>8 DEF QueueInv, OneEach, RingsServe, Queued
<1>10. Queued(r) = Queued(s) \ {op}
  BY <1>2, <1>8 DEF Queued
<1>11. \A o \in Op : r.phase[o] = IF o = op THEN "started" ELSE s.phase[o]
  BY <1>4, <1>5, <1>8 DEF phase
<1>12. /\ Active(r) = Active(s) \cup {op} /\ op \notin Active(s)
       /\ InPhase(r, {"queued"}) = InPhase(s, {"queued"}) \ {op}
       /\ InPhase(r, {"queued", "started"}) = InPhase(s, {"queued", "started"})
       /\ \A k \in Session : LoadOf(r, k) = LoadOf(s, k)
  BY <1>5, <1>11 DEF Active, InPhase, Holding, LoadOf
<1>13. Queued(r) = InPhase(r, {"queued"})
  BY <1>10, <1>12 DEF SchedulerInv
<1>14. LoadInv(r)
  BY <1>8, <1>12 DEF SchedulerInv, LoadInv
<1>15. ActiveInv(r)
  <2>1. r.active = Cardinality(Active(r)) /\ r.active <= r.options.maxConcurrency
    <3>1. IsFiniteSet(Active(s))
      BY FiniteOps DEF Active, InPhase
    <3>2. Cardinality(Active(r)) = Cardinality(Active(s)) + 1
      BY <1>12, <3>1, FS_AddElement
    <3>3. s.options.maxConcurrency \in Nat
      BY <1>4, OptionsType
    <3>4. QED
      BY <1>4, <1>8, <3>2, <3>3 DEF SchedulerInv, ActiveInv, MayStart, active
  <2>2. r.activeSessions = {Key(o) : o \in {p \in Active(r) : ~Global(p)}}
    BY <1>2, <1>8, <1>12 DEF SchedulerInv, ActiveInv, sessions, SameWork
  <2>3. r.activeTabs = UNION {Tabs(o) : o \in Active(r)}
    <3>1. r.activeTabs = s.activeTabs \cup Tabs(op)
      BY <1>2, <1>8 DEF tabs, SameWork
    <3>2. s.activeTabs = UNION {Tabs(o) : o \in Active(s)}
      BY DEF SchedulerInv, ActiveInv
    <3>3. QED
      BY <1>12, <3>1, <3>2
  <2>4. r.globalActive <=> \E o \in Active(r) : Global(o)
    <3>1. r.globalActive <=> s.globalActive \/ Global(op)
      BY <1>2, <1>8 DEF globalActive, SameWork
    <3>2. s.globalActive <=> \E o \in Active(s) : Global(o)
      BY DEF SchedulerInv, ActiveInv
    <3>3. QED
      BY <1>12, <3>1, <3>2
  <2>5. QED
    BY <2>1, <2>2, <2>3, <2>4 DEF ActiveInv
<1>16. Alone(r)
  <2>1. ASSUME NEW a \in Active(s)
        PROVE  /\ ~Global(a) /\ ~Global(op) /\ Key(a) # Key(op)
               /\ Tabs(a) \cap Tabs(op) = {}
    <3>1. ~Global(op)
      BY <2>1 DEF MayStart
    <3>2. ~s.globalActive /\ Key(op) \notin s.activeSessions /\ Tabs(op) \cap s.activeTabs = {}
      BY <3>1 DEF MayStart
    <3>3. ~Global(a)
      BY <2>1, <3>2 DEF SchedulerInv, ActiveInv
    <3>4. Key(a) \in s.activeSessions /\ Tabs(a) \subseteq s.activeTabs
      BY <2>1, <3>3 DEF SchedulerInv, ActiveInv
    <3>5. QED
      BY <3>1, <3>2, <3>3, <3>4
  <2>2. QED
    BY <1>12, <2>1 DEF Alone, SchedulerInv
<1>17. r.globalActive <=> s.globalActive \/ Global(op)
  BY <1>2, <1>8 DEF globalActive, SameWork
<1>18. r.active = s.active + 1
  BY <1>4, <1>8 DEF active
<1>19. QED
  BY <1>1, <1>8, <1>9, <1>10, <1>12, <1>13, <1>14, <1>15, <1>16, <1>17, <1>18
     DEF SchedulerInv, Granting, r

-----------------------------------------------------------------------------
(* #pump: whatever it starts, one operation at a time may start.             *)

LEMMA EligibleSessionMayStart ==
  ASSUME NEW s, ~s.globalActive, s.active < s.options.maxConcurrency,
         NEW op \in EligibleSession(s)
  PROVE  MayStart(s, op) /\ ~Global(op)
<1>1. PICK i \in DOMAIN s.queue : sessionWorkEligible(s, i) /\ op = s.queue[i]
  BY DEF EligibleSession
<1>2. QED
  BY <1>1 DEF sessionWorkEligible, MayStart, Queued

LEMMA EligibleGlobalMayStart ==
  ASSUME NEW s, SchedulerInv(s), s.active = 0, NEW op \in EligibleGlobal(s)
  PROVE  MayStart(s, op)
<1>1. PICK i \in DOMAIN s.queue : globalWorkEligible(s, i) /\ op = s.queue[i]
  BY DEF EligibleGlobal
<1>2. op \in Queued(s) /\ Global(op)
  BY <1>1 DEF globalWorkEligible, Queued
<1>3. s.active < s.options.maxConcurrency
  BY OptionsType DEF SchedulerInv, QueueInv
<1>4. Active(s) = {}
  <2>1. IsFiniteSet(Active(s)) /\ Cardinality(Active(s)) = 0
    BY FiniteOps DEF Active, InPhase, SchedulerInv, ActiveInv
  <2>2. QED
    BY <2>1, FS_EmptySet
<1>5. QED
  BY <1>2, <1>3, <1>4 DEF MayStart

(* Session work may have started; the exclusive lane has not. *)
SessionsStarted(s, r) == SchedulerInv(r) /\ Granting(s, r) /\ ~r.globalActive

LEMMA StartSessionKeepsInv ==
  ASSUME NEW s, NEW q, SessionsStarted(s, q), NEW r \in startSession(q)
  PROVE  SessionsStarted(s, r)
<1>1. CASE q.active < q.options.maxConcurrency /\ EligibleSession(q) # {}
  <2>1. PICK op \in nextSessionWork(q) : r = start(ringServed(q, op), op)
    BY <1>1 DEF startSession, startAny
  <2>2. op \in EligibleSession(q)
    BY <2>1 DEF nextSessionWork, Earliest, NextInRing
  <2>3. MayStart(q, op) /\ ~Global(op)
    BY <1>1, <2>2, EligibleSessionMayStart DEF SessionsStarted
  <2>4. SchedulerInv(r) /\ Granting(q, r) /\ ~r.globalActive
    BY <2>1, <2>3, StartKeepsInv DEF SessionsStarted
  <2>5. QED
    BY <2>4, GrantingTransitive DEF SessionsStarted
<1>2. CASE ~(q.active < q.options.maxConcurrency /\ EligibleSession(q) # {})
  BY <1>2 DEF startSession
<1>3. QED
  BY <1>1, <1>2

LEMMA StartEachKeepsInv ==
  ASSUME NEW s, NEW states, \A q \in states : SessionsStarted(s, q)
  PROVE  \A r \in startEach(states) : SessionsStarted(s, r)
BY StartSessionKeepsInv DEF startEach

LEMMA StartSessionsKeepsInv ==
  ASSUME NEW s, SchedulerInv(s), ~s.globalActive
  PROVE  \A r \in startSessions(s) : SessionsStarted(s, r)
<1> DEFINE one == startSession(s)
           two == startEach(one)
           three == startEach(two)
<1>1. SessionsStarted(s, s)
  BY GrantingReflexive DEF SessionsStarted
<1>2. \A r \in one : SessionsStarted(s, r)
  BY <1>1, StartSessionKeepsInv
<1> HIDE DEF one
<1>3. \A r \in two : SessionsStarted(s, r)
  BY <1>2, StartEachKeepsInv
<1> HIDE DEF two
<1>4. \A r \in three : SessionsStarted(s, r)
  BY <1>3, StartEachKeepsInv
<1>5. startSessions(s) = startEach(three)
  BY DEF startSessions, three, two, one
<1> HIDE DEF three
<1>6. QED
  BY <1>4, <1>5, StartEachKeepsInv

LEMMA StartNextKeepsInv ==
  ASSUME NEW s, SchedulerInv(s), NEW r \in startNext(s)
  PROVE  SchedulerInv(r) /\ Granting(s, r)
<1>1. CASE s.stopped \/ s.globalActive
  BY <1>1, GrantingReflexive DEF startNext
<1>2. CASE ~(s.stopped \/ s.globalActive) /\ s.active = 0 /\ EligibleGlobal(s) # {}
  <2>1. PICK op \in nextEligibleGlobalWork(s) : r = start(ringServed(s, op), op)
    BY <1>2 DEF startNext, startAny
  <2>2. op \in EligibleGlobal(s)
    BY <2>1 DEF nextEligibleGlobalWork, Earliest, NextInRing
  <2>3. MayStart(s, op)
    BY <1>2, <2>2, EligibleGlobalMayStart
  <2>4. QED
    BY <2>1, <2>3, StartKeepsInv
<1>3. CASE ~(s.stopped \/ s.globalActive) /\ ~(s.active = 0 /\ EligibleGlobal(s) # {})
  <2>1. r \in startSessions(s)
    BY <1>3 DEF startNext
  <2>2. QED
    BY <1>3, <2>1, StartSessionsKeepsInv DEF SessionsStarted
<1>4. QED
  BY <1>1, <1>2, <1>3

LEMMA PumpKeepsInv ==
  ASSUME NEW s, SchedulerInv(s), NEW r \in pump({s})
  PROVE  SchedulerInv(r) /\ Granting(s, r)
<1>1. r \in startNext(s)
  BY DEF pump
<1>2. QED
  BY <1>1, StartNextKeepsInv

-----------------------------------------------------------------------------
(* Admission.                                                                *)

LEMMA EnqueueKeepsInv ==
  ASSUME NEW s, SchedulerInv(s), NEW op \in Op, s.phase[op] = "idle"
  PROVE  /\ SchedulerInv(enqueue(s, op))
         /\ Queued(enqueue(s, op)) = Queued(s) \cup {op}
         /\ Active(enqueue(s, op)) = Active(s)
         /\ InPhase(s, {"queued", "started"}) \subseteq InPhase(enqueue(s, op), {"queued", "started"})
<1> DEFINE r == enqueue(s, op)
           phase == [s.phase EXCEPT ![op] = "queued"]
           queue == Append(s.queue, op)
           queued == s.queued + 1
           load == IF Key(op) = NoSession THEN s.load
                   ELSE [s.load EXCEPT ![Key(op)] = @ + 1]
           sessionRing == IF Global(op) \/ QueueOf(s, op) # {} THEN s.sessionRing
                          ELSE RingAdd(s.sessionRing, Key(op))
           globalRing == IF Global(op) /\ Key(op) \notin Members(s.globalRing.keys)
                         THEN RingAdd(s.globalRing, Key(op)) ELSE s.globalRing
<1>1. /\ s \in Schedulers /\ s.queue \in Seq(Op) /\ s.queued = Len(s.queue)
      /\ s.sessionRing \in Rings /\ s.globalRing \in Rings
      /\ s.load \in [Session -> Nat] /\ s.phase \in [Op -> Phases]
      /\ DOMAIN s.queue = 1..Len(s.queue) /\ Len(s.queue) \in Nat
      /\ OneEach(s) /\ RingsServe(s) /\ Queued(s) = InPhase(s, {"queued"})
  BY DEF SchedulerInv, QueueInv, Schedulers
<1>2. Key(op) \in Keys /\ (Key(op) # NoSession => Key(op) \in Session)
  BY LaneType DEF Keys
<1>3. r = [s EXCEPT !.phase = phase, !.queue = queue, !.queued = queued, !.load = load,
                    !.sessionRing = sessionRing, !.globalRing = globalRing]
  BY DEF enqueue
<1>4. /\ phase \in [Op -> Phases] /\ queued \in Nat /\ load \in [Session -> Nat]
      /\ sessionRing \in Rings /\ globalRing \in Rings
  BY <1>1, <1>2, RingAddProperties DEF Phases
<1>5. /\ queue \in Seq(Op) /\ Len(queue) = Len(s.queue) + 1
      /\ DOMAIN queue = 1..(Len(s.queue) + 1)
      /\ \A i \in 1..Len(s.queue) : queue[i] = s.queue[i]
      /\ queue[Len(s.queue) + 1] = op
  BY <1>1
<1>6. \A o \in Op : phase[o] = IF o = op THEN "queued" ELSE s.phase[o]
  BY <1>1
<1>7. \A k \in Session : load[k] = IF k = Key(op) THEN s.load[k] + 1 ELSE s.load[k]
  BY <1>1, <1>2, LaneAssumption
<1>8. op \notin Queued(s)
  BY <1>1 DEF InPhase
<1>9. /\ Key(op) \in Members(IF Global(op) THEN globalRing.keys ELSE sessionRing.keys)
      /\ Members(s.sessionRing.keys) \subseteq Members(sessionRing.keys)
      /\ Members(s.globalRing.keys) \subseteq Members(globalRing.keys)
  <2>1. \A ring \in Rings : Members(RingAdd(ring, Key(op)).keys) = Members(ring.keys) \cup {Key(op)}
    BY <1>2, RingAddProperties
  <2>2. Members(s.sessionRing.keys) \subseteq Members(sessionRing.keys)
    BY <1>1, <2>1
  <2>3. Members(s.globalRing.keys) \subseteq Members(globalRing.keys)
    BY <1>1, <2>1
  <2>4. Global(op) => Key(op) \in Members(globalRing.keys)
    BY <1>1, <2>1
  <2>5. ASSUME ~Global(op), QueueOf(s, op) # {}
        PROVE  Key(op) \in Members(s.sessionRing.keys)
    <3>1. PICK o \in Queued(s) : Global(o) = Global(op) /\ Key(o) = Key(op)
      BY <2>5 DEF QueueOf
    <3>2. ~Global(o)
      BY <2>5, <3>1 DEF Global
    <3>3. QED
      BY <1>1, <3>1, <3>2 DEF RingsServe
  <2>6. ~Global(op) => Key(op) \in Members(sessionRing.keys)
    BY <1>1, <2>1, <2>5
  <2>7. QED
    BY <2>2, <2>3, <2>4, <2>6
<1> HIDE DEF r, phase, queue, queued, load, sessionRing, globalRing
<1>10. /\ r \in Schedulers
       /\ r.queue = queue /\ r.queued = queued /\ r.phase = phase /\ r.load = load
       /\ r.sessionRing = sessionRing /\ r.globalRing = globalRing
       /\ r.options = s.options /\ r.active = s.active /\ r.globalActive = s.globalActive
       /\ r.activeSessions = s.activeSessions /\ r.activeTabs = s.activeTabs
  BY <1>1, <1>3, <1>4, <1>5 DEF Schedulers
<1>11. Queued(r) = Queued(s) \cup {op}
  <2>1. \A i \in 1..Len(s.queue) : i \in 1..(Len(s.queue) + 1)
    BY <1>1
  <2>2. Len(s.queue) + 1 \in 1..(Len(s.queue) + 1)
    BY <1>1
  <2>3. \A i \in 1..(Len(s.queue) + 1) : i \in 1..Len(s.queue) \/ i = Len(s.queue) + 1
    BY <1>1
  <2>4. QED
    BY <1>1, <1>5, <1>10, <2>1, <2>2, <2>3 DEF Queued
<1>12. OneEach(r)
  <2>1. SUFFICES ASSUME NEW i \in 1..(Len(s.queue) + 1), NEW j \in 1..(Len(s.queue) + 1),
                        queue[i] = queue[j]
                 PROVE  i = j
    BY <1>5, <1>10 DEF OneEach
  <2>2. \A k \in 1..Len(s.queue) : s.queue[k] # op
    BY <1>1, <1>8 DEF Queued
  <2>3. CASE i \in 1..Len(s.queue) /\ j \in 1..Len(s.queue)
    BY <1>1, <1>5, <2>1, <2>3 DEF OneEach
  <2>4. CASE i = Len(s.queue) + 1 /\ j \in 1..Len(s.queue)
    BY <1>5, <2>1, <2>2, <2>4
  <2>5. CASE j = Len(s.queue) + 1 /\ i \in 1..Len(s.queue)
    BY <1>5, <2>1, <2>2, <2>5
  <2>6. QED
    BY <1>1, <2>3, <2>4, <2>5
<1>13. QueueInv(r)
  <2>1. RingsServe(r)
    BY <1>1, <1>9, <1>10, <1>11 DEF RingsServe
  <2>2. r.queued = Len(r.queue)
    BY <1>1, <1>5, <1>10 DEF queued
  <2>3. QED
    BY <1>10, <1>12, <2>1, <2>2 DEF QueueInv
<1>14. /\ InPhase(r, {"queued"}) = InPhase(s, {"queued"}) \cup {op}
       /\ Active(r) = Active(s)
       /\ InPhase(s, {"queued", "started"}) \subseteq InPhase(r, {"queued", "started"})
  BY <1>6, <1>10 DEF InPhase, Active, Holding
<1>15. LoadInv(r)
  <2>1. SUFFICES ASSUME NEW k \in Session
                 PROVE  r.load[k] = Cardinality(LoadOf(r, k))
    BY DEF LoadInv
  <2>2. s.load[k] = Cardinality(LoadOf(s, k))
    BY DEF SchedulerInv, LoadInv
  <2>3. CASE k = Key(op)
    <3>1. LoadOf(r, k) = LoadOf(s, k) \cup {op} /\ op \notin LoadOf(s, k)
      BY <1>6, <1>10, <2>3 DEF LoadOf
    <3>2. IsFiniteSet(LoadOf(s, k))
      BY FiniteOps DEF LoadOf
    <3>3. Cardinality(LoadOf(r, k)) = Cardinality(LoadOf(s, k)) + 1
      BY <3>1, <3>2, FS_AddElement
    <3>4. QED
      BY <1>7, <1>10, <2>2, <2>3, <3>3
  <2>4. CASE k # Key(op)
    <3>1. LoadOf(r, k) = LoadOf(s, k)
      BY <1>6, <1>10, <2>4 DEF LoadOf
    <3>2. QED
      BY <1>7, <1>10, <2>2, <2>4, <3>1
  <2>5. QED
    BY <2>3, <2>4
<1>16. ActiveInv(r) /\ Alone(r)
  BY <1>10, <1>14 DEF SchedulerInv, ActiveInv, Alone
<1>17. QED
  BY <1>1, <1>11, <1>13, <1>14, <1>15, <1>16 DEF SchedulerInv, r

-----------------------------------------------------------------------------
(* Leaving the scheduler, from the queue or after running.                   *)

(* What #releaseAdmission leaves in the per-session loads. *)
ReleasedLoad(s, op) ==
  IF Key(op) = NoSession THEN s.load ELSE [s.load EXCEPT ![Key(op)] = @ - 1]

LEMMA ReleasedLoadCounts ==
  ASSUME NEW s, s \in Schedulers, LoadInv(s), NEW op \in Op, s.phase[op] # "idle",
         NEW r, r.load = ReleasedLoad(s, op), r.phase = [s.phase EXCEPT ![op] = "idle"]
  PROVE  r.load \in [Session -> Nat] /\ LoadInv(r)
<1>1. /\ s.load \in [Session -> Nat] /\ s.phase \in [Op -> Phases]
      /\ Key(op) # NoSession => Key(op) \in Session
  BY LaneType DEF Schedulers, Keys
<1>2. \A o \in Op : r.phase[o] = IF o = op THEN "idle" ELSE s.phase[o]
  BY <1>1
<1>3. /\ DOMAIN r.load = Session
      /\ \A k \in Session : r.load[k] = IF k = Key(op) THEN s.load[k] - 1 ELSE s.load[k]
  BY <1>1, LaneAssumption DEF ReleasedLoad
<1>4. r.load = [k \in Session |-> r.load[k]]
  BY <1>1 DEF ReleasedLoad
<1>5. ASSUME NEW k \in Session
      PROVE  r.load[k] \in Nat /\ r.load[k] = Cardinality(LoadOf(r, k))
  <2>1. s.load[k] = Cardinality(LoadOf(s, k)) /\ IsFiniteSet(LoadOf(s, k))
    BY FiniteOps DEF LoadInv, LoadOf
  <2>2. CASE k = Key(op)
    <3>1. LoadOf(r, k) = LoadOf(s, k) \ {op} /\ op \in LoadOf(s, k)
      BY <1>2, <2>2 DEF LoadOf
    <3>2. Cardinality(LoadOf(r, k)) = Cardinality(LoadOf(s, k)) - 1
      BY <2>1, <3>1, FS_RemoveElement
    <3>3. Cardinality(LoadOf(r, k)) \in Nat
      BY FiniteOps DEF LoadOf
    <3>4. QED
      BY <1>3, <2>1, <2>2, <3>2, <3>3
  <2>3. CASE k # Key(op)
    <3>1. LoadOf(r, k) = LoadOf(s, k)
      BY <1>2, <2>3 DEF LoadOf
    <3>2. QED
      BY <1>1, <1>3, <2>1, <2>3, <3>1
  <2>4. QED
    BY <2>2, <2>3
<1>6. QED
  BY <1>4, <1>5 DEF LoadInv

(* What Expire and Cancel hand to #pump. *)
withdrawn(s, op) ==
  [releaseAdmission(removeQueued(s, op), op) EXCEPT !.phase[op] = "idle"]

LEMMA WithdrawKeepsInv ==
  ASSUME NEW s, SchedulerInv(s), NEW op \in Op, s.phase[op] = "queued"
  PROVE  LET r == withdrawn(s, op) IN
         /\ SchedulerInv(r)
         /\ Queued(r) = Queued(s) \ {op}
         /\ Active(r) = Active(s)
         /\ InPhase(r, {"queued", "started"}) = InPhase(s, {"queued", "started"}) \ {op}
<1> DEFINE r == withdrawn(s, op)
           q == removeQueued(s, op)
           load == ReleasedLoad(q, op)
           phase == [q.phase EXCEPT ![op] = "idle"]
<1>1. s \in Schedulers /\ s.phase \in [Op -> Phases] /\ QueueInv(s) /\ op \in Queued(s)
  BY DEF SchedulerInv, QueueInv, Schedulers, InPhase
<1>2. QueueInv(q) /\ Queued(q) = Queued(s) \ {op} /\ SameWork(s, q)
  BY <1>1, RemoveQueuedProperties
<1> HIDE DEF q, r
<1>3. /\ q \in Schedulers /\ LoadInv(q) /\ q.phase[op] # "idle"
      /\ q.phase = s.phase
  BY <1>2 DEF QueueInv, SchedulerInv, SameWork, LoadInv, LoadOf
<1>4. r = [q EXCEPT !.load = load, !.phase = phase]
  <2>1. CASE Key(op) = NoSession
    BY <1>3, <2>1 DEF releaseAdmission, ReleasedLoad, Schedulers, q, r, withdrawn
  <2>2. CASE Key(op) # NoSession
    BY <1>3, <2>2 DEF releaseAdmission, ReleasedLoad, Schedulers, q, r, withdrawn
  <2>3. QED
    BY <2>1, <2>2
<1>5. r.load = load /\ r.phase = phase
  BY <1>3, <1>4 DEF Schedulers
<1>6. load \in [Session -> Nat] /\ LoadInv(r)
  BY <1>3, <1>5, ReleasedLoadCounts
<1>7. phase \in [Op -> Phases] /\ \A o \in Op : phase[o] = IF o = op THEN "idle" ELSE s.phase[o]
  BY <1>1, <1>3 DEF Phases
<1> HIDE DEF load, phase
<1>8. /\ r \in Schedulers
      /\ r.queue = q.queue /\ r.queued = q.queued
      /\ r.sessionRing = q.sessionRing /\ r.globalRing = q.globalRing
      /\ r.options = q.options /\ r.active = q.active /\ r.globalActive = q.globalActive
      /\ r.activeSessions = q.activeSessions /\ r.activeTabs = q.activeTabs
  BY <1>3, <1>4, <1>6, <1>7 DEF Schedulers
<1>9. QueueInv(r) /\ Queued(r) = Queued(s) \ {op}
  BY <1>2, <1>8 DEF QueueInv, OneEach, RingsServe, Queued
<1>10. /\ InPhase(r, {"queued"}) = InPhase(s, {"queued"}) \ {op}
       /\ InPhase(r, {"queued", "started"}) = InPhase(s, {"queued", "started"}) \ {op}
       /\ Active(r) = Active(s)
  BY <1>5, <1>7 DEF InPhase, Active, Holding
<1>11. ActiveInv(r) /\ Alone(r)
  BY <1>2, <1>8, <1>10 DEF SchedulerInv, ActiveInv, Alone, SameWork
<1>12. QED
  BY <1>6, <1>9, <1>10, <1>11 DEF SchedulerInv, r

LEMMA ReleaseKeepsInv ==
  ASSUME NEW s, SchedulerInv(s), NEW op \in Op, s.phase[op] = "settling"
  PROVE  LET r == release(s, op) IN
         /\ SchedulerInv(r)
         /\ Queued(r) = Queued(s)
         /\ Active(r) = Active(s) \ {op}
         /\ InPhase(r, {"queued", "started"}) = InPhase(s, {"queued", "started"})
<1> DEFINE r == release(s, op)
           load == ReleasedLoad(s, op)
           phase == [s.phase EXCEPT ![op] = "idle"]
           active == s.active - 1
           globalActive == s.globalActive /\ ~Global(op)
           sessions == IF Global(op) THEN s.activeSessions ELSE s.activeSessions \ {Key(op)}
           tabs == s.activeTabs \ Tabs(op)
<1>1. /\ s \in Schedulers /\ s.phase \in [Op -> Phases] /\ QueueInv(s) /\ op \in Active(s)
      /\ s.active = Cardinality(Active(s)) /\ s.active <= s.options.maxConcurrency
      /\ s.options.maxConcurrency \in Nat /\ s.active \in Nat
  <2>1. s \in Schedulers /\ QueueInv(s) /\ s.phase \in [Op -> Phases] /\ s.active \in Nat
    BY DEF SchedulerInv, QueueInv, Schedulers
  <2>2. s.options.maxConcurrency \in Nat
    BY <2>1, OptionsType
  <2>3. QED
    BY <2>1, <2>2 DEF SchedulerInv, ActiveInv, Active, InPhase, Holding
<1>2. Cardinality(Active(s) \ {op}) = Cardinality(Active(s)) - 1
      /\ Cardinality(Active(s) \ {op}) \in Nat
  <2>1. IsFiniteSet(Active(s)) /\ Active(s) \subseteq Op
    BY FiniteOps DEF Active, InPhase
  <2>2. QED
    BY <1>1, <2>1, FS_RemoveElement, FiniteOps
<1>3. r = [s EXCEPT !.load = load, !.phase = phase, !.active = active,
                    !.globalActive = globalActive, !.activeSessions = sessions,
                    !.activeTabs = tabs]
  <2>1. CASE Key(op) = NoSession
    BY <1>1, <2>1 DEF release, releaseAdmission, ReleasedLoad, Schedulers
  <2>2. CASE Key(op) # NoSession
    BY <1>1, <2>2 DEF release, releaseAdmission, ReleasedLoad, Schedulers
  <2>3. QED
    BY <2>1, <2>2
<1>4. r.load = load /\ r.phase = phase
  BY <1>1, <1>3 DEF Schedulers
<1>5. load \in [Session -> Nat] /\ LoadInv(r)
  BY <1>1, <1>4, ReleasedLoadCounts DEF SchedulerInv
<1>6. phase \in [Op -> Phases] /\ \A o \in Op : phase[o] = IF o = op THEN "idle" ELSE s.phase[o]
  BY <1>1 DEF Phases
<1>7. /\ active \in Nat /\ globalActive \in BOOLEAN
      /\ sessions \subseteq Session /\ tabs \subseteq Tab
  BY <1>1, <1>2 DEF Schedulers
<1>8. /\ active = Cardinality(Active(s) \ {op}) /\ active <= s.options.maxConcurrency
  BY <1>1, <1>2
<1>9. /\ sessions = {Key(o) : o \in {p \in Active(s) \ {op} : ~Global(p)}}
      /\ tabs = UNION {Tabs(o) : o \in Active(s) \ {op}}
      /\ globalActive <=> \E o \in Active(s) \ {op} : Global(o)
  <2>1. /\ s.activeSessions = {Key(o) : o \in {p \in Active(s) : ~Global(p)}}
        /\ s.activeTabs = UNION {Tabs(o) : o \in Active(s)}
        /\ s.globalActive <=> \E o \in Active(s) : Global(o)
    BY DEF SchedulerInv, ActiveInv
  <2>2. \A o \in Active(s) \ {op} :
          /\ ~Global(o) /\ ~Global(op)
          /\ Key(o) # Key(op) /\ Tabs(o) \cap Tabs(op) = {}
    BY <1>1 DEF SchedulerInv, Alone
  <2>3. sessions = {Key(o) : o \in {p \in Active(s) \ {op} : ~Global(p)}}
    BY <1>1, <2>1, <2>2
  <2>4. tabs = UNION {Tabs(o) : o \in Active(s) \ {op}}
    BY <1>1, <2>1, <2>2
  <2>5. globalActive <=> \E o \in Active(s) \ {op} : Global(o)
    BY <1>1, <2>1, <2>2
  <2>6. QED
    BY <2>3, <2>4, <2>5
<1> HIDE DEF load, phase, active, globalActive, sessions, tabs, r
<1>10. /\ r \in Schedulers
       /\ r.queue = s.queue /\ r.queued = s.queued
       /\ r.sessionRing = s.sessionRing /\ r.globalRing = s.globalRing
       /\ r.options = s.options /\ r.active = active /\ r.globalActive = globalActive
       /\ r.activeSessions = sessions /\ r.activeTabs = tabs
  BY <1>1, <1>3, <1>5, <1>6, <1>7 DEF Schedulers
<1>11. QueueInv(r) /\ Queued(r) = Queued(s)
  BY <1>1, <1>10 DEF QueueInv, OneEach, RingsServe, Queued
<1>12. /\ InPhase(r, {"queued"}) = InPhase(s, {"queued"})
       /\ InPhase(r, {"queued", "started"}) = InPhase(s, {"queued", "started"})
       /\ Active(r) = Active(s) \ {op}
  BY <1>4, <1>6 DEF InPhase, Active, Holding
<1>13. ActiveInv(r)
  BY <1>8, <1>9, <1>10, <1>12 DEF ActiveInv
<1>14. Alone(r)
  BY <1>12 DEF SchedulerInv, Alone
<1>15. QED
  BY <1>5, <1>11, <1>12, <1>13, <1>14 DEF SchedulerInv, r

LEMMA DispatchedKeepsInv ==
  ASSUME NEW s, SchedulerInv(s), NEW op \in Op, s.phase[op] \in Holding,
         NEW phase \in {"running", "settling"}
  PROVE  LET r == [s EXCEPT !.phase[op] = phase] IN
         /\ SchedulerInv(r)
         /\ Queued(r) = Queued(s)
         /\ Active(r) = Active(s)
         /\ InPhase(s, {"queued", "started"}) \ {op} \subseteq InPhase(r, {"queued", "started"})
<1> DEFINE r == [s EXCEPT !.phase[op] = phase]
           phases == [s.phase EXCEPT ![op] = phase]
<1>1. /\ s \in Schedulers /\ s.phase \in [Op -> Phases] /\ QueueInv(s)
      /\ s.phase[op] # "queued" /\ s.phase[op] # "idle"
  BY DEF SchedulerInv, QueueInv, Schedulers, Holding
<1>2. /\ phases \in [Op -> Phases]
      /\ \A o \in Op : phases[o] = IF o = op THEN phase ELSE s.phase[o]
  BY <1>1 DEF Phases
<1>3. r = [s EXCEPT !.phase = phases]
  BY <1>1 DEF Schedulers
<1> HIDE DEF r, phases
<1>4. /\ r \in Schedulers /\ r.phase = phases
      /\ r.queue = s.queue /\ r.queued = s.queued /\ r.load = s.load
      /\ r.sessionRing = s.sessionRing /\ r.globalRing = s.globalRing
      /\ r.options = s.options /\ r.active = s.active /\ r.globalActive = s.globalActive
      /\ r.activeSessions = s.activeSessions /\ r.activeTabs = s.activeTabs
  BY <1>1, <1>2, <1>3 DEF Schedulers
<1>5. QueueInv(r) /\ Queued(r) = Queued(s)
  BY <1>1, <1>4 DEF QueueInv, OneEach, RingsServe, Queued
<1>6. /\ InPhase(r, {"queued"}) = InPhase(s, {"queued"})
      /\ InPhase(s, {"queued", "started"}) \ {op} \subseteq InPhase(r, {"queued", "started"})
      /\ Active(r) = Active(s)
      /\ \A k \in Session : LoadOf(r, k) = LoadOf(s, k)
  BY <1>1, <1>2, <1>4 DEF InPhase, Active, Holding, LoadOf
<1>7. ActiveInv(r) /\ Alone(r) /\ LoadInv(r)
  BY <1>4, <1>6 DEF SchedulerInv, ActiveInv, Alone, LoadInv
<1>8. QED
  BY <1>5, <1>6, <1>7 DEF SchedulerInv, r

LEMMA StopKeepsInv ==
  ASSUME NEW s, SchedulerInv(s)
  PROVE  LET r == rejectQueued(s) IN
         /\ SchedulerInv(r)
         /\ Queued(r) = {}
         /\ Active(r) = Active(s)
         /\ InPhase(r, {"queued", "started"})
              = InPhase(s, {"queued", "started"}) \ InPhase(s, {"queued"})
<1> DEFINE r == rejectQueued(s)
           phase == [op \in Op |-> IF s.phase[op] = "queued" THEN "idle" ELSE s.phase[op]]
           load == [k \in Session |-> s.load[k] - Cardinality(QueuedOf(s, k))]
<1>1. /\ SchedulerInv(s) /\ s \in Schedulers
      /\ s.phase \in [Op -> Phases] /\ s.load \in [Session -> Nat]
  BY DEF SchedulerInv, QueueInv, Schedulers
<1>2. r = [s EXCEPT !.stopped = TRUE, !.phase = phase, !.queue = <<>>, !.queued = 0,
                             !.load = load, !.sessionRing = EmptyRing, !.globalRing = EmptyRing]
  BY DEF rejectQueued
<1>3. phase \in [Op -> Phases]
  BY <1>1 DEF Phases
<1>4. ASSUME NEW k \in Session
      PROVE  /\ load[k] = Cardinality(LoadOf(s, k) \ QueuedOf(s, k))
             /\ load[k] \in Nat
  <2>1. s.load[k] = Cardinality(LoadOf(s, k)) /\ IsFiniteSet(LoadOf(s, k))
    BY <1>1, FiniteOps DEF LoadOf, SchedulerInv, LoadInv
  <2>2. LoadOf(s, k) \cap QueuedOf(s, k) = QueuedOf(s, k)
    BY DEF LoadOf, QueuedOf, InPhase
  <2>3. Cardinality(LoadOf(s, k) \ QueuedOf(s, k))
          = Cardinality(LoadOf(s, k)) - Cardinality(QueuedOf(s, k))
    <3>1. Cardinality(LoadOf(s, k) \ QueuedOf(s, k))
            = Cardinality(LoadOf(s, k)) - Cardinality(LoadOf(s, k) \cap QueuedOf(s, k))
      BY <2>1, FS_Difference
    <3>2. QED
      BY <2>2, <3>1
  <2>4. Cardinality(LoadOf(s, k) \ QueuedOf(s, k)) \in Nat
    BY FiniteOps DEF LoadOf
  <2>5. QED
    BY <2>1, <2>3, <2>4
<1>5. load \in [Session -> Nat]
  BY <1>4
<1> HIDE DEF phase, load, r
<1>6. EmptyRing \in Rings /\ <<>> \in Seq(Op) /\ Len(<<>>) = 0
  BY DEF EmptyRing, Rings
<1> DEFINE stopped == TRUE
           queue == <<>>
           queued == 0
           ring == EmptyRing
<1>7. /\ r \in Schedulers /\ r.phase = phase /\ r.load = load
      /\ r.queue = <<>> /\ r.queued = 0
      /\ r.options = s.options /\ r.active = s.active
      /\ r.globalActive = s.globalActive
      /\ r.activeSessions = s.activeSessions /\ r.activeTabs = s.activeTabs
  <2>1. r = [s EXCEPT !.stopped = stopped, !.phase = phase, !.queue = queue,
                      !.queued = queued, !.load = load, !.sessionRing = ring, !.globalRing = ring]
    BY <1>2
  <2>2. stopped \in BOOLEAN /\ queue \in Seq(Op) /\ queued \in Nat /\ ring \in Rings
    BY <1>6
  <2> HIDE DEF stopped, queue, queued, ring
  <2>3. r \in Schedulers
    BY <1>1, <1>3, <1>5, <2>1, <2>2 DEF Schedulers
  <2>4. /\ r.phase = phase /\ r.load = load /\ r.queue = queue /\ r.queued = queued
        /\ r.options = s.options /\ r.active = s.active /\ r.globalActive = s.globalActive
        /\ r.activeSessions = s.activeSessions /\ r.activeTabs = s.activeTabs
    BY <1>1, <2>1 DEF Schedulers
  <2>5. QED
    BY <2>3, <2>4 DEF queue, queued
<1>8. QueueInv(r) /\ Queued(r) = {}
  BY <1>6, <1>7 DEF QueueInv, OneEach, RingsServe, Queued
<1>9. /\ InPhase(r, {"queued"}) = {}
      /\ InPhase(r, {"queued", "started"})
           = InPhase(s, {"queued", "started"}) \ InPhase(s, {"queued"})
      /\ Active(r) = Active(s)
      /\ \A k \in Session : LoadOf(r, k) = LoadOf(s, k) \ QueuedOf(s, k)
  BY <1>7 DEF InPhase, Active, Holding, LoadOf, QueuedOf, phase
<1>10. LoadInv(r)
  BY <1>4, <1>7, <1>9 DEF LoadInv
<1>11. ActiveInv(r) /\ Alone(r)
  BY <1>1, <1>7, <1>9 DEF SchedulerInv, ActiveInv, Alone
<1>12. QED
  BY <1>8, <1>9, <1>10, <1>11 DEF SchedulerInv, r

-----------------------------------------------------------------------------
(* The specification.                                                        *)

LEMMA InitSatisfiesIInv ==
  ASSUME Init
  PROVE  IInv /\ Queued(sched) = {} /\ Active(sched) = {}
<1> DEFINE idle == [op \in Op |-> "idle"]
           none == [k \in Session |-> 0]
           queue == <<>>
<1>1. PICK options \in Options :
        sched = [options |-> options, stopped |-> FALSE, phase |-> idle,
                 queue |-> queue, queued |-> 0, active |-> 0, globalActive |-> FALSE,
                 activeSessions |-> {}, activeTabs |-> {}, load |-> none,
                 sessionRing |-> EmptyRing, globalRing |-> EmptyRing]
  BY DEF Init
<1>2. /\ idle \in [Op -> Phases] /\ none \in [Session -> Nat] /\ EmptyRing \in Rings
      /\ queue \in Seq(Op) /\ Len(queue) = 0 /\ DOMAIN queue = {}
  BY DEF Phases, EmptyRing, Rings
<1>3. (\A op \in Op : idle[op] = "idle") /\ (\A k \in Session : none[k] = 0)
  OBVIOUS
<1> HIDE DEF idle, none, queue
<1>4. sched \in Schedulers
  BY <1>1, <1>2 DEF Schedulers
<1>5. Queued(sched) = {} /\ InPhase(sched, {"queued"}) = {} /\ Active(sched) = {}
  BY <1>1, <1>2, <1>3 DEF Queued, InPhase, Active, Holding
<1>6. \A k \in Session : LoadOf(sched, k) = {}
  BY <1>1, <1>3 DEF LoadOf
<1>7. QueueInv(sched)
  BY <1>1, <1>2, <1>4, <1>5 DEF QueueInv, OneEach, RingsServe
<1>8. LoadInv(sched)
  BY <1>1, <1>3, <1>6, FS_EmptySet DEF LoadInv
<1>9. ActiveInv(sched)
  <2>1. sched.options.maxConcurrency \in 1..4
    BY <1>4, OptionsType
  <2>2. sched.active = 0 /\ 0 <= sched.options.maxConcurrency
    BY <1>1, <2>1
  <2>3. Cardinality(Active(sched)) = 0
    BY <1>5, FS_EmptySet
  <2>4. QED
    BY <1>1, <1>5, <2>2, <2>3 DEF ActiveInv
<1>10. Alone(sched)
  BY <1>5 DEF Alone
<1>11. late \subseteq InPhase(sched, {"queued", "started"})
  BY DEF Init
<1>12. QED
  BY <1>5, <1>7, <1>8, <1>9, <1>10, <1>11 DEF IInv, SchedulerInv

(* A pump after an event is the Grant of the abstract specification. *)
LEMMA PumpGrants ==
  ASSUME NEW s, SchedulerInv(s), sched' \in pump({s})
  PROVE  /\ SchedulerInv(sched')
         /\ InPhase(sched', {"queued", "started"}) = InPhase(s, {"queued", "started"})
         /\ Isolation!Grant(Queued(s), Active(s))
<1>1. SchedulerInv(sched') /\ Granting(s, sched')
  BY PumpKeepsInv
<1> DEFINE granted == Queued(s) \ Queued(sched')
<1>2. /\ granted \in SUBSET Queued(s)
      /\ Queued(sched') = Queued(s) \ granted
      /\ Active(sched') = Active(s) \cup granted
  BY <1>1 DEF Granting
<1>3. Isolation!Isolated(Active(sched'))
  <2>1. SUFFICES ASSUME NEW a \in Active(sched'), NEW b \in Active(sched'), a # b
                 PROVE  Isolation!Compatible(a, b)
    BY DEF Isolation!Isolated
  <2>2. a \in Op /\ b \in Op
    BY DEF Active, InPhase
  <2>3. ~Global(a) /\ ~Global(b) /\ Key(a) # Key(b) /\ Tabs(a) \cap Tabs(b) = {}
    BY <1>1, <2>1 DEF SchedulerInv, Alone
  <2>4. Claims(a) \cap Claims(b) = {}
    BY <2>3 DEF Claims
  <2>5. QED
    BY <2>2, <2>3, <2>4 DEF Isolation!Compatible
<1> HIDE DEF granted
<1>4. Isolation!Grant(Queued(s), Active(s))
  BY <1>2, <1>3 DEF Isolation!Grant
<1>5. QED
  BY <1>1, <1>4 DEF Granting

LEMMA NextKeepsIInv ==
  ASSUME IInv, [Next]_vars
  PROVE  IInv' /\ [Isolation!Next]_(Isolation!vars)
<1> USE DEF IInv
<1>1. ASSUME NEW op \in Op, Schedule(op)
      PROVE  IInv' /\ Isolation!Arrive(op)
  <2> DEFINE s == enqueue(sched, op)
  <2>1. /\ SchedulerInv(s)
        /\ Queued(s) = Queued(sched) \cup {op} /\ Active(s) = Active(sched)
        /\ InPhase(sched, {"queued", "started"}) \subseteq InPhase(s, {"queued", "started"})
    BY <1>1, EnqueueKeepsInv DEF Schedule
  <2>2. sched' \in pump({s}) /\ late' = late /\ sched.phase[op] = "idle"
    BY <1>1 DEF Schedule
  <2> HIDE DEF s
  <2>3. /\ SchedulerInv(sched')
        /\ InPhase(sched', {"queued", "started"}) = InPhase(s, {"queued", "started"})
        /\ Isolation!Grant(Queued(s), Active(s))
    BY <2>1, <2>2, PumpGrants
  <2>4. op \notin Queued(sched) \cup Active(sched)
    BY <2>2 DEF SchedulerInv, InPhase, Active, Holding
  <2>5. QED
    BY <2>1, <2>2, <2>3, <2>4 DEF Isolation!Arrive
<1>2. ASSUME NEW op \in Op, DeadlinePasses(op)
      PROVE  IInv' /\ UNCHANGED Isolation!vars
  BY <1>2 DEF DeadlinePasses, InPhase, Isolation!vars
<1>3. ASSUME NEW op \in Op, Expire(op) \/ Cancel(op)
      PROVE  IInv' /\ Isolation!Withdraw(op)
  <2> DEFINE s == withdrawn(sched, op)
  <2>1. sched.phase[op] = "queued" /\ sched' \in pump({s}) /\ late' = late \ {op}
    BY <1>3 DEF Expire, Cancel, withdraw, withdrawn
  <2>2. /\ SchedulerInv(s)
        /\ Queued(s) = Queued(sched) \ {op} /\ Active(s) = Active(sched)
        /\ InPhase(s, {"queued", "started"}) = InPhase(sched, {"queued", "started"}) \ {op}
    BY <2>1, WithdrawKeepsInv
  <2> HIDE DEF s
  <2>3. /\ SchedulerInv(sched')
        /\ InPhase(sched', {"queued", "started"}) = InPhase(s, {"queued", "started"})
        /\ Isolation!Grant(Queued(s), Active(s))
    BY <2>1, <2>2, PumpGrants
  <2>4. op \in Queued(sched)
    BY <2>1 DEF SchedulerInv, InPhase
  <2>5. QED
    BY <2>1, <2>2, <2>3, <2>4 DEF Isolation!Withdraw
<1>4. ASSUME NEW op \in Op, Dispatch(op) \/ Complete(op)
      PROVE  IInv' /\ UNCHANGED Isolation!vars
  <2>1. PICK phase \in {"running", "settling"} : sched' = [sched EXCEPT !.phase[op] = phase]
    BY <1>4 DEF Dispatch, Complete
  <2>2. /\ SchedulerInv(sched') /\ Queued(sched') = Queued(sched) /\ Active(sched') = Active(sched)
        /\ InPhase(sched, {"queued", "started"}) \ {op} \subseteq InPhase(sched', {"queued", "started"})
    <3>1. sched.phase[op] \in Holding
      BY <1>4 DEF Dispatch, Complete, Holding
    <3>2. QED
      BY <2>1, <3>1, DispatchedKeepsInv
  <2>3. late' \subseteq InPhase(sched, {"queued", "started"}) \ {op}
    <3>1. CASE Dispatch(op)
      BY <3>1 DEF Dispatch
    <3>2. CASE Complete(op)
      BY <3>2 DEF Complete, InPhase
    <3>3. QED
      BY <1>4, <3>1, <3>2
  <2>4. QED
    BY <2>2, <2>3 DEF Isolation!vars
<1>5. ASSUME NEW op \in Op, Release(op)
      PROVE  IInv' /\ Isolation!Finish(op)
  <2> DEFINE s == release(sched, op)
  <2>1. sched.phase[op] = "settling" /\ sched' \in pump({s}) /\ late' = late
    BY <1>5 DEF Release
  <2>2. /\ SchedulerInv(s)
        /\ Queued(s) = Queued(sched) /\ Active(s) = Active(sched) \ {op}
        /\ InPhase(s, {"queued", "started"}) = InPhase(sched, {"queued", "started"})
    BY <2>1, ReleaseKeepsInv
  <2> HIDE DEF s
  <2>3. /\ SchedulerInv(sched')
        /\ InPhase(sched', {"queued", "started"}) = InPhase(s, {"queued", "started"})
        /\ Isolation!Grant(Queued(s), Active(s))
    BY <2>1, <2>2, PumpGrants
  <2>4. op \in Active(sched)
    BY <2>1 DEF Active, InPhase, Holding
  <2>5. QED
    BY <2>1, <2>2, <2>3, <2>4 DEF Isolation!Finish
<1>6. ASSUME Stop
      PROVE  IInv' /\ Isolation!Shutdown
  <2>1. sched' = rejectQueued(sched) /\ late' = late \ InPhase(sched, {"queued"})
    BY <1>6 DEF Stop
  <2>2. /\ SchedulerInv(sched') /\ Queued(sched') = {} /\ Active(sched') = Active(sched)
        /\ InPhase(sched', {"queued", "started"})
             = InPhase(sched, {"queued", "started"}) \ InPhase(sched, {"queued"})
    BY <2>1, StopKeepsInv
  <2>3. QED
    BY <2>1, <2>2 DEF Isolation!Shutdown
<1>7. CASE UNCHANGED vars
  BY <1>7 DEF vars, Isolation!vars, InPhase
<1>8. CASE Next
  <2>1. CASE Stop
    BY <1>6, <2>1 DEF Isolation!Next
  <2>2. CASE ~Stop
    <3>1. PICK op \in Op : \/ Schedule(op) \/ DeadlinePasses(op) \/ Expire(op) \/ Cancel(op)
                           \/ Dispatch(op) \/ Complete(op) \/ Release(op)
      BY <1>8, <2>2 DEF Next
    <3>2. QED
      BY <1>1, <1>2, <1>3, <1>4, <1>5, <3>1 DEF Isolation!Next
  <2>3. QED
    BY <2>1, <2>2
<1>9. QED
  BY <1>7, <1>8

(* Type correctness of the scheduler object in every reachable state.        *)
THEOREM TypeCorrect == Spec => []TypeOK
<1>1. Init => IInv
  BY InitSatisfiesIInv
<1>2. IInv /\ [Next]_vars => IInv'
  BY NextKeepsIInv
<1>3. IInv => TypeOK
  BY DEF IInv, SchedulerInv, QueueInv, TypeOK
<1>4. QED
  BY <1>1, <1>2, <1>3, PTL DEF Spec

(* scheduler.ts #releaseAdmission, #removeQueued, #start and its finally():  *)
(* the counters admission decides on equal, for any number of operations,    *)
(* the work they count, and the concurrency limit is never exceeded.         *)
THEOREM AdmissionIsAccounted == Spec => []AdmissionAccounting
<1>1. Init => IInv
  BY InitSatisfiesIInv
<1>2. IInv /\ [Next]_vars => IInv'
  BY NextKeepsIInv
<1>3. IInv => AdmissionAccounting
  BY DEF IInv, SchedulerInv, QueueInv, LoadInv, ActiveInv, AdmissionAccounting
<1>4. QED
  BY <1>1, <1>2, <1>3, PTL DEF Spec

(* The scheduler implements ResourceIsolation: exclusive work runs alone, no *)
(* two operations that run together share a session or a tab, and running    *)
(* work leaves only by finishing, whatever is scheduled, cancelled, expired  *)
(* or stopped.                                                               *)
THEOREM SchedulerIsolates == Spec => SchedulerIsolation
<1>1. Init => IInv /\ Isolation!Init
  BY InitSatisfiesIInv DEF Isolation!Init
<1>2. IInv /\ [Next]_vars => IInv' /\ [Isolation!Next]_(Isolation!vars)
  BY NextKeepsIInv
<1>3. QED
  BY <1>1, <1>2, PTL DEF Spec, SchedulerIsolation, Isolation!Spec

-----------------------------------------------------------------------------
(* Work conservation: a pump stops only when nothing may start.              *)

NothingStartable(s) ==
  ~s.stopped /\ ~s.globalActive =>
    /\ s.active = 0 => EligibleGlobal(s) = {}
    /\ s.active < s.options.maxConcurrency => EligibleSession(s) = {}

SessionsSettled(s) == s.active < s.options.maxConcurrency => EligibleSession(s) = {}

(* After n rounds of the loop: nothing is left to do, or n have started.     *)
Progressed(s, n, r) ==
  /\ SessionsStarted(s, r)
  /\ r = s \/ r.active > s.active
  /\ SessionsSettled(r) \/ r.active >= s.active + n

LEMMA ActiveType ==
  ASSUME NEW s, SchedulerInv(s)
  PROVE  s.active \in Nat /\ s.options.maxConcurrency \in 1..4
BY OptionsType DEF SchedulerInv, QueueInv, Schedulers

LEMMA RoundProgresses ==
  ASSUME NEW s, SchedulerInv(s), NEW n \in Nat, NEW q, Progressed(s, n, q),
         NEW r \in startSession(q)
  PROVE  Progressed(s, n + 1, r)
<1>1. s.active \in Nat /\ q.active \in Nat /\ SchedulerInv(q)
  BY ActiveType DEF Progressed, SessionsStarted
<1>2. SessionsStarted(s, r)
  BY StartSessionKeepsInv DEF Progressed
<1>3. CASE q.active < q.options.maxConcurrency /\ EligibleSession(q) # {}
  <2>1. PICK op \in nextSessionWork(q) : r = start(ringServed(q, op), op)
    BY <1>3 DEF startSession, startAny
  <2>2. op \in EligibleSession(q)
    BY <2>1 DEF nextSessionWork, Earliest, NextInRing
  <2>3. MayStart(q, op)
    BY <1>3, <2>2, EligibleSessionMayStart DEF Progressed, SessionsStarted
  <2>4. r.active = q.active + 1
    BY <1>1, <2>1, <2>3, StartKeepsInv
  <2>5. q.active >= s.active /\ q.active >= s.active + n
    BY <1>1, <1>3 DEF Progressed, SessionsSettled
  <2>6. r.active > s.active /\ r.active >= s.active + (n + 1)
    BY <1>1, <2>4, <2>5
  <2>7. QED
    BY <1>2, <2>6 DEF Progressed
<1>4. CASE ~(q.active < q.options.maxConcurrency /\ EligibleSession(q) # {})
  <2>1. r = q /\ SessionsSettled(q)
    BY <1>4 DEF startSession, SessionsSettled
  <2>2. QED
    BY <1>2, <2>1 DEF Progressed
<1>5. QED
  BY <1>3, <1>4

LEMMA RoundsProgress ==
  ASSUME NEW s, SchedulerInv(s), NEW n \in Nat, NEW states,
         \A q \in states : Progressed(s, n, q)
  PROVE  \A r \in startEach(states) : Progressed(s, n + 1, r)
BY RoundProgresses DEF startEach

(* Four rounds are enough, since no constructor allows more at once.         *)
LEMMA StartSessionsSettles ==
  ASSUME NEW s, SchedulerInv(s), ~s.globalActive, NEW r \in startSessions(s)
  PROVE  SessionsSettled(r) /\ (r = s \/ r.active > s.active)
<1> DEFINE one == startSession(s)
           two == startEach(one)
           three == startEach(two)
<1>1. s.active \in Nat
  BY ActiveType
<1>2. Progressed(s, 0, s)
  BY <1>1, GrantingReflexive DEF Progressed, SessionsStarted
<1>3. \A q \in one : Progressed(s, 1, q)
  <2>1. \A q \in one : Progressed(s, 0 + 1, q)
    BY <1>2, RoundProgresses
  <2>2. QED
    BY <2>1
<1> HIDE DEF one
<1>4. \A q \in two : Progressed(s, 2, q)
  <2>1. \A q \in two : Progressed(s, 1 + 1, q)
    BY <1>3, RoundsProgress
  <2>2. QED
    BY <2>1
<1> HIDE DEF two
<1>5. \A q \in three : Progressed(s, 3, q)
  <2>1. \A q \in three : Progressed(s, 2 + 1, q)
    BY <1>4, RoundsProgress
  <2>2. QED
    BY <2>1
<1>6. startSessions(s) = startEach(three)
  BY DEF startSessions, three, two, one
<1> HIDE DEF three
<1>7. Progressed(s, 4, r)
  <2>1. Progressed(s, 3 + 1, r)
    BY <1>5, <1>6, RoundsProgress
  <2>2. QED
    BY <2>1
<1>8. r.active \in Nat /\ r.options.maxConcurrency \in 1..4
  BY <1>7, ActiveType DEF Progressed, SessionsStarted
<1>9. QED
  BY <1>1, <1>7, <1>8 DEF Progressed, SessionsSettled

LEMMA PumpLeavesNothing ==
  ASSUME NEW s, SchedulerInv(s), NEW r \in pump({s})
  PROVE  NothingStartable(r)
<1>1. r \in startNext(s) /\ s.active \in Nat
  BY ActiveType DEF pump
<1>2. CASE s.stopped \/ s.globalActive
  BY <1>1, <1>2 DEF startNext, NothingStartable
<1>3. CASE ~(s.stopped \/ s.globalActive) /\ s.active = 0 /\ EligibleGlobal(s) # {}
  <2>1. PICK op \in nextEligibleGlobalWork(s) : r = start(ringServed(s, op), op)
    BY <1>1, <1>3 DEF startNext, startAny
  <2>2. op \in EligibleGlobal(s) /\ Global(op)
    BY <2>1 DEF nextEligibleGlobalWork, Earliest, NextInRing, EligibleGlobal, globalWorkEligible
  <2>3. MayStart(s, op)
    BY <1>3, <2>2, EligibleGlobalMayStart
  <2>4. r.globalActive
    BY <2>1, <2>2, <2>3, StartKeepsInv
  <2>5. QED
    BY <2>4 DEF NothingStartable
<1>4. CASE ~(s.stopped \/ s.globalActive) /\ ~(s.active = 0 /\ EligibleGlobal(s) # {})
  <2>1. r \in startSessions(s)
    BY <1>1, <1>4 DEF startNext
  <2>2. SessionsSettled(r) /\ (r = s \/ r.active > s.active)
    BY <1>4, <2>1, StartSessionsSettles
  <2>3. r.active = 0 => EligibleGlobal(r) = {}
    BY <1>1, <1>4, <2>2
  <2>4. QED
    BY <2>2, <2>3 DEF NothingStartable, SessionsSettled
<1>5. QED
  BY <1>2, <1>3, <1>4

LEMMA SameEligible ==
  ASSUME NEW s, NEW r, r.queue = s.queue, r.activeSessions = s.activeSessions,
         r.activeTabs = s.activeTabs
  PROVE  EligibleGlobal(r) = EligibleGlobal(s) /\ EligibleSession(r) = EligibleSession(s)
BY DEF EligibleGlobal, EligibleSession, globalWorkEligible, sessionWorkEligible

LEMMA NextConservesWork ==
  ASSUME IInv, NothingStartable(sched), [Next]_vars
  PROVE  NothingStartable(sched')
<1> USE DEF IInv
<1>1. ASSUME NEW op \in Op, Schedule(op)
      PROVE  NothingStartable(sched')
  BY <1>1, EnqueueKeepsInv, PumpLeavesNothing DEF Schedule
<1>2. ASSUME NEW op \in Op, Expire(op) \/ Cancel(op)
      PROVE  NothingStartable(sched')
  <2>1. sched.phase[op] = "queued" /\ sched' \in pump({withdrawn(sched, op)})
    BY <1>2 DEF Expire, Cancel, withdraw, withdrawn
  <2>2. QED
    BY <2>1, WithdrawKeepsInv, PumpLeavesNothing
<1>3. ASSUME NEW op \in Op, Release(op)
      PROVE  NothingStartable(sched')
  BY <1>3, ReleaseKeepsInv, PumpLeavesNothing DEF Release
<1>4. ASSUME NEW op \in Op, Dispatch(op) \/ Complete(op)
      PROVE  NothingStartable(sched')
  <2>1. PICK phase : sched' = [sched EXCEPT !.phase = phase]
    BY <1>4 DEF Dispatch, Complete
  <2>2. /\ sched'.queue = sched.queue /\ sched'.activeSessions = sched.activeSessions
        /\ sched'.activeTabs = sched.activeTabs /\ sched'.active = sched.active
        /\ sched'.globalActive = sched.globalActive /\ sched'.stopped = sched.stopped
        /\ sched'.options = sched.options
    BY <2>1 DEF SchedulerInv, QueueInv, Schedulers
  <2>3. QED
    BY <2>2, SameEligible DEF NothingStartable
<1>5. CASE Stop
  <2>1. sched'.stopped = TRUE
    BY <1>5 DEF Stop, rejectQueued, SchedulerInv, QueueInv, Schedulers
  <2>2. QED
    BY <2>1 DEF NothingStartable
<1>6. CASE sched' = sched
  BY <1>6
<1>7. QED
  BY <1>1, <1>2, <1>3, <1>4, <1>5, <1>6 DEF Next, DeadlinePasses, vars

(* scheduler.ts #pump, called by every event that frees something: between   *)
(* two events no operation that may start is left waiting.                   *)
THEOREM SchedulerConservesWork == Spec => []WorkConserving
<1>1. Init => IInv /\ NothingStartable(sched)
  <2>1. SUFFICES ASSUME Init PROVE NothingStartable(sched)
    BY InitSatisfiesIInv
  <2>2. Queued(sched) = {}
    BY <2>1, InitSatisfiesIInv
  <2>3. EligibleGlobal(sched) = {} /\ EligibleSession(sched) = {}
    BY <2>2 DEF EligibleGlobal, EligibleSession, Queued
  <2>4. QED
    BY <2>3 DEF NothingStartable
<1>2. IInv /\ NothingStartable(sched) /\ [Next]_vars => IInv' /\ NothingStartable(sched')
  BY NextKeepsIInv, NextConservesWork
<1>3. IInv /\ NothingStartable(sched) /\ [Next]_vars => IInv' /\ NothingStartable(sched)'
  BY <1>2 DEF NothingStartable, EligibleGlobal, EligibleSession, globalWorkEligible, sessionWorkEligible
<1>4. NothingStartable(sched) => WorkConserving
  BY DEF NothingStartable, WorkConserving
<1>5. QED
  BY <1>1, <1>3, <1>4, PTL DEF Spec

-----------------------------------------------------------------------------
(* Admission order: what a pump starts overtakes nothing it must follow.     *)

KeepsOrder(s, r) ==
  \A a, b \in Queued(r) : Earlier(s, a, b) => Earlier(r, a, b)

Overtakes(s, r, op, earlier) ==
  /\ Earlier(s, earlier, op) /\ MustFollow(op, earlier)
  /\ op \notin Queued(r) /\ earlier \in Queued(r)

Orderly(s, r) ==
  /\ Queued(r) \subseteq Queued(s)
  /\ KeepsOrder(s, r)
  /\ \A op, earlier \in Queued(s) : ~Overtakes(s, r, op, earlier)

LEMMA OrderlyReflexive ==
  ASSUME NEW s  PROVE Orderly(s, s)
BY DEF Orderly, KeepsOrder, Overtakes

LEMMA OrderlyTransitive ==
  ASSUME NEW s, NEW q, NEW r, Orderly(s, q), Orderly(q, r)
  PROVE  Orderly(s, r)
<1>1. Queued(r) \subseteq Queued(q) /\ Queued(q) \subseteq Queued(s)
  BY DEF Orderly
<1>2. KeepsOrder(s, r)
  BY <1>1 DEF Orderly, KeepsOrder
<1>3. ASSUME NEW op \in Queued(s), NEW earlier \in Queued(s), Overtakes(s, r, op, earlier)
      PROVE  FALSE
  <2>1. earlier \in Queued(q)
    BY <1>1, <1>3 DEF Overtakes
  <2>2. op \in Queued(q)
    BY <1>3, <2>1 DEF Orderly, Overtakes
  <2>3. Earlier(q, earlier, op)
    BY <1>3, <2>1, <2>2 DEF Orderly, KeepsOrder, Overtakes
  <2>4. QED
    BY <1>3, <2>1, <2>2, <2>3 DEF Orderly, Overtakes
<1>4. QED
  BY <1>1, <1>2, <1>3 DEF Orderly

(* Taking one operation out of the list leaves the others in their order.    *)
LEMMA RemovalKeepsOrder ==
  ASSUME NEW s, NEW r, QueueInv(s), NEW at \in DOMAIN s.queue, r.queue = RemoveAt(s.queue, at),
         NEW a, NEW b, a # s.queue[at], b # s.queue[at], Earlier(s, a, b)
  PROVE  Earlier(r, a, b)
<1>1. PICK i, j \in DOMAIN s.queue : i < j /\ s.queue[i] = a /\ s.queue[j] = b
  BY DEF Earlier
<1>2. s.queue \in Seq(Op) /\ DOMAIN s.queue = 1..Len(s.queue) /\ Len(s.queue) \in Nat
  BY DEF QueueInv, Schedulers
<1>3. at \in 1..Len(s.queue) /\ i \in 1..Len(s.queue) /\ j \in 1..Len(s.queue)
      /\ i # at /\ j # at
  BY <1>1, <1>2
<1>4. /\ r.queue \in Seq(Op)
      /\ Len(r.queue) = Len(s.queue) - 1
      /\ \A k \in 1..(Len(s.queue) - 1) :
           r.queue[k] = IF k < at THEN s.queue[k] ELSE s.queue[k + 1]
  BY <1>2, <1>3, RemoveAtProperties
<1>5. DOMAIN r.queue = 1..(Len(s.queue) - 1)
  BY <1>4, LenProperties
<1> DEFINE new(k) == IF k < at THEN k ELSE k - 1
<1>6. ASSUME NEW k \in 1..Len(s.queue), k # at
      PROVE  new(k) \in DOMAIN r.queue /\ r.queue[new(k)] = s.queue[k]
  <2>1. CASE k < at
    <3>1. new(k) = k /\ k \in 1..(Len(s.queue) - 1)
      BY <1>2, <1>3, <2>1
    <3>2. QED
      BY <1>4, <1>5, <2>1, <3>1
  <2>2. CASE k > at
    <3>1. new(k) = k - 1 /\ k - 1 \in 1..(Len(s.queue) - 1) /\ ~(k - 1 < at) /\ (k - 1) + 1 = k
      BY <1>2, <1>3, <2>2
    <3>2. QED
      BY <1>4, <1>5, <3>1
  <2>3. QED
    BY <1>2, <1>3, <1>6, <2>1, <2>2
<1>7. new(i) < new(j)
  BY <1>1, <1>2, <1>3
<1>8. /\ new(i) \in DOMAIN r.queue /\ r.queue[new(i)] = a
      /\ new(j) \in DOMAIN r.queue /\ r.queue[new(j)] = b
  BY <1>1, <1>3, <1>6
<1> HIDE DEF new
<1>9. QED
  BY <1>7, <1>8 DEF Earlier

(* The list after #removeQueued, alone or in #start.                         *)
LEMMA RemovedQueue ==
  ASSUME NEW s, QueueInv(s), NEW op \in Queued(s)
  PROVE  \E at \in DOMAIN s.queue :
           /\ s.queue[at] = op
           /\ removeQueued(s, op).queue = RemoveAt(s.queue, at)
           /\ start(ringServed(s, op), op).queue = RemoveAt(s.queue, at)
<1> DEFINE at == CHOOSE i \in DOMAIN s.queue : s.queue[i] = op
<1>1. at \in DOMAIN s.queue /\ s.queue[at] = op
  BY DEF Queued
<1>2. \A q \in Schedulers : q.queue = s.queue => removeQueued(q, op).queue = RemoveAt(s.queue, at)
  BY DEF removeQueued, Schedulers
<1>3. s \in Schedulers /\ ringServed(s, op) \in Schedulers /\ ringServed(s, op).queue = s.queue
  <2>1. s \in Schedulers /\ ringServed(s, op) \in Schedulers
    BY RingServedProperties DEF QueueInv
  <2>2. QED
    BY <2>1 DEF ringServed, Schedulers
<1>4. op \in Queued(ringServed(s, op)) /\ QueueInv(ringServed(s, op))
  BY RingServedProperties
<1> HIDE DEF at
<1>5. start(ringServed(s, op), op).queue = removeQueued(ringServed(s, op), op).queue
  <2> DEFINE t == ringServed(s, op)
  <2>1. removeQueued(t, op) \in Schedulers
    BY <1>4, RemoveQueuedProperties DEF QueueInv
  <2> HIDE DEF t
  <2>2. QED
    BY <2>1 DEF start, Schedulers, t
<1>6. QED
  BY <1>1, <1>2, <1>3, <1>5

(* An eligible operation has nothing before it that it must follow.          *)
LEMMA EligibleFollowsNothing ==
  ASSUME NEW s, QueueInv(s), NEW op \in EligibleSession(s) \cup EligibleGlobal(s),
         NEW earlier, Earlier(s, earlier, op)
  PROVE  ~MustFollow(op, earlier)
<1>1. s.queue \in Seq(Op) /\ DOMAIN s.queue = 1..Len(s.queue) /\ Len(s.queue) \in Nat
  BY DEF QueueInv, Schedulers
<1>2. PICK k, j \in DOMAIN s.queue : k < j /\ s.queue[k] = earlier /\ s.queue[j] = op
  BY DEF Earlier
<1>3. PICK i \in DOMAIN s.queue :
        op = s.queue[i] /\ (sessionWorkEligible(s, i) \/ globalWorkEligible(s, i))
  BY DEF EligibleSession, EligibleGlobal
<1>4. i = j
  BY <1>2, <1>3 DEF QueueInv, OneEach
<1>5. k \in 1..(i - 1)
  BY <1>1, <1>2, <1>4
<1>6. CASE sessionWorkEligible(s, i)
  <2>1. ~Global(op) /\ ~Global(earlier) /\ Key(earlier) # Key(op)
    BY <1>2, <1>3, <1>5, <1>6 DEF sessionWorkEligible
  <2>2. QED
    BY <2>1, Zenon DEF MustFollow, Global
<1>7. CASE globalWorkEligible(s, i)
  <2>1. Global(op) /\ Global(earlier) /\ Key(earlier) # Key(op)
    BY <1>2, <1>3, <1>5, <1>7 DEF globalWorkEligible
  <2>2. QED
    BY <2>1, Zenon DEF MustFollow, Global
<1>8. QED
  BY <1>3, <1>6, <1>7

LEMMA StartIsOrderly ==
  ASSUME NEW s, SchedulerInv(s), NEW op \in EligibleSession(s) \cup EligibleGlobal(s),
         MayStart(s, op)
  PROVE  Orderly(s, start(ringServed(s, op), op))
<1>1. QueueInv(s) /\ op \in Queued(s)
  BY DEF SchedulerInv, MayStart
<1>2. PICK r : r = start(ringServed(s, op), op)
  OBVIOUS
<1>3. PICK at \in DOMAIN s.queue : s.queue[at] = op /\ r.queue = RemoveAt(s.queue, at)
  BY <1>1, <1>2, RemovedQueue
<1>4. Queued(r) = Queued(s) \ {op}
  <2>1. s.queue \in Seq(Op) /\ at \in 1..Len(s.queue)
    BY <1>1, <1>3 DEF QueueInv, Schedulers
  <2>2. PICK list : list = s.queue
    OBVIOUS
  <2>3. \A i, j \in DOMAIN list : list[i] = list[j] => i = j
    BY <1>1, <2>2 DEF QueueInv, OneEach
  <2>4. list \in Seq(Op) /\ at \in 1..Len(list)
    BY <2>1, <2>2
  <2> DEFINE rest == RemoveAt(list, at)
  <2>5. {rest[i] : i \in DOMAIN rest} = {list[i] : i \in DOMAIN list} \ {list[at]}
    BY <2>3, <2>4, RemoveOnce
  <2>6. r.queue = rest /\ s.queue = list /\ list[at] = op
    BY <1>3, <2>2
  <2> HIDE DEF rest
  <2>7. QED
    BY <2>5, <2>6 DEF Queued
<1>5. KeepsOrder(s, r)
  BY <1>1, <1>3, <1>4, RemovalKeepsOrder DEF KeepsOrder
<1>6. ASSUME NEW o \in Queued(s), NEW earlier \in Queued(s), Overtakes(s, r, o, earlier)
      PROVE  FALSE
  <2>1. o = op
    BY <1>4, <1>6 DEF Overtakes
  <2>2. QED
    BY <1>1, <1>6, <2>1, EligibleFollowsNothing DEF Overtakes
<1>7. Orderly(s, r)
  BY <1>4, <1>5, <1>6 DEF Orderly
<1>8. QED
  BY <1>2, <1>7

OrderlyStarted(s, r) == SessionsStarted(s, r) /\ Orderly(s, r)

LEMMA StartSessionIsOrderly ==
  ASSUME NEW s, NEW q, OrderlyStarted(s, q), NEW r \in startSession(q)
  PROVE  OrderlyStarted(s, r)
<1>1. SessionsStarted(s, r) /\ SchedulerInv(q) /\ ~q.globalActive
  BY StartSessionKeepsInv DEF OrderlyStarted, SessionsStarted
<1>2. CASE q.active < q.options.maxConcurrency /\ EligibleSession(q) # {}
  <2>1. PICK op \in nextSessionWork(q) : r = start(ringServed(q, op), op)
    BY <1>2 DEF startSession, startAny
  <2>2. op \in EligibleSession(q)
    BY <2>1 DEF nextSessionWork, Earliest, NextInRing
  <2>3. Orderly(q, r)
    BY <1>1, <1>2, <2>1, <2>2, EligibleSessionMayStart, StartIsOrderly
  <2>4. QED
    BY <1>1, <2>3, OrderlyTransitive DEF OrderlyStarted
<1>3. CASE ~(q.active < q.options.maxConcurrency /\ EligibleSession(q) # {})
  BY <1>3 DEF startSession
<1>4. QED
  BY <1>2, <1>3

LEMMA StartEachIsOrderly ==
  ASSUME NEW s, NEW states, \A q \in states : OrderlyStarted(s, q)
  PROVE  \A r \in startEach(states) : OrderlyStarted(s, r)
BY StartSessionIsOrderly DEF startEach

LEMMA StartSessionsIsOrderly ==
  ASSUME NEW s, SchedulerInv(s), ~s.globalActive
  PROVE  \A r \in startSessions(s) : OrderlyStarted(s, r)
<1> DEFINE one == startSession(s)
           two == startEach(one)
           three == startEach(two)
<1>1. OrderlyStarted(s, s)
  BY GrantingReflexive, OrderlyReflexive DEF OrderlyStarted, SessionsStarted
<1>2. \A r \in one : OrderlyStarted(s, r)
  BY <1>1, StartSessionIsOrderly
<1> HIDE DEF one
<1>3. \A r \in two : OrderlyStarted(s, r)
  BY <1>2, StartEachIsOrderly
<1> HIDE DEF two
<1>4. \A r \in three : OrderlyStarted(s, r)
  BY <1>3, StartEachIsOrderly
<1>5. startSessions(s) = startEach(three)
  BY DEF startSessions, three, two, one
<1> HIDE DEF three
<1>6. QED
  BY <1>4, <1>5, StartEachIsOrderly

LEMMA PumpIsOrderly ==
  ASSUME NEW s, SchedulerInv(s), NEW r \in pump({s})
  PROVE  SchedulerInv(r) /\ Granting(s, r) /\ Orderly(s, r)
<1>1. SchedulerInv(r) /\ Granting(s, r) /\ r \in startNext(s)
  BY PumpKeepsInv DEF pump
<1>2. CASE s.stopped \/ s.globalActive
  BY <1>1, <1>2, OrderlyReflexive DEF startNext
<1>3. CASE ~(s.stopped \/ s.globalActive) /\ s.active = 0 /\ EligibleGlobal(s) # {}
  <2>1. PICK op \in nextEligibleGlobalWork(s) : r = start(ringServed(s, op), op)
    BY <1>1, <1>3 DEF startNext, startAny
  <2>2. op \in EligibleGlobal(s)
    BY <2>1 DEF nextEligibleGlobalWork, Earliest, NextInRing
  <2>3. MayStart(s, op)
    BY <1>3, <2>2, EligibleGlobalMayStart
  <2>4. QED
    BY <1>1, <2>1, <2>2, <2>3, StartIsOrderly
<1>4. CASE ~(s.stopped \/ s.globalActive) /\ ~(s.active = 0 /\ EligibleGlobal(s) # {})
  <2>1. r \in startSessions(s)
    BY <1>1, <1>4 DEF startNext
  <2>2. QED
    BY <1>1, <1>4, <2>1, StartSessionsIsOrderly DEF OrderlyStarted
<1>5. QED
  BY <1>2, <1>3, <1>4

(* What an event starts, when the event itself only adds to the end of the   *)
(* queue or takes from it.                                                   *)
LEMMA EventIsOrderly ==
  ASSUME IInv, NEW s, SchedulerInv(s), sched' \in pump({s}),
         Active(s) \subseteq Active(sched),
         \A a, b \in Queued(sched) : Earlier(sched, a, b) /\ {a, b} \subseteq Queued(s) => Earlier(s, a, b)
  PROVE  \A op, earlier \in Op :
           /\ Earlier(sched, earlier, op) /\ MustFollow(op, earlier)
           /\ op \in Active(sched')
           => sched'.phase[earlier] # "queued"
<1>1. SUFFICES ASSUME NEW op \in Op, NEW earlier \in Op,
                      Earlier(sched, earlier, op), MustFollow(op, earlier),
                      op \in Active(sched'), sched'.phase[earlier] = "queued"
               PROVE  FALSE
  OBVIOUS
<1>2. SchedulerInv(sched') /\ Granting(s, sched') /\ Orderly(s, sched')
  BY PumpIsOrderly
<1>3. op \in Queued(sched) /\ earlier \in Queued(sched)
  BY <1>1 DEF Earlier, Queued
<1>4. op \notin Active(sched)
  BY <1>3 DEF IInv, SchedulerInv, InPhase, Active, Holding
<1>5. op \in Queued(s) /\ op \notin Queued(sched')
  BY <1>1, <1>2, <1>4 DEF Granting
<1>6. earlier \in Queued(sched') /\ earlier \in Queued(s)
  BY <1>1, <1>2 DEF SchedulerInv, InPhase, Orderly
<1>7. Earlier(s, earlier, op)
  BY <1>1, <1>3, <1>5, <1>6
<1>8. QED
  BY <1>1, <1>2, <1>5, <1>6, <1>7 DEF Orderly, Overtakes

LEMMA NextIsOrderly ==
  ASSUME IInv, [Next]_vars
  PROVE  \A op, earlier \in Op :
           /\ Earlier(sched, earlier, op) /\ MustFollow(op, earlier)
           /\ op \in Active(sched')
           => sched'.phase[earlier] # "queued"
<1> DEFINE Ordered == \A op, earlier \in Op :
                        /\ Earlier(sched, earlier, op) /\ MustFollow(op, earlier)
                        /\ op \in Active(sched')
                        => sched'.phase[earlier] # "queued"
<1>0. SchedulerInv(sched) /\ QueueInv(sched) /\ sched.queue \in Seq(Op) /\ sched \in Schedulers
  BY DEF IInv, SchedulerInv, QueueInv, Schedulers
<1>1. ASSUME NEW op \in Op, Schedule(op)
      PROVE  Ordered
  <2>1. PICK s : s = enqueue(sched, op)
    OBVIOUS
  <2>2. SchedulerInv(s) /\ Active(s) = Active(sched) /\ sched' \in pump({s})
    BY <1>0, <1>1, <2>1, EnqueueKeepsInv DEF Schedule
  <2>3. s.queue = Append(sched.queue, op)
    BY <1>0, <2>1 DEF enqueue, Schedulers
  <2>4. \A a, b : Earlier(sched, a, b) => Earlier(s, a, b)
    BY <1>0, <2>3 DEF Earlier
  <2> HIDE DEF Ordered
  <2>5. QED
    BY <2>2, <2>4, EventIsOrderly DEF Ordered
<1>2. ASSUME NEW op \in Op, Expire(op) \/ Cancel(op)
      PROVE  Ordered
  <2>1. PICK s : s = withdrawn(sched, op)
    OBVIOUS
  <2>2. sched.phase[op] = "queued" /\ sched' \in pump({s})
    BY <1>2, <2>1 DEF Expire, Cancel, withdraw, withdrawn
  <2>3. SchedulerInv(s) /\ Active(s) = Active(sched) /\ Queued(s) = Queued(sched) \ {op}
    BY <1>0, <2>1, <2>2, WithdrawKeepsInv
  <2>4. op \in Queued(sched)
    BY <2>2 DEF IInv, SchedulerInv, InPhase
  <2>5. PICK at \in DOMAIN sched.queue :
          sched.queue[at] = op /\ removeQueued(sched, op).queue = RemoveAt(sched.queue, at)
    BY <1>0, <2>4, RemovedQueue
  <2>6. s.queue = RemoveAt(sched.queue, at)
    <3>1. removeQueued(sched, op) \in Schedulers
      BY <1>0, <2>4, RemoveQueuedProperties DEF QueueInv
    <3>2. s.queue = removeQueued(sched, op).queue
      BY <2>1, <3>1 DEF withdrawn, releaseAdmission, Schedulers
    <3>3. QED
      BY <2>5, <3>2
  <2>7. \A a, b \in Queued(sched) : Earlier(sched, a, b) /\ {a, b} \subseteq Queued(s) => Earlier(s, a, b)
    BY <1>0, <2>3, <2>5, <2>6, RemovalKeepsOrder
  <2>8. QED
    BY <2>2, <2>3, <2>7, EventIsOrderly
<1>3. ASSUME NEW op \in Op, Release(op)
      PROVE  Ordered
  <2>1. PICK s : s = release(sched, op)
    OBVIOUS
  <2>2. SchedulerInv(s) /\ Active(s) \subseteq Active(sched) /\ sched' \in pump({s})
    BY <1>0, <1>3, <2>1, ReleaseKeepsInv DEF Release
  <2>3. s.queue = sched.queue
    BY <1>0, <2>1 DEF release, releaseAdmission, Schedulers
  <2>4. QED
    BY <2>2, <2>3, EventIsOrderly DEF Earlier
<1>4. CASE Active(sched') = Active(sched)
  <2>1. \A op, earlier \in Op : Earlier(sched, earlier, op) => op \notin Active(sched)
    BY <1>0 DEF Earlier, SchedulerInv, Queued, InPhase, Active, Holding
  <2>2. QED
    BY <1>4, <2>1
<1>5. ASSUME NEW op \in Op, DeadlinePasses(op) \/ Dispatch(op) \/ Complete(op)
      PROVE  Active(sched') = Active(sched)
  <2>1. CASE DeadlinePasses(op)
    BY <2>1 DEF DeadlinePasses
  <2>2. CASE Dispatch(op) \/ Complete(op)
    <3>1. PICK phase \in {"running", "settling"} : sched' = [sched EXCEPT !.phase[op] = phase]
      BY <2>2 DEF Dispatch, Complete
    <3>2. sched.phase[op] \in Holding
      BY <2>2 DEF Dispatch, Complete, Holding
    <3>3. QED
      BY <1>0, <3>1, <3>2, DispatchedKeepsInv
  <2>3. QED
    BY <1>5, <2>1, <2>2
<1>6. CASE Stop
  BY <1>0, <1>4, <1>6, StopKeepsInv DEF Stop
<1>7. CASE UNCHANGED vars
  BY <1>4, <1>7 DEF vars
<1>8. QED
  BY <1>1, <1>2, <1>3, <1>4, <1>5, <1>6, <1>7 DEF Next

(* scheduler.ts #pump with its two scans: no operation overtakes an earlier  *)
(* one of its session, nor exclusive work earlier session work or the other  *)
(* way round, however many start at once.                                    *)
THEOREM AdmissionKeepsOrder == Spec => AdmissionOrder
<1>1. Init => IInv
  BY InitSatisfiesIInv
<1>2. IInv /\ [Next]_vars => IInv'
  BY NextKeepsIInv
<1>3. IInv /\ [Next]_vars => [OvertakesNone]_vars
  <2>1. Active(sched)' = Active(sched')
    BY DEF Active, InPhase
  <2>2. QED
    BY <2>1, NextIsOrderly DEF OvertakesNone
<1>4. QED
  BY <1>1, <1>2, <1>3, PTL DEF Spec, AdmissionOrder

-----------------------------------------------------------------------------
(* The rings list each key with waiting work once, and the index points into *)
(* them.  This rests on the invariant, which does not need it.               *)

Exact(ring, keys) ==
  /\ Members(ring.keys) = keys
  /\ \A i, j \in DOMAIN ring.keys : ring.keys[i] = ring.keys[j] => i = j
  /\ ring.next < Len(ring.keys) \/ ring.next = 0

SessionKeys(s) == {Key(op) : op \in {o \in Queued(s) : ~Global(o)}}
GlobalKeys(s) == {Key(op) : op \in {o \in Queued(s) : Global(o)}}

RingsExact(s) == Exact(s.sessionRing, SessionKeys(s)) /\ Exact(s.globalRing, GlobalKeys(s))

LEMMA ModuloBound ==
  ASSUME NEW a \in Int, NEW b \in Nat \ {0}
  PROVE  a % b < b
OBVIOUS

LEMMA RingAddExact ==
  ASSUME NEW ring \in Rings, NEW keys, Exact(ring, keys), NEW key \in Keys, key \notin keys
  PROVE  Exact(RingAdd(ring, key), keys \cup {key})
<1>1. ring.keys \in Seq(Keys) /\ ring.next \in Nat
  BY DEF Rings
<1>2. PICK list, longer : list = ring.keys /\ longer = Append(list, key)
  OBVIOUS
<1>3. RingAdd(ring, key).keys = longer /\ RingAdd(ring, key).next = ring.next
  BY <1>2 DEF Rings, RingAdd
<1>4. /\ Len(list) \in Nat /\ DOMAIN list = 1..Len(list)
      /\ Len(longer) = Len(list) + 1 /\ DOMAIN longer = 1..(Len(list) + 1)
      /\ \A i \in 1..Len(list) : longer[i] = list[i]
      /\ longer[Len(list) + 1] = key
  BY <1>1, <1>2
<1>5. \A i \in DOMAIN list : list[i] # key
  BY <1>2 DEF Exact, Members
<1>6. \A i, j \in DOMAIN longer : longer[i] = longer[j] => i = j
  <2> SUFFICES ASSUME NEW i \in DOMAIN longer, NEW j \in DOMAIN longer, longer[i] = longer[j]
               PROVE  i = j
    OBVIOUS
  <2>1. CASE i \in DOMAIN list /\ j \in DOMAIN list
    BY <1>2, <1>4, <2>1 DEF Exact
  <2>2. CASE i \in DOMAIN list /\ j \notin DOMAIN list
    BY <1>4, <1>5, <2>2
  <2>3. CASE i \notin DOMAIN list /\ j \in DOMAIN list
    BY <1>4, <1>5, <2>3
  <2>4. CASE i \notin DOMAIN list /\ j \notin DOMAIN list
    BY <1>4, <2>4
  <2>5. QED
    BY <2>1, <2>2, <2>3, <2>4
<1>7. Members(longer) = keys \cup {key}
  BY <1>2, <1>3, RingAddProperties DEF Exact
<1>8. ring.next < Len(longer)
  BY <1>1, <1>2, <1>4 DEF Exact
<1>9. QED
  BY <1>3, <1>6, <1>7, <1>8 DEF Exact

LEMMA RingRemoveExact ==
  ASSUME NEW ring \in Rings, NEW keys, Exact(ring, keys), NEW key \in keys
  PROVE  Exact(RingRemove(ring, key), keys \ {key})
<1>1. ring.keys \in Seq(Keys) /\ ring.next \in Nat /\ key \in Members(ring.keys)
  BY DEF Rings, Exact
<1>2. PICK list : list = ring.keys
  OBVIOUS
<1>3. PICK i : i = CHOOSE k \in DOMAIN list : list[k] = key
  OBVIOUS
<1>4. i \in 1..Len(list) /\ list[i] = key /\ Len(list) \in Nat \ {0}
  BY <1>1, <1>2, <1>3, IndexOfMember
<1>5. PICK rest : rest = RemoveAt(list, i)
  OBVIOUS
<1>6. PICK next : next = IF rest = <<>> THEN 0
                         ELSE IF i - 1 < ring.next THEN ring.next - 1
                         ELSE ring.next % Len(rest)
  OBVIOUS
<1>7. RingRemove(ring, key) = [keys |-> rest, next |-> next]
  <2> DEFINE spliced == RemoveAt(ring.keys, i - 1 + 1)
  <2>1. RingRemove(ring, key) =
          [keys |-> spliced,
           next |-> IF spliced = <<>> THEN 0
                    ELSE IF i - 1 < ring.next THEN ring.next - 1
                    ELSE ring.next % Len(spliced)]
    BY <1>1, <1>2, <1>3 DEF RingRemove
  <2>2. i - 1 + 1 = i
    BY <1>4
  <2>3. spliced = rest
    BY <1>2, <1>5, <2>2
  <2> HIDE DEF spliced
  <2>4. QED
    BY <1>6, <2>1, <2>3
<1>8. \A k, l \in DOMAIN list : list[k] = list[l] => k = l
  BY <1>2 DEF Exact
<1>9. /\ rest \in Seq(Keys)
      /\ Len(rest) = Len(list) - 1
      /\ \A k, l \in DOMAIN rest : rest[k] = rest[l] => k = l
      /\ {rest[k] : k \in DOMAIN rest} = {list[k] : k \in DOMAIN list} \ {list[i]}
  <2>1. list \in Seq(Keys)
    BY <1>1, <1>2
  <2> DEFINE gone == RemoveAt(list, i)
  <2>2. /\ gone \in Seq(Keys)
        /\ Len(gone) = Len(list) - 1
        /\ \A k, l \in DOMAIN gone : gone[k] = gone[l] => k = l
        /\ {gone[k] : k \in DOMAIN gone} = {list[k] : k \in DOMAIN list} \ {list[i]}
    BY <1>4, <1>8, <2>1, RemoveOnce
  <2>3. rest = gone
    BY <1>5
  <2> HIDE DEF gone
  <2>4. QED
    BY <2>2, <2>3
<1>10. Members(rest) = keys \ {key}
  BY <1>2, <1>4, <1>9 DEF Exact, Members
<1>11. next < Len(rest) \/ next = 0
  <2>1. CASE rest = <<>>
    BY <1>6, <2>1
  <2>2. CASE rest # <<>> /\ i - 1 < ring.next
    <3>1. next = ring.next - 1
      BY <1>6, <2>2
    <3>2. ring.next < Len(list)
      BY <1>1, <1>2, <1>4, <2>2 DEF Exact
    <3>3. QED
      BY <1>1, <1>4, <1>9, <3>1, <3>2
  <2>3. CASE rest # <<>> /\ ~(i - 1 < ring.next)
    <3>1. Len(rest) \in Nat \ {0} /\ ring.next \in Int
      <4>1. rest \in Seq(Keys) /\ rest # <<>>
        BY <1>9, <2>3
      <4>2. Len(rest) \in Nat \ {0}
        BY <4>1, EmptySeq
      <4>3. QED
        BY <1>1, <4>2
    <3>2. ring.next % Len(rest) < Len(rest)
      BY <3>1, ModuloBound, Zenon
    <3>3. QED
      BY <1>6, <2>3, <3>2
  <2>4. QED
    BY <2>1, <2>2, <2>3
<1>12. QED
  BY <1>7, <1>9, <1>10, <1>11 DEF Exact

LEMMA RingServeExact ==
  ASSUME NEW ring \in Rings, NEW keys, Exact(ring, keys), NEW key \in keys
  PROVE  Exact(RingServe(ring, key), keys)
<1>1. ring.keys \in Seq(Keys) /\ key \in Members(ring.keys)
  BY DEF Rings, Exact
<1>2. PICK i : i = CHOOSE k \in DOMAIN ring.keys : ring.keys[k] = key
  OBVIOUS
<1>3. i \in 1..Len(ring.keys) /\ Len(ring.keys) \in Nat \ {0}
  BY <1>1, <1>2, IndexOfMember
<1>4. PICK next : next = (i - 1 + 1) % Len(ring.keys)
  OBVIOUS
<1>5. next < Len(ring.keys)
  <2>1. i - 1 + 1 \in Int
    BY <1>3
  <2>2. (i - 1 + 1) % Len(ring.keys) < Len(ring.keys)
    BY <1>3, <2>1, ModuloBound, Zenon
  <2>3. QED
    BY <1>4, <2>2
<1>6. RingServe(ring, key) = [ring EXCEPT !.next = next]
  BY <1>2, <1>4 DEF RingServe
<1>7. RingServe(ring, key).keys = ring.keys /\ RingServe(ring, key).next = next
  BY <1>6 DEF Rings
<1>8. QED
  BY <1>5, <1>7 DEF Exact

(* The waiting work that shares a ring entry with an operation.              *)
LEMMA QueueOfMember ==
  ASSUME NEW s, NEW op, NEW o \in Queued(s)
  PROVE  o \in QueueOf(s, op) <=> (Global(o) <=> Global(op)) /\ Key(o) = Key(op)
<1>1. (Global(o) = Global(op)) <=> (Global(o) <=> Global(op))
  BY Zenon DEF Global
<1>2. QED
  BY <1>1 DEF QueueOf

LEMMA RemovalIsExact ==
  ASSUME NEW s, QueueInv(s), RingsExact(s), NEW op \in Queued(s)
  PROVE  RingsExact(removeQueued(s, op))
<1>1. s \in Schedulers /\ s.sessionRing \in Rings /\ s.globalRing \in Rings
  BY DEF QueueInv, Schedulers
<1>2. PICK alone : alone = (QueueOf(s, op) \ {op} = {}) /\ alone \in BOOLEAN
  OBVIOUS
<1>3. alone <=> \A o \in Queued(s) : o # op => ~((Global(o) <=> Global(op)) /\ Key(o) = Key(op))
  <2>1. \A o : o \in QueueOf(s, op) => o \in Queued(s)
    BY DEF QueueOf
  <2>2. \A o \in Queued(s) : o \in QueueOf(s, op) <=> (Global(o) <=> Global(op)) /\ Key(o) = Key(op)
    BY QueueOfMember
  <2>3. QED
    BY <1>2, <2>1, <2>2
<1>4. PICK shrunk, ring :
        /\ ring = IF Global(op) THEN s.globalRing ELSE s.sessionRing
        /\ shrunk = IF alone THEN RingRemove(ring, Key(op)) ELSE ring
  OBVIOUS
<1>5. PICK r : r = removeQueued(s, op)
  OBVIOUS
<1>6. /\ r.sessionRing = IF Global(op) THEN s.sessionRing ELSE shrunk
      /\ r.globalRing = IF Global(op) THEN shrunk ELSE s.globalRing
  BY <1>1, <1>2, <1>4, <1>5 DEF removeQueued, Schedulers
<1>7. Queued(r) = Queued(s) \ {op}
  BY <1>5, RemoveQueuedProperties
<1>8. CASE Global(op)
  <2>1. SessionKeys(r) = SessionKeys(s)
    BY <1>7, <1>8 DEF SessionKeys
  <2>2. Key(op) \in GlobalKeys(s)
    BY <1>8 DEF GlobalKeys
  <2>3. CASE alone
    <3>1. GlobalKeys(r) = GlobalKeys(s) \ {Key(op)}
      BY <1>3, <1>7, <1>8, <2>3 DEF GlobalKeys
    <3>2. Exact(shrunk, GlobalKeys(s) \ {Key(op)})
      BY <1>1, <1>4, <1>8, <2>2, <2>3, RingRemoveExact DEF RingsExact
    <3>3. QED
      BY <1>5, <1>6, <1>8, <2>1, <3>1, <3>2 DEF RingsExact
  <2>4. CASE ~alone
    <3>1. PICK o \in Queued(s) : o # op /\ Global(o) /\ Key(o) = Key(op)
      BY <1>3, <1>8, <2>4
    <3>2. GlobalKeys(r) = GlobalKeys(s)
      BY <1>7, <3>1 DEF GlobalKeys
    <3>3. QED
      BY <1>4, <1>5, <1>6, <1>8, <2>1, <2>4, <3>2 DEF RingsExact
  <2>5. QED
    BY <1>2, <2>3, <2>4
<1>9. CASE ~Global(op)
  <2>1. GlobalKeys(r) = GlobalKeys(s)
    BY <1>7, <1>9 DEF GlobalKeys
  <2>2. Key(op) \in SessionKeys(s)
    BY <1>9 DEF SessionKeys
  <2>3. CASE alone
    <3>1. SessionKeys(r) = SessionKeys(s) \ {Key(op)}
      BY <1>3, <1>7, <1>9, <2>3 DEF SessionKeys
    <3>2. Exact(shrunk, SessionKeys(s) \ {Key(op)})
      BY <1>1, <1>4, <1>9, <2>2, <2>3, RingRemoveExact DEF RingsExact
    <3>3. QED
      BY <1>5, <1>6, <1>9, <2>1, <3>1, <3>2 DEF RingsExact
  <2>4. CASE ~alone
    <3>1. PICK o \in Queued(s) : o # op /\ ~Global(o) /\ Key(o) = Key(op)
      BY <1>3, <1>9, <2>4
    <3>2. SessionKeys(r) = SessionKeys(s)
      BY <1>7, <3>1 DEF SessionKeys
    <3>3. QED
      BY <1>4, <1>5, <1>6, <1>9, <2>1, <2>4, <3>2 DEF RingsExact
  <2>5. QED
    BY <1>2, <2>3, <2>4
<1>10. QED
  BY <1>8, <1>9

(* The same queue and the same rings.                                        *)
LEMMA SameRings ==
  ASSUME NEW s, NEW r, RingsExact(s), Queued(r) = Queued(s),
         r.sessionRing = s.sessionRing, r.globalRing = s.globalRing
  PROVE  RingsExact(r)
BY DEF RingsExact, SessionKeys, GlobalKeys

LEMMA ServedIsExact ==
  ASSUME NEW s, QueueInv(s), RingsExact(s), NEW op \in Queued(s)
  PROVE  RingsExact(ringServed(s, op))
<1>1. s \in Schedulers /\ s.sessionRing \in Rings /\ s.globalRing \in Rings
  BY DEF QueueInv, Schedulers
<1>2. PICK r : r = ringServed(s, op)
  OBVIOUS
<1>3. Queued(r) = Queued(s)
  BY <1>2, RingServedProperties
<1>4. SessionKeys(r) = SessionKeys(s) /\ GlobalKeys(r) = GlobalKeys(s)
  BY <1>3 DEF SessionKeys, GlobalKeys
<1>5. CASE s.options.maxConcurrency = 1
  BY <1>5 DEF ringServed
<1>6. CASE s.options.maxConcurrency # 1 /\ Global(op)
  <2>1. PICK ring : ring = RingServe(s.globalRing, Key(op))
    OBVIOUS
  <2>2. r = [s EXCEPT !.globalRing = ring]
    BY <1>2, <1>6, <2>1 DEF ringServed
  <2>3. r.globalRing = ring /\ r.sessionRing = s.sessionRing
    BY <1>1, <2>2 DEF Schedulers
  <2>4. Exact(ring, GlobalKeys(s))
    BY <1>1, <1>6, <2>1, RingServeExact DEF RingsExact, GlobalKeys
  <2>5. QED
    BY <1>2, <1>4, <2>3, <2>4 DEF RingsExact
<1>7. CASE s.options.maxConcurrency # 1 /\ ~Global(op)
  <2>1. PICK ring : ring = RingServe(s.sessionRing, Key(op))
    OBVIOUS
  <2>2. r = [s EXCEPT !.sessionRing = ring]
    BY <1>2, <1>7, <2>1 DEF ringServed
  <2>3. r.sessionRing = ring /\ r.globalRing = s.globalRing
    BY <1>1, <2>2 DEF Schedulers
  <2>4. Exact(ring, SessionKeys(s))
    BY <1>1, <1>7, <2>1, RingServeExact DEF RingsExact, SessionKeys
  <2>5. QED
    BY <1>2, <1>4, <2>3, <2>4 DEF RingsExact
<1>8. QED
  BY <1>5, <1>6, <1>7

LEMMA StartIsExact ==
  ASSUME NEW s, QueueInv(s), RingsExact(s), NEW op \in Queued(s)
  PROVE  RingsExact(start(ringServed(s, op), op))
<1>1. PICK t : t = ringServed(s, op)
  OBVIOUS
<1>2. QueueInv(t) /\ RingsExact(t) /\ op \in Queued(t)
  BY <1>1, RingServedProperties, ServedIsExact
<1>3. PICK q : q = removeQueued(t, op)
  OBVIOUS
<1>4. RingsExact(q) /\ q \in Schedulers
  BY <1>2, <1>3, RemovalIsExact, RemoveQueuedProperties DEF QueueInv
<1>5. PICK r : r = start(t, op)
  OBVIOUS
<1>6. r.queue = q.queue /\ r.sessionRing = q.sessionRing /\ r.globalRing = q.globalRing
  BY <1>3, <1>4, <1>5 DEF start, Schedulers
<1>7. RingsExact(r)
  BY <1>4, <1>6, SameRings DEF Queued
<1>8. QED
  BY <1>1, <1>5, <1>7

ExactlyStarted(s, r) == SessionsStarted(s, r) /\ RingsExact(r)

LEMMA StartSessionIsExact ==
  ASSUME NEW s, NEW q, ExactlyStarted(s, q), NEW r \in startSession(q)
  PROVE  ExactlyStarted(s, r)
<1>1. SessionsStarted(s, r) /\ SchedulerInv(q) /\ ~q.globalActive
  BY StartSessionKeepsInv DEF ExactlyStarted, SessionsStarted
<1>2. CASE q.active < q.options.maxConcurrency /\ EligibleSession(q) # {}
  <2>1. PICK op \in nextSessionWork(q) : r = start(ringServed(q, op), op)
    BY <1>2 DEF startSession, startAny
  <2>2. op \in EligibleSession(q)
    BY <2>1 DEF nextSessionWork, Earliest, NextInRing
  <2>3. op \in Queued(q)
    BY <1>1, <1>2, <2>2, EligibleSessionMayStart DEF MayStart
  <2>4. QED
    BY <1>1, <2>1, <2>3, StartIsExact DEF ExactlyStarted, SchedulerInv
<1>3. CASE ~(q.active < q.options.maxConcurrency /\ EligibleSession(q) # {})
  BY <1>3 DEF startSession
<1>4. QED
  BY <1>2, <1>3

LEMMA StartEachIsExact ==
  ASSUME NEW s, NEW states, \A q \in states : ExactlyStarted(s, q)
  PROVE  \A r \in startEach(states) : ExactlyStarted(s, r)
BY StartSessionIsExact DEF startEach

LEMMA StartSessionsIsExact ==
  ASSUME NEW s, SchedulerInv(s), ~s.globalActive, RingsExact(s)
  PROVE  \A r \in startSessions(s) : ExactlyStarted(s, r)
<1> DEFINE one == startSession(s)
           two == startEach(one)
           three == startEach(two)
<1>1. ExactlyStarted(s, s)
  BY GrantingReflexive DEF ExactlyStarted, SessionsStarted
<1>2. \A r \in one : ExactlyStarted(s, r)
  BY <1>1, StartSessionIsExact
<1> HIDE DEF one
<1>3. \A r \in two : ExactlyStarted(s, r)
  BY <1>2, StartEachIsExact
<1> HIDE DEF two
<1>4. \A r \in three : ExactlyStarted(s, r)
  BY <1>3, StartEachIsExact
<1>5. startSessions(s) = startEach(three)
  BY DEF startSessions, three, two, one
<1> HIDE DEF three
<1>6. QED
  BY <1>4, <1>5, StartEachIsExact

LEMMA PumpIsExact ==
  ASSUME NEW s, SchedulerInv(s), RingsExact(s), NEW r \in pump({s})
  PROVE  RingsExact(r)
<1>1. r \in startNext(s)
  BY DEF pump
<1>2. CASE s.stopped \/ s.globalActive
  BY <1>1, <1>2 DEF startNext
<1>3. CASE ~(s.stopped \/ s.globalActive) /\ s.active = 0 /\ EligibleGlobal(s) # {}
  <2>1. PICK op \in nextEligibleGlobalWork(s) : r = start(ringServed(s, op), op)
    BY <1>1, <1>3 DEF startNext, startAny
  <2>2. op \in EligibleGlobal(s)
    BY <2>1 DEF nextEligibleGlobalWork, Earliest, NextInRing
  <2>3. op \in Queued(s)
    BY <1>3, <2>2, EligibleGlobalMayStart DEF MayStart
  <2>4. QED
    BY <2>1, <2>3, StartIsExact DEF SchedulerInv
<1>4. CASE ~(s.stopped \/ s.globalActive) /\ ~(s.active = 0 /\ EligibleGlobal(s) # {})
  <2>1. r \in startSessions(s)
    BY <1>1, <1>4 DEF startNext
  <2>2. QED
    BY <1>4, <2>1, StartSessionsIsExact DEF ExactlyStarted
<1>5. QED
  BY <1>2, <1>3, <1>4

LEMMA EnqueueIsExact ==
  ASSUME NEW s, SchedulerInv(s), RingsExact(s), NEW op \in Op, s.phase[op] = "idle"
  PROVE  RingsExact(enqueue(s, op))
<1>1. s \in Schedulers /\ s.sessionRing \in Rings /\ s.globalRing \in Rings
  BY DEF SchedulerInv, QueueInv, Schedulers
<1>2. PICK r : r = enqueue(s, op)
  OBVIOUS
<1>3. Queued(r) = Queued(s) \cup {op} /\ Key(op) \in Keys
  BY <1>2, EnqueueKeepsInv, LaneType
<1>4. /\ r.sessionRing = IF Global(op) \/ QueueOf(s, op) # {} THEN s.sessionRing
                         ELSE RingAdd(s.sessionRing, Key(op))
      /\ r.globalRing = IF Global(op) /\ Key(op) \notin Members(s.globalRing.keys)
                        THEN RingAdd(s.globalRing, Key(op)) ELSE s.globalRing
  BY <1>1, <1>2 DEF enqueue, Schedulers
<1>5. CASE Global(op)
  <2>1. SessionKeys(r) = SessionKeys(s) /\ r.sessionRing = s.sessionRing
    BY <1>3, <1>4, <1>5 DEF SessionKeys
  <2>2. GlobalKeys(r) = GlobalKeys(s) \cup {Key(op)}
    BY <1>3, <1>5 DEF GlobalKeys
  <2>3. Members(s.globalRing.keys) = GlobalKeys(s)
    BY DEF RingsExact, Exact
  <2>4. CASE Key(op) \in GlobalKeys(s)
    <3>1. GlobalKeys(r) = GlobalKeys(s) /\ r.globalRing = s.globalRing
      BY <1>4, <2>2, <2>3, <2>4
    <3>2. QED
      BY <1>2, <2>1, <3>1 DEF RingsExact
  <2>5. CASE Key(op) \notin GlobalKeys(s)
    <3>1. r.globalRing = RingAdd(s.globalRing, Key(op))
      BY <1>4, <1>5, <2>3, <2>5
    <3>2. Exact(r.globalRing, GlobalKeys(r))
      BY <1>1, <1>3, <2>2, <2>5, <3>1, RingAddExact DEF RingsExact
    <3>3. QED
      BY <1>2, <2>1, <3>2 DEF RingsExact
  <2>6. QED
    BY <2>4, <2>5
<1>6. CASE ~Global(op)
  <2>1. GlobalKeys(r) = GlobalKeys(s) /\ r.globalRing = s.globalRing
    BY <1>3, <1>4, <1>6 DEF GlobalKeys
  <2>2. SessionKeys(r) = SessionKeys(s) \cup {Key(op)}
    BY <1>3, <1>6 DEF SessionKeys
  <2>3. QueueOf(s, op) # {} <=> Key(op) \in SessionKeys(s)
    <3>1. \A o : o \in QueueOf(s, op) => o \in Queued(s)
      BY DEF QueueOf
    <3>2. \A o \in Queued(s) : o \in QueueOf(s, op) <=> ~Global(o) /\ Key(o) = Key(op)
      BY <1>6, QueueOfMember
    <3>3. QED
      BY <3>1, <3>2 DEF SessionKeys
  <2>4. CASE Key(op) \in SessionKeys(s)
    <3>1. SessionKeys(r) = SessionKeys(s) /\ r.sessionRing = s.sessionRing
      BY <1>4, <2>2, <2>3, <2>4
    <3>2. QED
      BY <1>2, <2>1, <3>1 DEF RingsExact
  <2>5. CASE Key(op) \notin SessionKeys(s)
    <3>1. r.sessionRing = RingAdd(s.sessionRing, Key(op))
      BY <1>4, <1>6, <2>3, <2>5
    <3>2. Exact(r.sessionRing, SessionKeys(r))
      BY <1>1, <1>3, <2>2, <2>5, <3>1, RingAddExact DEF RingsExact
    <3>3. QED
      BY <1>2, <2>1, <3>2 DEF RingsExact
  <2>6. QED
    BY <2>4, <2>5
<1>7. QED
  BY <1>5, <1>6

LEMMA EmptyRingsAreExact ==
  ASSUME NEW s, s.queue = <<>>, s.sessionRing = EmptyRing, s.globalRing = EmptyRing
  PROVE  RingsExact(s)
<1>1. Queued(s) = {}
  BY DEF Queued
<1>2. SessionKeys(s) = {} /\ GlobalKeys(s) = {}
  BY <1>1 DEF SessionKeys, GlobalKeys
<1>3. Exact(EmptyRing, {})
  BY DEF Exact, Members, EmptyRing
<1>4. QED
  BY <1>2, <1>3 DEF RingsExact

LEMMA NextIsExact ==
  ASSUME IInv, RingsExact(sched), [Next]_vars
  PROVE  RingsExact(sched')
<1>0. SchedulerInv(sched) /\ QueueInv(sched) /\ sched \in Schedulers
  BY DEF IInv, SchedulerInv, QueueInv
<1>1. ASSUME NEW op \in Op, Schedule(op)
      PROVE  RingsExact(sched')
  <2>1. PICK s : s = enqueue(sched, op)
    OBVIOUS
  <2>2. SchedulerInv(s) /\ RingsExact(s) /\ sched' \in pump({s})
    BY <1>0, <1>1, <2>1, EnqueueKeepsInv, EnqueueIsExact DEF Schedule
  <2>3. QED
    BY <2>2, PumpIsExact
<1>2. ASSUME NEW op \in Op, Expire(op) \/ Cancel(op)
      PROVE  RingsExact(sched')
  <2>1. PICK s : s = withdrawn(sched, op)
    OBVIOUS
  <2>2. sched.phase[op] = "queued" /\ sched' \in pump({s})
    BY <1>2, <2>1 DEF Expire, Cancel, withdraw, withdrawn
  <2>3. SchedulerInv(s) /\ op \in Queued(sched)
    BY <1>0, <2>1, <2>2, WithdrawKeepsInv DEF SchedulerInv, InPhase
  <2>4. PICK q : q = removeQueued(sched, op)
    OBVIOUS
  <2>5. RingsExact(q) /\ q \in Schedulers
    BY <1>0, <2>3, <2>4, RemovalIsExact, RemoveQueuedProperties DEF QueueInv
  <2>6. s.queue = q.queue /\ s.sessionRing = q.sessionRing /\ s.globalRing = q.globalRing
    BY <2>1, <2>4, <2>5 DEF withdrawn, releaseAdmission, Schedulers
  <2>7. RingsExact(s)
    BY <2>5, <2>6, SameRings DEF Queued
  <2>8. QED
    BY <2>2, <2>3, <2>7, PumpIsExact
<1>3. ASSUME NEW op \in Op, Release(op)
      PROVE  RingsExact(sched')
  <2>1. PICK s : s = release(sched, op)
    OBVIOUS
  <2>2. SchedulerInv(s) /\ sched' \in pump({s})
    BY <1>0, <1>3, <2>1, ReleaseKeepsInv DEF Release
  <2>3. s.queue = sched.queue /\ s.sessionRing = sched.sessionRing /\ s.globalRing = sched.globalRing
    BY <1>0, <2>1 DEF release, releaseAdmission, Schedulers
  <2>4. RingsExact(s)
    BY <2>3, SameRings DEF Queued
  <2>5. QED
    BY <2>2, <2>4, PumpIsExact
<1>4. ASSUME NEW op \in Op, DeadlinePasses(op) \/ Dispatch(op) \/ Complete(op)
      PROVE  RingsExact(sched')
  <2>1. CASE DeadlinePasses(op)
    BY <2>1 DEF DeadlinePasses
  <2>2. CASE Dispatch(op) \/ Complete(op)
    <3>1. PICK phase \in {"running", "settling"} : sched' = [sched EXCEPT !.phase[op] = phase]
      BY <2>2 DEF Dispatch, Complete
    <3>2. PICK s : s = [sched EXCEPT !.phase[op] = phase]
      OBVIOUS
    <3>3. s.queue = sched.queue /\ s.sessionRing = sched.sessionRing /\ s.globalRing = sched.globalRing
      BY <1>0, <3>2 DEF Schedulers
    <3>4. RingsExact(s)
      BY <3>3, SameRings DEF Queued
    <3>5. QED
      BY <3>1, <3>2, <3>4
  <2>3. QED
    BY <1>4, <2>1, <2>2
<1>5. CASE Stop
  <2>1. PICK s : s = rejectQueued(sched)
    OBVIOUS
  <2>2. s.queue = <<>> /\ s.sessionRing = EmptyRing /\ s.globalRing = EmptyRing
    BY <1>0, <2>1 DEF rejectQueued, Schedulers
  <2>3. RingsExact(s) /\ sched' = s
    BY <1>5, <2>1, <2>2, EmptyRingsAreExact DEF Stop
  <2>4. QED
    BY <2>3
<1>6. CASE UNCHANGED vars
  BY <1>6 DEF vars
<1>7. QED
  BY <1>1, <1>2, <1>3, <1>4, <1>5, <1>6 DEF Next

LEMMA ExactRingLists ==
  ASSUME NEW ring \in Rings, NEW ops, Exact(ring, {Key(op) : op \in ops})
  PROVE  RingLists(ring, ops)
<1>1. PICK list : list = ring.keys
  OBVIOUS
<1>2. list \in Seq(Keys) /\ DOMAIN list = 1..Len(list) /\ Len(list) \in Nat
  BY <1>1 DEF Rings
<1>3. list \in Bijection(1..Len(list), Members(list))
  <2>1. list \in [1..Len(list) -> Members(list)]
    BY <1>2 DEF Members
  <2>2. \A i, j \in 1..Len(list) : list[i] = list[j] => i = j
    BY <1>1, <1>2 DEF Exact
  <2>3. \A key \in Members(list) : \E i \in 1..Len(list) : list[i] = key
    BY <1>2 DEF Members
  <2>4. QED
    BY <2>1, <2>2, <2>3 DEF Bijection, Injection, Surjection, IsInjective
<1>4. ExistsBijection(1..Len(list), Members(list))
  BY <1>3 DEF ExistsBijection
<1>5. Cardinality(Members(list)) = Len(list)
  BY <1>2, <1>4, FS_CountingElements
<1>6. QED
  BY <1>1, <1>5 DEF Exact, RingLists

(* scheduler.ts KeyRing: however operations arrive, leave and start, each    *)
(* ring lists every session or origin with waiting work exactly once, and    *)
(* the index of the next one to serve stays inside it.                       *)
THEOREM RingsListTheirWork == Spec => []RingsListWaitingWork
<1>1. Init => IInv /\ RingsExact(sched)
  BY InitSatisfiesIInv, EmptyRingsAreExact DEF Init
<1>2. IInv /\ RingsExact(sched) /\ [Next]_vars => IInv' /\ RingsExact(sched)'
  <2>1. RingsExact(sched)' = RingsExact(sched')
    BY DEF RingsExact, Exact, SessionKeys, GlobalKeys, Members, Queued
  <2>2. QED
    BY <2>1, NextKeepsIInv, NextIsExact
<1>3. IInv /\ RingsExact(sched) => RingsListWaitingWork
  <2> SUFFICES ASSUME IInv, RingsExact(sched) PROVE RingsListWaitingWork
    OBVIOUS
  <2>1. sched.sessionRing \in Rings /\ sched.globalRing \in Rings
    BY DEF IInv, SchedulerInv, QueueInv, Schedulers
  <2>2. QED
    BY <2>1, ExactRingLists DEF RingsExact, SessionKeys, GlobalKeys, RingsListWaitingWork
<1>4. QED
  BY <1>1, <1>2, <1>3, PTL DEF Spec

=============================================================================
