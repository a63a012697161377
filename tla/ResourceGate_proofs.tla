------------------------- MODULE ResourceGate_proofs --------------------------
(* That the extension's resource gate holds what runs, lets exclusive work   *)
(* through in order, and implements ResourceIsolation, for any number of     *)
(* commands.  Every event is a change of the gate's books followed by a      *)
(* pump, so each proof has two halves: the event keeps GateInv, and a pump   *)
(* on a gate that satisfies it keeps it too (PumpKeepsInv).                  *)
EXTENDS ResourceGate, FiniteSetTheorems, TLAPS

(* The commands that hold the gate, as a function of the phases. *)
HeldIn(now) == {op \in Op : now[op] \in {"granted", "running"}}

Gates == [queue : SUBSET Op, ahead : [Op -> SUBSET Op], active : Nat,
          globalActive : BOOLEAN, activeResources : SUBSET (Session \cup Tab)]

(* Arrival is a total order on the queue: without it two exclusive commands  *)
(* could both be the first.                                                  *)
OrderInv(g) ==
  /\ \A op \in g.queue : g.ahead[op] \subseteq g.queue
  /\ \A a, b \in g.queue : a # b => a \in g.ahead[b] \/ b \in g.ahead[a]

HeldInv(g, now) ==
  /\ g.active = Cardinality(HeldIn(now))
  /\ g.globalActive <=> \E op \in HeldIn(now) : Global(op)
  /\ g.activeResources = ResourcesOf(HeldIn(now))

Apart(ops) ==
  \A a, b \in ops : a # b =>
    ~Global(a) /\ ~Global(b) /\ Resources(a) \cap Resources(b) = {}

GateInv(g, now) ==
  /\ g \in Gates
  /\ now \in [Op -> Phases]
  /\ g.queue = {op \in Op : now[op] = "queued"}
  /\ OrderInv(g)
  /\ HeldInv(g, now)
  /\ Apart(HeldIn(now))

IInv ==
  /\ GateInv(gate, phase)
  /\ aborted \subseteq {op \in Op : phase[op] # "idle"}
  /\ live \subseteq Op

-----------------------------------------------------------------------------
LEMMA FiniteOps ==
  ASSUME NEW A, A \subseteq Op
  PROVE  IsFiniteSet(A) /\ Cardinality(A) \in Nat
BY OperationAssumption, FS_Subset, FS_CardinalityType

LEMMA ScopeType ==
  ASSUME NEW op \in Op
  PROVE  Resources(op) \subseteq Session \cup Tab
<1>1. Command[op] \in Commands /\ Scope[op] = gateScope(Command[op])
  BY OperationAssumption DEF Scope
<1>2. QED
  BY <1>1 DEF Commands, gateScope, MustBeExclusive, Resources

LEMMA ResourcesOfType ==
  ASSUME NEW A, A \subseteq Op
  PROVE  ResourcesOf(A) \subseteq Session \cup Tab
BY ScopeType DEF ResourcesOf

-----------------------------------------------------------------------------
(* pump().                                                                   *)

(* Whatever a pump takes was waiting and can run with what is held. *)
LEMMA PumpedAreApart ==
  ASSUME NEW g, NEW now, GateInv(g, now), NEW ops \in pumped(g)
  PROVE  /\ ops \subseteq g.queue
         /\ Apart(HeldIn(now) \cup ops)
<1>1. CASE g.globalActive
  BY <1>1 DEF pumped, GateInv
<1>2. CASE ~g.globalActive /\ ExclusiveStarts(g) # {}
  <2>1. ops = ExclusiveStarts(g)
    BY <1>2 DEF pumped
  <2>2. HeldIn(now) = {}
    <3>1. g.active = 0
      BY <1>2 DEF ExclusiveStarts
    <3>2. IsFiniteSet(HeldIn(now)) /\ Cardinality(HeldIn(now)) = 0
      BY <3>1, FiniteOps DEF GateInv, HeldInv, HeldIn
    <3>3. QED
      BY <3>2, FS_EmptySet
  <2>3. \A a, b \in ops : a = b
    BY <2>1 DEF ExclusiveStarts, GateInv, OrderInv
  <2>4. QED
    BY <2>1, <2>2, <2>3 DEF ExclusiveStarts, Apart
<1>3. CASE ~g.globalActive /\ ExclusiveStarts(g) = {}
  <2>1. ops \subseteq Candidates(g) /\ Taken(g, ops)
    BY <1>3 DEF pumped
  <2>2. ops \subseteq g.queue /\ g.queue \subseteq Op
    BY <2>1 DEF Candidates, GateInv
  <2>3. \A op \in ops :
          /\ ~Global(op)
          /\ Resources(op) \cap (g.activeResources \cup ResourcesOf(ops \cap g.ahead[op])) = {}
    BY <2>1 DEF Candidates, Taken
  <2>4. ASSUME NEW a \in ops, NEW b \in ops, a # b
        PROVE  ~Global(a) /\ ~Global(b) /\ Resources(a) \cap Resources(b) = {}
    <3>1. CASE a \in g.ahead[b]
      <4>1. Resources(a) \subseteq ResourcesOf(ops \cap g.ahead[b])
        BY <3>1 DEF ResourcesOf
      <4>2. QED
        BY <2>3, <4>1
    <3>2. CASE b \in g.ahead[a]
      <4>1. Resources(b) \subseteq ResourcesOf(ops \cap g.ahead[a])
        BY <3>2 DEF ResourcesOf
      <4>2. QED
        BY <2>3, <4>1
    <3>3. a \in g.ahead[b] \/ b \in g.ahead[a]
      BY <2>2, <2>4 DEF GateInv, OrderInv
    <3>4. QED
      BY <3>1, <3>2, <3>3
  <2>5. ASSUME NEW a \in HeldIn(now), NEW b \in ops
        PROVE  ~Global(a) /\ ~Global(b) /\ Resources(a) \cap Resources(b) = {}
    <3>1. ~Global(a)
      BY <1>3 DEF GateInv, HeldInv
    <3>2. Resources(a) \subseteq g.activeResources
      BY DEF GateInv, HeldInv, ResourcesOf
    <3>3. QED
      BY <2>3, <3>1, <3>2
  <2>6. QED
    BY <2>2, <2>4, <2>5 DEF GateInv, Apart
<1>4. QED
  BY <1>1, <1>2, <1>3

(* The phases after a pump. *)
granting(now, ops) == [op \in Op |-> IF op \in ops THEN "granted" ELSE now[op]]

LEMMA PumpKeepsInv ==
  ASSUME NEW g, NEW now, GateInv(g, now), NEW ops \in pumped(g)
  PROVE  /\ GateInv(start(g, ops), granting(now, ops))
         /\ HeldIn(granting(now, ops)) = HeldIn(now) \cup ops
         /\ start(g, ops).queue = g.queue \ ops
         /\ \A op \in Op : now[op] # "idle" => granting(now, ops)[op] # "idle"
<1> DEFINE r == start(g, ops)
           then == granting(now, ops)
           ahead == [op \in Op |-> IF op \in ops THEN {} ELSE g.ahead[op] \ ops]
<1>1. /\ g \in Gates /\ now \in [Op -> Phases]
      /\ g.queue \subseteq Op /\ g.ahead \in [Op -> SUBSET Op]
      /\ g.queue = {op \in Op : now[op] = "queued"}
  BY DEF GateInv, Gates
<1>2. ops \subseteq g.queue /\ Apart(HeldIn(now) \cup ops)
  BY PumpedAreApart
<1>3. /\ r.queue = g.queue \ ops /\ r.ahead = ahead
      /\ r.active = g.active + Cardinality(ops)
      /\ r.globalActive = (g.globalActive \/ \E op \in ops : Global(op))
      /\ r.activeResources = g.activeResources \cup ResourcesOf(ops)
  BY DEF start
<1>4. then \in [Op -> Phases] /\ \A op \in Op : then[op] = IF op \in ops THEN "granted" ELSE now[op]
  BY <1>1 DEF granting, Phases
<1> HIDE DEF then
<1>5. HeldIn(then) = HeldIn(now) \cup ops /\ HeldIn(now) \cap ops = {}
  BY <1>1, <1>2, <1>4 DEF HeldIn
<1>6. g.active = Cardinality(HeldIn(now)) /\ g.active \in Nat /\ Cardinality(ops) \in Nat
  BY <1>1, <1>2, FiniteOps DEF GateInv, HeldInv, Gates
<1>7. r \in Gates
  <2>1. ResourcesOf(ops) \subseteq Session \cup Tab
    BY <1>1, <1>2, ResourcesOfType
  <2>2. g.activeResources \subseteq Session \cup Tab /\ g.globalActive \in BOOLEAN
    BY <1>1 DEF Gates
  <2>3. ahead \in [Op -> SUBSET Op]
    BY <1>1
  <2>4. g.active + Cardinality(ops) \in Nat
    BY <1>6
  <2> DEFINE active == g.active + Cardinality(ops)
             globalActive == g.globalActive \/ \E op \in ops : Global(op)
             resources == g.activeResources \cup ResourcesOf(ops)
             queue == g.queue \ ops
  <2>5. r = [queue |-> queue, ahead |-> ahead, active |-> active,
             globalActive |-> globalActive, activeResources |-> resources]
    BY DEF start
  <2>6. queue \subseteq Op /\ active \in Nat /\ globalActive \in BOOLEAN
        /\ resources \subseteq Session \cup Tab
    BY <1>1, <2>1, <2>2, <2>4
  <2> HIDE DEF r, ahead, active, globalActive, resources, queue
  <2>7. QED
    BY <2>3, <2>5, <2>6 DEF Gates
<1> HIDE DEF r
<1>8. r.queue = {op \in Op : then[op] = "queued"}
  BY <1>1, <1>3, <1>4
<1>9. OrderInv(r)
  BY <1>1, <1>3 DEF GateInv, OrderInv
<1>10. HeldInv(r, then)
  <2>1. Cardinality(HeldIn(then)) = Cardinality(HeldIn(now)) + Cardinality(ops)
    <3>1. IsFiniteSet(HeldIn(now)) /\ IsFiniteSet(ops)
      BY <1>1, <1>2, FiniteOps DEF HeldIn
    <3>2. Cardinality(HeldIn(now) \cup ops)
            = Cardinality(HeldIn(now)) + Cardinality(ops) - Cardinality(HeldIn(now) \cap ops)
      BY <3>1, FS_Union
    <3>3. Cardinality(HeldIn(now) \cap ops) = 0
      BY <1>5, FS_EmptySet
    <3>4. QED
      BY <1>5, <1>6, <3>2, <3>3
  <2>2. r.active = Cardinality(HeldIn(then))
    BY <1>3, <1>6, <2>1
  <2>3. r.globalActive <=> \E op \in HeldIn(then) : Global(op)
    BY <1>3, <1>5 DEF GateInv, HeldInv
  <2>4. r.activeResources = ResourcesOf(HeldIn(then))
    BY <1>3, <1>5 DEF GateInv, HeldInv, ResourcesOf
  <2>5. QED
    BY <2>2, <2>3, <2>4 DEF HeldInv
<1>11. \A op \in Op : now[op] # "idle" => then[op] # "idle"
  BY <1>4
<1>12. QED
  BY <1>2, <1>3, <1>4, <1>5, <1>7, <1>8, <1>9, <1>10, <1>11 DEF GateInv, r, then

-----------------------------------------------------------------------------
(* The events, before their pump.                                            *)

arrived(g, op) == [g EXCEPT !.queue = @ \cup {op}, !.ahead[op] = g.queue]

LEMMA ArrivalKeepsInv ==
  ASSUME NEW g, NEW now, GateInv(g, now), NEW op \in Op, now[op] = "idle"
  PROVE  /\ GateInv(arrived(g, op), [now EXCEPT ![op] = "queued"])
         /\ HeldIn([now EXCEPT ![op] = "queued"]) = HeldIn(now)
<1> DEFINE r == arrived(g, op)
           then == [now EXCEPT ![op] = "queued"]
           queue == g.queue \cup {op}
           ahead == [g.ahead EXCEPT ![op] = g.queue]
<1>1. /\ g \in Gates /\ now \in [Op -> Phases]
      /\ g.queue \subseteq Op /\ g.ahead \in [Op -> SUBSET Op]
      /\ g.queue = {o \in Op : now[o] = "queued"}
      /\ op \notin g.queue
  BY DEF GateInv, Gates
<1>2. then \in [Op -> Phases] /\ \A o \in Op : then[o] = IF o = op THEN "queued" ELSE now[o]
  BY <1>1 DEF Phases
<1>3. r = [g EXCEPT !.queue = queue, !.ahead = ahead]
  BY <1>1 DEF arrived, Gates
<1>4. /\ queue \subseteq Op /\ ahead \in [Op -> SUBSET Op]
      /\ \A o \in Op : ahead[o] = IF o = op THEN g.queue ELSE g.ahead[o]
  BY <1>1
<1> HIDE DEF r, then, ahead, queue
<1>5. /\ r \in Gates /\ r.queue = queue /\ r.ahead = ahead /\ r.active = g.active
      /\ r.globalActive = g.globalActive /\ r.activeResources = g.activeResources
  BY <1>1, <1>3, <1>4 DEF Gates
<1>6. HeldIn(then) = HeldIn(now)
  BY <1>2 DEF HeldIn
<1>7. r.queue = {o \in Op : then[o] = "queued"}
  BY <1>1, <1>2, <1>5 DEF queue
<1>8. OrderInv(r)
  BY <1>1, <1>4, <1>5 DEF GateInv, OrderInv, queue
<1>9. HeldInv(r, then)
  BY <1>5, <1>6 DEF GateInv, HeldInv
<1>10. QED
  BY <1>2, <1>5, <1>6, <1>7, <1>8, <1>9 DEF GateInv, r, then

left(g, op) ==
  [g EXCEPT !.active = @ - 1,
            !.globalActive = @ /\ ~Global(op),
            !.activeResources = @ \ Resources(op)]

LEMMA DepartureKeepsInv ==
  ASSUME NEW g, NEW now, GateInv(g, now), NEW op \in HeldIn(now)
  PROVE  /\ GateInv(left(g, op), [now EXCEPT ![op] = "idle"])
         /\ HeldIn([now EXCEPT ![op] = "idle"]) = HeldIn(now) \ {op}
<1> DEFINE r == left(g, op)
           then == [now EXCEPT ![op] = "idle"]
           active == g.active - 1
           globalActive == g.globalActive /\ ~Global(op)
           resources == g.activeResources \ Resources(op)
<1>1. /\ g \in Gates /\ now \in [Op -> Phases]
      /\ g.queue \subseteq Op /\ op \in Op /\ now[op] \in {"granted", "running"}
      /\ g.queue = {o \in Op : now[o] = "queued"}
  BY DEF GateInv, Gates, HeldIn
<1>2. then \in [Op -> Phases] /\ \A o \in Op : then[o] = IF o = op THEN "idle" ELSE now[o]
  BY <1>1 DEF Phases
<1>3. r = [g EXCEPT !.active = active, !.globalActive = globalActive, !.activeResources = resources]
  BY <1>1 DEF left, Gates
<1> HIDE DEF then
<1>4. HeldIn(then) = HeldIn(now) \ {op}
  BY <1>2 DEF HeldIn
<1>5. active = Cardinality(HeldIn(then)) /\ active \in Nat
  <2>1. IsFiniteSet(HeldIn(now)) /\ Cardinality(HeldIn(now)) \in Nat
    BY FiniteOps DEF HeldIn
  <2>2. Cardinality(HeldIn(now) \ {op}) = Cardinality(HeldIn(now)) - 1
    BY <2>1, FS_RemoveElement
  <2>3. Cardinality(HeldIn(then)) \in Nat
    BY FiniteOps DEF HeldIn
  <2>4. g.active = Cardinality(HeldIn(now))
    BY DEF GateInv, HeldInv
  <2>5. QED
    BY <1>4, <2>2, <2>3, <2>4
<1>6. \A o \in HeldIn(then) :
        ~Global(o) /\ ~Global(op) /\ Resources(o) \cap Resources(op) = {}
  BY <1>4 DEF GateInv, Apart
<1>7. globalActive <=> \E o \in HeldIn(then) : Global(o)
  BY <1>4, <1>6 DEF GateInv, HeldInv
<1>8. resources = ResourcesOf(HeldIn(then))
  <2>1. g.activeResources = ResourcesOf(HeldIn(now))
    BY DEF GateInv, HeldInv
  <2>2. ResourcesOf(HeldIn(now)) = ResourcesOf(HeldIn(then)) \cup Resources(op)
    BY <1>4 DEF ResourcesOf
  <2>3. ResourcesOf(HeldIn(then)) \cap Resources(op) = {}
    BY <1>6 DEF ResourcesOf
  <2>4. QED
    BY <2>1, <2>2, <2>3
<1>9. resources \subseteq Session \cup Tab /\ globalActive \in BOOLEAN
  BY <1>1 DEF Gates
<1> HIDE DEF r, active, globalActive, resources
<1>10. /\ r \in Gates /\ r.queue = g.queue /\ r.ahead = g.ahead /\ r.active = active
       /\ r.globalActive = globalActive /\ r.activeResources = resources
  BY <1>1, <1>3, <1>5, <1>9 DEF Gates
<1>11. r.queue = {o \in Op : then[o] = "queued"}
  BY <1>1, <1>2, <1>10
<1>12. OrderInv(r) /\ HeldInv(r, then) /\ Apart(HeldIn(then))
  BY <1>4, <1>5, <1>7, <1>8, <1>10 DEF GateInv, OrderInv, HeldInv, Apart
<1>13. QED
  BY <1>2, <1>4, <1>10, <1>11, <1>12 DEF GateInv, r, then

-----------------------------------------------------------------------------
(* The specification.                                                        *)

LEMMA InitSatisfiesIInv ==
  ASSUME Init
  PROVE  IInv /\ gate.queue = {} /\ Held = {}
<1>1. \A op \in Op : phase[op] = "idle"
  BY DEF Init
<1>2. phase \in [Op -> Phases] /\ gate \in Gates
  BY DEF Init, Phases, Gates
<1>3. HeldIn(phase) = {} /\ Held = {} /\ gate.queue = {} /\ {op \in Op : phase[op] = "queued"} = {}
  BY <1>1 DEF HeldIn, Held, Init
<1>4. HeldInv(gate, phase)
  BY <1>3, FS_EmptySet DEF Init, HeldInv, ResourcesOf
<1>5. OrderInv(gate) /\ Apart(HeldIn(phase))
  BY <1>3 DEF OrderInv, Apart
<1>6. aborted = {} /\ live = {}
  BY DEF Init
<1>7. QED
  BY <1>2, <1>3, <1>4, <1>5, <1>6 DEF IInv, GateInv

(* The pump after an event is the Grant of the abstract specification. *)
LEMMA PumpGrants ==
  ASSUME NEW g, NEW now, GateInv(g, now), Pump(g, now)
  PROVE  /\ GateInv(gate, phase)'
         /\ \A op \in Op : now[op] # "idle" => phase'[op] # "idle"
         /\ Isolation!Grant(g.queue, HeldIn(now))
<1>1. PICK ops \in pumped(g) : gate' = start(g, ops) /\ phase' = granting(now, ops)
  BY DEF Pump, granting
<1>2. /\ GateInv(gate', phase') /\ HeldIn(phase') = HeldIn(now) \cup ops
      /\ gate'.queue = g.queue \ ops
      /\ \A op \in Op : now[op] # "idle" => phase'[op] # "idle"
  BY <1>1, PumpKeepsInv
<1>3. ops \in SUBSET g.queue /\ Apart(HeldIn(now) \cup ops)
  BY PumpedAreApart
<1>4. Held' = HeldIn(now) \cup ops
  BY <1>2 DEF Held, HeldIn
<1>5. Isolation!Isolated(HeldIn(now) \cup ops)
  <2>1. HeldIn(now) \cup ops \subseteq Op
    BY <1>3 DEF HeldIn, GateInv
  <2>2. QED
    BY <1>3, <2>1 DEF Apart, Isolation!Isolated, Isolation!Compatible
<1>6. QED
  BY <1>2, <1>3, <1>4, <1>5 DEF Isolation!Grant

LEMMA LeaveFinishes ==
  ASSUME IInv, NEW op \in Op, phase[op] \in {"granted", "running"}, leave(op),
         live' \subseteq Op
  PROVE  IInv' /\ Isolation!Finish(op)
<1> DEFINE now == [phase EXCEPT ![op] = "idle"]
<1>1. Pump(left(gate, op), now) /\ aborted' = aborted \ {op}
  BY DEF leave, left
<1>2. op \in HeldIn(phase) /\ Held = HeldIn(phase)
  BY DEF HeldIn, Held
<1>3. GateInv(left(gate, op), now) /\ HeldIn(now) = HeldIn(phase) \ {op}
  BY <1>2, DepartureKeepsInv DEF IInv
<1>4. left(gate, op).queue = gate.queue
  BY DEF left, IInv, GateInv, Gates
<1>5. \A o \in Op : o # op /\ phase[o] # "idle" => now[o] # "idle"
  BY DEF IInv, GateInv
<1> HIDE DEF now
<1>6. /\ GateInv(gate, phase)'
      /\ \A o \in Op : now[o] # "idle" => phase'[o] # "idle"
      /\ Isolation!Grant(gate.queue, HeldIn(phase) \ {op})
  <2> DEFINE g == left(gate, op)
  <2>1. GateInv(g, now) /\ Pump(g, now) /\ g.queue = gate.queue
    BY <1>1, <1>3, <1>4
  <2> HIDE DEF g
  <2>2. QED
    BY <1>3, <2>1, PumpGrants
<1>7. aborted' \subseteq {o \in Op : phase'[o] # "idle"}
  BY <1>1, <1>5, <1>6 DEF IInv
<1>8. QED
  BY <1>2, <1>6, <1>7 DEF IInv, Isolation!Finish

LEMMA NextKeepsIInv ==
  ASSUME IInv, [Next]_vars
  PROVE  IInv' /\ [Isolation!Next]_(Isolation!vars)
<1>1. ASSUME NEW op \in Op, Run(op)
      PROVE  IInv' /\ Isolation!Arrive(op)
  <2> DEFINE now == [phase EXCEPT ![op] = "queued"]
             g == arrived(gate, op)
  <2>1. phase[op] = "idle" /\ Pump(g, now) /\ aborted' = aborted /\ live' = live
    BY <1>1 DEF Run, arrived
  <2>2. GateInv(g, now) /\ HeldIn(now) = HeldIn(phase)
    BY <2>1, ArrivalKeepsInv DEF IInv
  <2>3. g.queue = gate.queue \cup {op}
    BY DEF arrived, IInv, GateInv, Gates
  <2>4. \A o \in Op : phase[o] # "idle" => now[o] # "idle"
    BY DEF IInv, GateInv
  <2> HIDE DEF g, now
  <2>5. /\ GateInv(gate, phase)'
        /\ \A o \in Op : now[o] # "idle" => phase'[o] # "idle"
        /\ Isolation!Grant(gate.queue \cup {op}, HeldIn(phase))
    BY <2>1, <2>2, <2>3, PumpGrants
  <2>6. op \notin gate.queue \cup Held /\ Held = HeldIn(phase)
    BY <2>1 DEF IInv, GateInv, Held, HeldIn
  <2>7. aborted' \subseteq {o \in Op : phase'[o] # "idle"}
    BY <2>1, <2>4, <2>5 DEF IInv
  <2>8. QED
    BY <2>1, <2>5, <2>6, <2>7 DEF IInv, Isolation!Arrive
<1>2. ASSUME NEW op \in Op, Abort(op)
      PROVE  IInv' /\ UNCHANGED Isolation!vars
  BY <1>2 DEF Abort, IInv, Held, Isolation!vars
<1>3. ASSUME NEW op \in Op, Refuse(op) \/ Complete(op) \/ Timeout(op)
      PROVE  IInv' /\ Isolation!Finish(op)
  <2>1. phase[op] \in {"granted", "running"} /\ leave(op) /\ live' \subseteq Op
    BY <1>3 DEF Refuse, Complete, Timeout, IInv
  <2>2. QED
    BY <2>1, LeaveFinishes
<1>4. ASSUME NEW op \in Op, Dispatch(op)
      PROVE  IInv' /\ UNCHANGED Isolation!vars
  <2>1. /\ phase[op] = "granted" /\ phase' = [phase EXCEPT ![op] = "running"]
        /\ gate' = gate /\ aborted' = aborted /\ live' = live \cup {op}
    BY <1>4 DEF Dispatch
  <2>2. /\ phase' \in [Op -> Phases]
        /\ \A o \in Op : phase'[o] = IF o = op THEN "running" ELSE phase[o]
    BY <2>1 DEF IInv, GateInv, Phases
  <2>3. HeldIn(phase') = HeldIn(phase) /\ Held' = Held
    BY <2>1, <2>2 DEF HeldIn, Held
  <2>4. /\ {o \in Op : phase'[o] = "queued"} = {o \in Op : phase[o] = "queued"}
        /\ {o \in Op : phase'[o] # "idle"} = {o \in Op : phase[o] # "idle"}
    BY <2>1, <2>2
  <2>5. GateInv(gate, phase)'
    BY <2>1, <2>2, <2>3, <2>4 DEF IInv, GateInv, OrderInv, HeldInv, Apart
  <2>6. QED
    BY <2>1, <2>3, <2>4, <2>5 DEF IInv, Isolation!vars
<1>5. ASSUME NEW op \in Op, HandlerReturns(op)
      PROVE  IInv' /\ UNCHANGED Isolation!vars
  BY <1>5 DEF HandlerReturns, IInv, Held, Isolation!vars
<1>6. CASE UNCHANGED vars
  BY <1>6 DEF vars, IInv, Held, Isolation!vars
<1>7. CASE Next
  <2>1. PICK op \in Op : \/ Run(op) \/ Abort(op) \/ Refuse(op) \/ Dispatch(op)
                         \/ Complete(op) \/ Timeout(op) \/ HandlerReturns(op)
    BY <1>7 DEF Next
  <2>2. QED
    BY <1>1, <1>2, <1>3, <1>4, <1>5, <2>1 DEF Isolation!Next
<1>8. QED
  BY <1>6, <1>7

(* stage-three.js start() and its finally(): through completions, refusals   *)
(* and timeouts, the gate's count, its exclusive flag and its resource set   *)
(* are exactly those of the commands that hold it.                           *)
THEOREM GateHoldsWhatRuns == Spec => []HoldsWhatRuns
<1>1. Init => IInv
  BY InitSatisfiesIInv
<1>2. IInv /\ [Next]_vars => IInv'
  BY NextKeepsIInv
<1>3. IInv => HoldsWhatRuns
  BY DEF IInv, GateInv, HeldInv, HoldsWhatRuns, Held, HeldIn
<1>4. QED
  BY <1>1, <1>2, <1>3, PTL DEF Spec

(* Type correctness of the gate in every reachable state.                    *)
THEOREM GateTypeCorrect == Spec => []TypeOK
<1>1. Init => IInv
  BY InitSatisfiesIInv
<1>2. IInv /\ [Next]_vars => IInv'
  BY NextKeepsIInv
<1>3. IInv => TypeOK
  BY DEF IInv, GateInv, Gates, TypeOK
<1>4. QED
  BY <1>1, <1>2, <1>3, PTL DEF Spec

(* pump()'s barrier: no command enters while exclusive work that came before *)
(* it waits, and no exclusive command before anything older than itself.     *)
THEOREM GateBarrierHolds == Spec => ExclusiveBarrier
<1>1. Init => IInv
  BY InitSatisfiesIInv
<1>2. IInv /\ [Next]_vars => IInv'
  BY NextKeepsIInv
<1>3. ASSUME NEW g, NEW now, Pump(g, now), NEW op \in Op, NEW earlier \in g.ahead[op],
             now[op] # "granted", phase'[op] = "granted"
      PROVE  ~Global(earlier) /\ ~Global(op)
  <2>1. PICK ops \in pumped(g) : phase' = granting(now, ops)
    BY <1>3 DEF Pump, granting
  <2>2. op \in ops
    BY <1>3, <2>1 DEF granting
  <2>3. QED
    BY <1>3, <2>1, <2>2 DEF pumped, ExclusiveStarts, Candidates
<1>4. IInv /\ [Next]_vars => [PassesNone]_vars
  <2>1. SUFFICES ASSUME IInv, Next, NEW op \in Op, NEW earlier \in gate.ahead[op],
                        Global(earlier) \/ Global(op),
                        phase[op] = "queued", phase'[op] = "granted"
                 PROVE  FALSE
    BY DEF PassesNone
  <2>2. PICK o \in Op : \/ Run(o) \/ Abort(o) \/ Refuse(o) \/ Dispatch(o)
                        \/ Complete(o) \/ Timeout(o) \/ HandlerReturns(o)
    BY <2>1 DEF Next
  <2>3. phase \in [Op -> Phases] /\ gate.ahead \in [Op -> SUBSET Op] /\ gate \in Gates
    BY <2>1 DEF IInv, GateInv, Gates
  <2>4. CASE Run(o)
    <3> DEFINE g == arrived(gate, o)
               now == [phase EXCEPT ![o] = "queued"]
    <3>1. Pump(g, now) /\ o # op
      BY <2>1, <2>4 DEF Run, arrived
    <3>2. now[op] = "queued" /\ g.ahead[op] = gate.ahead[op]
      BY <2>1, <2>3, <3>1 DEF arrived, Gates
    <3> HIDE DEF g, now
    <3>3. QED
      BY <1>3, <2>1, <3>1, <3>2
  <2>5. CASE Refuse(o) \/ Complete(o) \/ Timeout(o)
    <3> DEFINE g == left(gate, o)
               now == [phase EXCEPT ![o] = "idle"]
    <3>1. Pump(g, now) /\ o # op
      BY <2>1, <2>5 DEF Refuse, Complete, Timeout, leave, left
    <3>2. now[op] = "queued" /\ g.ahead[op] = gate.ahead[op]
      BY <2>1, <2>3, <3>1 DEF left, Gates
    <3> HIDE DEF g, now
    <3>3. QED
      BY <1>3, <2>1, <3>1, <3>2
  <2>6. CASE Dispatch(o)
    BY <2>1, <2>3, <2>6 DEF Dispatch
  <2>7. CASE Abort(o) \/ HandlerReturns(o)
    BY <2>1, <2>7 DEF Abort, HandlerReturns
  <2>8. QED
    BY <2>2, <2>4, <2>5, <2>6, <2>7
<1>5. QED
  BY <1>1, <1>2, <1>4, PTL DEF Spec, ExclusiveBarrier

(* The gate implements ResourceIsolation, the promise the broker's scheduler *)
(* implements too: what holds the gate is isolated.                          *)
THEOREM GateIsolates == Spec => GateIsolation
<1>1. Init => IInv /\ Isolation!Init
  BY InitSatisfiesIInv DEF Isolation!Init
<1>2. IInv /\ [Next]_vars => IInv' /\ [Isolation!Next]_(Isolation!vars)
  BY NextKeepsIInv
<1>3. QED
  BY <1>1, <1>2, PTL DEF Spec, GateIsolation, Isolation!Spec

-----------------------------------------------------------------------------
(* No lost wakeup.                                                           *)

(* A pump takes all it may: whatever it leaves is behind an exclusive        *)
(* command, or wants a resource that is held now.                            *)
LEMMA PumpLeavesNothing ==
  ASSUME NEW g, NEW now, GateInv(g, now), NEW ops \in pumped(g)
  PROVE  pumped(start(g, ops)) = {{}}
<1>1. PICK r : r = start(g, ops)
  OBVIOUS
<1>2. /\ r.queue = g.queue \ ops
      /\ \A op \in Op : r.ahead[op] = IF op \in ops THEN {} ELSE g.ahead[op] \ ops
      /\ r.active = g.active + Cardinality(ops)
      /\ r.globalActive = (g.globalActive \/ \E op \in ops : Global(op))
      /\ r.activeResources = g.activeResources \cup ResourcesOf(ops)
  BY <1>1 DEF start
<1>3. /\ g.queue \subseteq Op /\ g.active \in Nat /\ ops \subseteq g.queue
      /\ \A op \in g.queue : g.ahead[op] \subseteq g.queue
  BY PumpedAreApart DEF GateInv, Gates, OrderInv
<1>4. SUFFICES ASSUME ~r.globalActive
               PROVE  pumped(r) = {{}}
  BY <1>1 DEF pumped
<1>5. ~g.globalActive /\ \A op \in ops : ~Global(op)
  BY <1>2, <1>4
<1>6. ExclusiveStarts(g) = {} \/ ops # {}
  BY <1>5 DEF pumped
<1>7. ExclusiveStarts(g) = {} /\ ops \subseteq Candidates(g) /\ Taken(g, ops)
  BY <1>5, <1>6 DEF pumped, ExclusiveStarts
<1>8. ExclusiveStarts(r) = {}
  <2>1. SUFFICES ASSUME NEW op \in r.queue, Global(op), r.ahead[op] = {}, r.active = 0
                 PROVE  FALSE
    BY DEF ExclusiveStarts
  <2>2. IsFiniteSet(ops) /\ Cardinality(ops) \in Nat
    BY <1>3, FiniteOps
  <2>3. g.active = 0 /\ Cardinality(ops) = 0
    BY <1>2, <1>3, <2>1, <2>2
  <2>4. ops = {}
    BY <2>2, <2>3, FS_EmptySet
  <2>5. op \in g.queue /\ g.ahead[op] = {}
    BY <1>2, <1>3, <2>1, <2>4
  <2>6. QED
    BY <1>7, <2>1, <2>3, <2>5 DEF ExclusiveStarts
<1>9. \A op \in Candidates(r) : Resources(op) \cap r.activeResources # {}
  <2>1. TAKE op \in Candidates(r)
  <2>2. op \in g.queue \ ops /\ \A other \in (g.ahead[op] \ ops) \cup {op} : ~Global(other)
    BY <1>2, <1>3 DEF Candidates
  <2>3. op \in Candidates(g)
    BY <1>5, <2>2 DEF Candidates
  <2>4. Resources(op) \cap (g.activeResources \cup ResourcesOf(ops \cap g.ahead[op])) # {}
    BY <1>7, <2>2, <2>3 DEF Taken
  <2>5. ResourcesOf(ops \cap g.ahead[op]) \subseteq ResourcesOf(ops)
    BY DEF ResourcesOf
  <2>6. QED
    BY <1>2, <2>4, <2>5
<1>10. Taken(r, {}) /\ \A others \in SUBSET Candidates(r) : Taken(r, others) => others = {}
  <2>1. ResourcesOf({}) = {}
    BY DEF ResourcesOf
  <2>2. Taken(r, {})
    BY <1>9, <2>1 DEF Taken
  <2>3. ASSUME NEW others \in SUBSET Candidates(r), Taken(r, others), NEW op \in others
        PROVE  FALSE
    BY <1>9, <2>3 DEF Taken
  <2>4. QED
    BY <2>2, <2>3
<1>11. QED
  BY <1>4, <1>8, <1>10 DEF pumped

LEMMA NextLeavesNothing ==
  ASSUME IInv, NothingLeftWaiting, [Next]_vars
  PROVE  NothingLeftWaiting'
<1>1. ASSUME NEW g, NEW now, GateInv(g, now), Pump(g, now)
      PROVE  NothingLeftWaiting'
  <2>1. PICK ops \in pumped(g) : gate' = start(g, ops)
    BY <1>1 DEF Pump
  <2>2. pumped(gate') = {{}}
    BY <1>1, <2>1, PumpLeavesNothing
  <2>3. QED
    BY <2>2 DEF NothingLeftWaiting, pumped, ExclusiveStarts, Candidates, Taken
<1>2. ASSUME NEW op \in Op, Run(op)
      PROVE  NothingLeftWaiting'
  <2> DEFINE g == arrived(gate, op)
             now == [phase EXCEPT ![op] = "queued"]
  <2>1. phase[op] = "idle" /\ Pump(g, now)
    BY <1>2 DEF Run, arrived
  <2>2. GateInv(g, now)
    BY <2>1, ArrivalKeepsInv DEF IInv
  <2> HIDE DEF g, now
  <2>3. QED
    BY <1>1, <2>1, <2>2
<1>3. ASSUME NEW op \in Op, Refuse(op) \/ Complete(op) \/ Timeout(op)
      PROVE  NothingLeftWaiting'
  <2> DEFINE g == left(gate, op)
             now == [phase EXCEPT ![op] = "idle"]
  <2>1. phase[op] \in {"granted", "running"} /\ Pump(g, now)
    BY <1>3 DEF Refuse, Complete, Timeout, leave, left
  <2>2. GateInv(g, now)
    BY <2>1, DepartureKeepsInv DEF IInv, HeldIn
  <2> HIDE DEF g, now
  <2>3. QED
    BY <1>1, <2>1, <2>2
<1>4. CASE gate' = gate
  BY <1>4 DEF NothingLeftWaiting, pumped, ExclusiveStarts, Candidates, Taken
<1>5. QED
  BY <1>2, <1>3, <1>4 DEF Next, Abort, Dispatch, HandlerReturns, vars

(* stage-three.js pump(), called after every arrival and every departure:    *)
(* between two events nothing is left waiting that could enter.              *)
THEOREM GateLosesNoWakeup == Spec => []NothingLeftWaiting
<1>1. Init => IInv /\ NothingLeftWaiting
  <2>1. SUFFICES ASSUME Init PROVE NothingLeftWaiting
    BY InitSatisfiesIInv
  <2>2. gate.queue = {} /\ ~gate.globalActive
    BY <2>1 DEF Init
  <2>3. ExclusiveStarts(gate) = {} /\ Candidates(gate) = {}
    BY <2>2 DEF ExclusiveStarts, Candidates
  <2>4. Taken(gate, {})
    BY <2>3 DEF Taken
  <2>5. QED
    BY <2>2, <2>3, <2>4 DEF NothingLeftWaiting, pumped
<1>2. IInv /\ NothingLeftWaiting /\ [Next]_vars => (IInv /\ NothingLeftWaiting)'
  BY NextKeepsIInv, NextLeavesNothing
<1>3. QED
  BY <1>1, <1>2, PTL DEF Spec

(* The extension is never laxer than the broker: what its gate runs beside   *)
(* other commands, the broker's classifyCommand put in a session lane, and   *)
(* the gate holds that lane's session and tab.                               *)
THEOREM GateIsAsStrict ==
  \A c \in Commands :
    ~gateScope(c).global =>
      /\ classifyCommand(c).kind = "session"
      /\ {c.session} \cup classifyCommand(c).tabs \subseteq gateScope(c).resources
BY LaneAssumption DEF Commands, gateScope, classifyCommand, MustBeExclusive, ProvenOnTab

=============================================================================
