---------------------------- MODULE RequestCache ----------------------------
(* The broker's request records (broker-server.ts): one for each operation,  *)
(* so that a repeated request joins the first instead of sending it again,   *)
(* within a number of records and a number of bytes.  A request reserves     *)
(* what its answer may take; what it took is known when it settles, and may  *)
(* be more.  Results that the extension kept (bridge.ts confirmedResults)    *)
(* take the place of requests whose outcome was unknown.                     *)
EXTENDS Integers, Sequences, FiniteSets, SequencesExt

CONSTANTS Operation,
          Content,      \* fingerprints of a command with its payload
          MaxRequests,  \* MAX_CACHED_REQUESTS
          MaxBytes,     \* MAX_REQUEST_CACHE_BYTES
          MaxConfirmed, \* MAX_CONFIRMED_RESULTS
          Size          \* bound: sizes of reservations and results

RequestCacheAssumption ==
  /\ {MaxRequests, MaxBytes, MaxConfirmed} \subseteq Nat /\ MaxRequests > 0
  /\ Size \subseteq Nat

VARIABLES
  requests,  \* in the order of createdAt
  bytes,     \* requestCacheBytes
  confirmed, \* bridge.ts: the results it has recovered, of one content each
  flying     \* history: the operations that bridge.send has not settled

vars == <<requests, bytes, confirmed, flying>>

Outcome == {"pending", "completed", "effect_unknown"}
Record == [id : Operation, content : Content, reserved : Size, actual : Size \cup {0},
           outcome : Outcome]
NoResult == [content |-> {}, size |-> 0]

TypeOK ==
  /\ requests \in Seq(Record)
  /\ bytes \in Nat
  /\ confirmed \in [Operation -> {NoResult} \cup [content : {{c} : c \in Content}, size : Size]]
  /\ flying \subseteq Operation

Init ==
  /\ requests = <<>> /\ bytes = 0
  /\ confirmed = [id \in Operation |-> NoResult]
  /\ flying = {}

-----------------------------------------------------------------------------
Larger(a, b) == IF a > b THEN a ELSE b

Settled(r) == r.outcome # "pending"
Footprint(r) == Larger(r.reserved, r.actual)

(* What a record takes more when it settles.                                 *)
SettledDifference(r) == r.actual - r.reserved
Difference(r) == Footprint(r) - r.reserved

Total(s) == FoldLeft(LAMBDA sum, r : sum + Footprint(r), 0, s)

Recorded == {requests[i].id : i \in DOMAIN requests}
Of(s, id) == CHOOSE i \in DOMAIN s : s[i].id = id

(* removeRequest, of several: each takes its bytes with it.                  *)
Cache(s, b) == [requests |-> s, bytes |-> b]
removeRequests(c, ids) ==
  FoldLeft(LAMBDA d, r : IF r.id \in ids THEN Cache(d.requests, Larger(0, d.bytes - Footprint(r)))
                         ELSE Cache(Append(d.requests, r), d.bytes),
           Cache(<<>>, c.bytes), c.requests)

SettledAmong(s, n) == {s[i].id : i \in {j \in 1..n : Settled(s[j])}}

(* pruneRequests: what has settled and is too old, the first age of them.    *)
pruneRequests(age) ==
  removeRequests(Cache(requests, bytes), SettledAmong(requests, age))

(* evictSettled: the oldest settled ones, until there is room or none left.  *)
evictSettled(c, required) ==
  LET Without(n) == removeRequests(c, SettledAmong(c.requests, n))
      Room(d) == Len(d.requests) < MaxRequests /\ d.bytes + required <= MaxBytes
      enough == {n \in 0..Len(c.requests) : Room(Without(n))}
  IN Without(IF enough = {} THEN Len(c.requests) ELSE Min(enough))

Admits(c, required) == Len(c.requests) < MaxRequests /\ c.bytes + required <= MaxBytes

Keeps(c) == requests' = c.requests /\ bytes' = c.bytes

Adds(c, r) == Keeps(Cache(Append(c.requests, r), c.bytes + Footprint(r)))

(* bridge.confirmedResult, and discardConfirmedResult.                       *)
Confirms(id, content) == confirmed[id].content = {content}
discardConfirmedResult(id) == confirmed' = [confirmed EXCEPT ![id] = NoResult]

-----------------------------------------------------------------------------
(* The /command handler, up to the await of the record's promise.            *)

(* There is a record: the request joins it, or conflicts with it.            *)
Join(id, content, c) ==
  /\ ~(c.requests[Of(c.requests, id)].outcome = "effect_unknown"
       /\ c.requests[Of(c.requests, id)].content = content /\ Confirms(id, content))
  /\ Keeps(c) /\ UNCHANGED <<confirmed, flying>>

(* Its outcome was unknown, and the extension's result has come since.       *)
Replace(id, content, c) ==
  LET i == Of(c.requests, id)
      r == [c.requests[i] EXCEPT !.actual = confirmed[id].size, !.outcome = "completed"]
  IN /\ c.requests[i].outcome = "effect_unknown"
     /\ c.requests[i].content = content /\ Confirms(id, content)
     /\ Keeps(evictSettled(Cache(Append(RemoveAt(c.requests, i), r),
                                 c.bytes + Footprint(r) - Footprint(c.requests[i])), 0))
     /\ discardConfirmedResult(id) /\ UNCHANGED flying

(* There is none, but a result: it is recorded if there is room, and is      *)
(* answered all the same if not.                                             *)
Recover(id, content, c) ==
  LET size == confirmed[id].size
      room == evictSettled(c, size)
  IN /\ Confirms(id, content)
     /\ IF Admits(room, size)
          THEN /\ Adds(room, [id |-> id, content |-> content, reserved |-> size, actual |-> size,
                              outcome |-> "completed"])
               /\ discardConfirmedResult(id)
          ELSE Keeps(room) /\ UNCHANGED confirmed
     /\ UNCHANGED flying

(* A new one is sent, or refused: by its deadline, or for lack of room.      *)
Admit(id, content, c) ==
  /\ confirmed[id] = NoResult
  /\ \/ Keeps(c) /\ UNCHANGED flying
     \/ \E reserved \in Size :
          LET room == evictSettled(c, reserved)
          IN IF Admits(room, reserved)
               THEN /\ Adds(room, [id |-> id, content |-> content, reserved |-> reserved,
                                   actual |-> 0, outcome |-> "pending"])
                    /\ flying' = flying \cup {id}
               ELSE Keeps(room) /\ UNCHANGED flying
  /\ UNCHANGED confirmed

OtherContent(id, content, c) ==
  /\ confirmed[id] # NoResult /\ ~Confirms(id, content)
  /\ Keeps(c) /\ UNCHANGED <<confirmed, flying>>

Request(id, content) ==
  \E age \in 0..Len(requests) :
    LET c == pruneRequests(age)
    IN IF \E i \in DOMAIN c.requests : c.requests[i].id = id
         THEN Join(id, content, c) \/ Replace(id, content, c)
         ELSE Recover(id, content, c) \/ Admit(id, content, c) \/ OtherContent(id, content, c)

(* bridge.send has settled: the then, catch and finally of its promise.  A   *)
(* failure has no size.                                                      *)
Settle(id) ==
  /\ id \in flying
  /\ flying' = flying \ {id}
  /\ LET i == Of(requests, id)
     IN \E outcome \in {"completed", "effect_unknown"}, size \in Size \cup {0} :
          LET r == [requests[i] EXCEPT !.outcome = outcome, !.actual = size]
          IN /\ outcome = "effect_unknown" => size = 0
             /\ Keeps(evictSettled(Cache([requests EXCEPT ![i] = r],
                                         bytes + Difference(r)), 0))
  /\ UNCHANGED confirmed

(* The extension reports a result that it kept.                              *)
ResultRecovered(id) ==
  /\ confirmed[id] = NoResult
  /\ Cardinality({o \in Operation : confirmed[o] # NoResult}) < MaxConfirmed
  /\ \E content \in Content, size \in Size :
       confirmed' = [confirmed EXCEPT ![id] = [content |-> {content}, size |-> size]]
  /\ UNCHANGED <<requests, bytes, flying>>

Next == \E id \in Operation :
  \/ \E content \in Content : Request(id, content)
  \/ Settle(id) \/ ResultRecovered(id)

Spec == Init /\ [][Next]_vars

-----------------------------------------------------------------------------
(* However requests are admitted, settle larger than reserved, are replaced, *)
(* pruned and evicted, the byte counter is the sum of what is recorded,      *)
(* within the budget; and what is under way keeps its record, so that a      *)
(* repeat of it is not sent again.                                           *)
CacheWithinBudget ==
  /\ bytes = Total(requests) /\ bytes <= MaxBytes
  /\ Len(requests) <= MaxRequests
  /\ flying = {requests[i].id : i \in {j \in DOMAIN requests : ~Settled(requests[j])}}

=============================================================================
