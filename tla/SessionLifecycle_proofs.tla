----------------------- MODULE SessionLifecycle_proofs -----------------------
(* Closing waits for the accepted calls and ends before the session does,    *)
(* sessions share no tab, and a closed session owns none but what came late: *)
(* for any number of sessions, tabs and calls and any lengths of time.       *)
EXTENDS SessionLifecycle, FiniteSetTheorems, TLAPS

CallsOf(s) == {c \in Call : Working(c) /\ call[c].session = s}

(* The count of AcceptedWorkTracker is that of the calls at work. *)
CountInv == \A s \in Session : accepted[s] = Cardinality(CallsOf(s))

(* Only a closing session has a close at work, and a closed one nothing. *)
StateInv ==
  \A s \in Session :
    /\ close[s] # NoClose => session[s].state = "closing"
    /\ session[s].state = "closed" => CallsOf(s) = {}

WaitInv ==
  \A s \in Session :
    /\ close[s].step = "waiting" => CallsOf(s) # {}
    /\ close[s].step \notin {"none", "waiting"} => CallsOf(s) = {}

(* What a cleanup had no hand in came after it had read the records, and the *)
(* calls that could record a tab in time have ended.                         *)
ReleaseInv ==
  \A s \in Session, t \in Tab : owner[t] = s =>
    /\ close[s].step = "cleaning" => t \in close[s].todo \cup late
    /\ close[s].step = "completed" \/ session[s].state = "closed" => t \in late

(* Whoever may learn of a tab has one. *)
AskInv ==
  \A c \in Call : Working(c) =>
    /\ call[c].kind = "list" => call[c].ask = "tabs"
    /\ call[c].kind = "open" => call[c].ask = "openTab"
    /\ call[c].kind \notin {"list", "open"} => call[c].tab \in Tab
    /\ call[c].ask = "openTab" /\ call[c].answer = "ok" => call[c].tab \in Tab

IInv ==
  /\ TypeOK /\ CountInv /\ StateInv /\ WaitInv /\ ReleaseInv /\ AskInv
  /\ TabsAreExclusive

-----------------------------------------------------------------------------
(* The lemmas. *)

LEMMA CallsAreFinite == \A s : IsFiniteSet(CallsOf(s)) /\ Cardinality(CallsOf(s)) \in 0..Cardinality(Call)
<1> TAKE s
<1>1. CallsOf(s) \subseteq Call
  BY DEF CallsOf
<1>2. IsFiniteSet(Call)
  BY SessionAssumption DEF SessionAssumption
<1>3. /\ IsFiniteSet(CallsOf(s))
      /\ Cardinality(CallsOf(s)) <= Cardinality(Call)
  BY <1>1, <1>2, FS_Subset
<1> QED
  BY <1>2, <1>3, FS_CardinalityType

(* The books of the calls, of the closes that wait for them, and which       *)
(* session may have either.                                                  *)
Books == CountInv /\ StateInv /\ WaitInv

(* Leave keeps the books, as long as the step leaves the states alone.       *)
LEMMA LeaveKeepsBooks ==
  ASSUME TypeOK, Books, NEW c \in Call, Working(c), Leave(c),
         \A s \in Session : session'[s].state = session[s].state
  PROVE  Books' /\ accepted' \in [Session -> 0..Cardinality(Call)]
                /\ call' \in [Call -> CallRecords \cup {NoCall}]
                /\ close' \in [Session -> CloseRecords \cup {NoClose}]
<1>0. call[c] \in CallRecords
  BY DEF TypeOK, Working
<1>a. PICK s0 \in Session : s0 = call[c].session
  BY <1>0 DEF CallRecords
<1>1. s0 \in Session /\ c \in CallsOf(s0)
  BY <1>a DEF CallsOf
<1>2. CallsOf(s0)' = CallsOf(s0) \ {c}
  BY <1>a, <1>1 DEF CallsOf, Leave, Working, TypeOK, NoCall
<1>3. \A s \in Session \ {s0} : CallsOf(s)' = CallsOf(s)
  BY <1>a, <1>1 DEF CallsOf, Leave, Working, TypeOK, NoCall
<1>4. accepted[s0] = Cardinality(CallsOf(s0)) /\ IsFiniteSet(CallsOf(s0))
  BY <1>1, CallsAreFinite DEF Books, CountInv
<1>5. IsFiniteSet(CallsOf(s0)') /\ Cardinality(CallsOf(s0)') = accepted[s0] - 1
  BY <1>1, <1>2, <1>4, FS_RemoveElement
<1>6. accepted' = [accepted EXCEPT ![s0] = @ - 1]
  BY <1>a DEF Leave
<1>7. CountInv'
  <2> SUFFICES ASSUME NEW s \in Session PROVE accepted'[s] = Cardinality(CallsOf(s)')
    BY DEF CountInv
  <2>1. CASE s = s0
    BY <2>1, <1>1, <1>5, <1>6 DEF TypeOK
  <2>2. CASE s # s0
    BY <2>2, <1>3, <1>6 DEF TypeOK, Books, CountInv
  <2> QED BY <2>1, <2>2
<1>8. CallsOf(s0)' = {} <=> accepted'[s0] = 0
  BY <1>1, <1>5, <1>7, FS_EmptySet DEF CountInv
<1>9. close[s0].step \in {"none", "waiting"}
  BY <1>1 DEF Books, WaitInv
<1>10. /\ \A s \in Session \ {s0} : close'[s] = close[s]
       /\ close'[s0] = IF accepted'[s0] = 0 /\ close[s0].step = "waiting"
                         THEN [close[s0] EXCEPT !.step = "ready"] ELSE close[s0]
  BY <1>a, <1>1 DEF Leave, TypeOK
<1>11. close[s0] = NoClose \/ close[s0] \in CloseRecords
  BY <1>1 DEF TypeOK
<1>12. close'[s0].step = IF accepted'[s0] = 0 /\ close[s0].step = "waiting"
                           THEN "ready" ELSE close[s0].step
  BY <1>10, <1>11 DEF NoClose, CloseRecords
<1>13. WaitInv'
  <2> SUFFICES ASSUME NEW s \in Session
      PROVE /\ close'[s].step = "waiting" => CallsOf(s)' # {}
            /\ close'[s].step \notin {"none", "waiting"} => CallsOf(s)' = {}
    BY DEF WaitInv
  <2>1. CASE s = s0
    BY <2>1, <1>8, <1>9, <1>12
  <2>2. CASE s # s0
    BY <2>2, <1>3, <1>10 DEF Books, WaitInv
  <2> QED BY <2>1, <2>2
<1>14. StateInv'
  <2> SUFFICES ASSUME NEW s \in Session
      PROVE /\ close'[s] # NoClose => session'[s].state = "closing"
            /\ session'[s].state = "closed" => CallsOf(s)' = {}
    BY DEF StateInv
  <2>1. close'[s] # NoClose => close[s] # NoClose
    <3>1. CASE s = s0
      BY <3>1, <1>10, <1>11 DEF NoClose
    <3>2. CASE s # s0
      BY <3>2, <1>10
    <3> QED BY <3>1, <3>2
  <2>2. CallsOf(s)' \subseteq CallsOf(s)
    BY <1>2, <1>3
  <2> QED
    BY <2>1, <2>2 DEF Books, StateInv
<1>15. accepted' \in [Session -> 0..Cardinality(Call)]
  <2>1. accepted'[s0] \in 0..Cardinality(Call)
    <3>1. accepted'[s0] = accepted[s0] - 1 /\ accepted[s0] \in 0..Cardinality(Call)
      BY <1>1, <1>6 DEF TypeOK
    <3>2. accepted[s0] - 1 \in Nat
      BY <1>5, FS_CardinalityType
    <3>3. Cardinality(Call) \in Nat
      BY FS_CardinalityType, SessionAssumption DEF SessionAssumption
    <3> QED BY <3>1, <3>2, <3>3
  <2> QED
    BY <2>1, <1>1, <1>6 DEF TypeOK
<1>16. call' \in [Call -> CallRecords \cup {NoCall}]
  BY DEF Leave, TypeOK
<1>17. close' \in [Session -> CloseRecords \cup {NoClose}]
  <2>1. close'[s0] \in CloseRecords \cup {NoClose}
    BY <1>9, <1>10, <1>11 DEF CloseRecords, NoClose
  <2> QED
    BY <2>1, <1>1, <1>10 DEF Leave, TypeOK
<1> QED
  BY <1>7, <1>13, <1>14, <1>15, <1>16, <1>17 DEF Books

-----------------------------------------------------------------------------
(* What the operations of session.ts keep of a record. *)

LEMMA TouchedRecord ==
  ASSUME NEW r \in SessionRecords
  PROVE  /\ touched(r) \in SessionRecords
         /\ touched(r).state = r.state /\ touched(r).tabs = r.tabs
<1>1. Ttl \in 0..Longest(Ttl, Pin)
  BY SessionAssumption DEF SessionAssumption, Longest
<1> QED
  BY <1>1 DEF touched, SessionRecords

LEMMA PinnedRecord ==
  ASSUME NEW r \in SessionRecords,
         NEW state \in {"closing", "cleanup_partial"}
  PROVE  /\ pinned(r, state) \in SessionRecords
         /\ pinned(r, state).state = state /\ pinned(r, state).tabs = r.tabs
<1>1. Longest(r.left, Pin) \in 0..Longest(Ttl, Pin)
  BY SessionAssumption DEF SessionAssumption, Longest, SessionRecords
<1> QED
  BY <1>1 DEF pinned, SessionRecords

(* The session of a call learns of tabs that no live session holds.          *)
LEMMA AssignedRecord ==
  ASSUME NEW s \in Session, session[s] \in SessionRecords, NEW ts,
         ts \subseteq {t \in Tab : assignable(s, t)}
  PROVE  /\ assigned(s, ts) \in SessionRecords
         /\ assigned(s, ts).state = session[s].state
         /\ assigned(s, ts).tabs = session[s].tabs \cup ts
         /\ ~Live(s) => assigned(s, ts) = session[s]
<1>1. CASE ts = {}
  BY <1>1 DEF assigned
<1>2. CASE ts # {}
  <2>1. Live(s)
    BY <1>2 DEF assignable
  <2>2. touched(session[s]) \in SessionRecords
    BY TouchedRecord
  <2>3. touched(session[s]).tabs = session[s].tabs
    BY TouchedRecord
  <2>4. touched(session[s]).state = session[s].state
    BY TouchedRecord
  <2>5. assigned(s, ts) = [touched(session[s]) EXCEPT !.tabs = @ \cup ts]
    BY <1>2 DEF assigned
  <2> QED
    BY <2>1, <2>2, <2>3, <2>4, <2>5 DEF SessionRecords
<1> QED BY <1>1, <1>2

-----------------------------------------------------------------------------
(* Steps that move no call keep the books of the sessions they leave alone.  *)

LEMMA SameCalls ==
  ASSUME TypeOK, NEW c \in Call, Working(c), NEW r \in CallRecords,
         r.session = call[c].session, call' = [call EXCEPT ![c] = r]
  PROVE  /\ \A s \in Session : CallsOf(s)' = CallsOf(s)
         /\ call' \in [Call -> CallRecords \cup {NoCall}]
<1>1. r # NoCall
  BY DEF CallRecords, NoCall
<1> QED
  BY <1>1 DEF CallsOf, Working, TypeOK

LEMMA SameBooks ==
  ASSUME Books, \A s \in Session : CallsOf(s)' = CallsOf(s), accepted' = accepted,
         close' = close,
         \A s \in Session : session'[s].state = session[s].state
  PROVE  Books'
BY DEF Books, CountInv, StateInv, WaitInv

(* Two sessions share no tab as long as a live one was live before, and has  *)
(* at most tabs it had, but for one session whose new tabs nobody holds.     *)
LEMMA ExclusiveKept ==
  ASSUME TabsAreExclusive, NEW s0 \in Session,
         \A s \in Session \ {s0} : Live(s)' => Live(s) /\ session'[s].tabs \subseteq session[s].tabs,
         Live(s0)' => \A t \in session'[s0].tabs :
                        ~ownedByOther(s0, t) \/ (Live(s0) /\ t \in session[s0].tabs)
  PROVE  TabsAreExclusive'
<1> SUFFICES ASSUME NEW s \in Session, NEW o \in Session, s # o, Live(s)', Live(o)',
                    NEW t, t \in session'[s].tabs, t \in session'[o].tabs
             PROVE  FALSE
  BY DEF TabsAreExclusive
<1>1. \A a, b \in Session : a # b /\ Live(a) /\ Live(b)
        => ~(t \in session[a].tabs /\ t \in session[b].tabs)
  BY DEF TabsAreExclusive
<1>2. CASE s # s0 /\ o # s0
  BY <1>1, <1>2
<1>3. CASE s = s0
  BY <1>1, <1>3 DEF ownedByOther
<1>4. CASE o = s0
  BY <1>1, <1>4 DEF ownedByOther
<1> QED BY <1>2, <1>3, <1>4

(* Steps that leave the records alone and no cleanup further than it was.    *)
LEMMA ReleaseStays ==
  ASSUME ReleaseInv, UNCHANGED <<owner, late>>,
         \A s \in Session :
           /\ close'[s].step = "cleaning" => close[s].step = "cleaning" /\ close'[s].todo = close[s].todo
           /\ close'[s].step = "completed" \/ session'[s].state = "closed"
                => close[s].step = "completed" \/ session[s].state = "closed"
  PROVE  ReleaseInv'
BY DEF ReleaseInv

LEMMA ExclusiveStays ==
  ASSUME TabsAreExclusive,
         \A s \in Session : Live(s)' => Live(s) /\ session'[s].tabs \subseteq session[s].tabs
  PROVE  TabsAreExclusive'
BY DEF TabsAreExclusive

-----------------------------------------------------------------------------
(* A call is accepted. *)

LEMMA AskType ==
  ASSUME TypeOK, NEW c \in Call, NEW request, NEW command \in {"tabs", "openTab", "adoptTab", "command"},
         request.kind \in Kinds, request.session \in Session, request.tab \in Tab \cup {NoTab},
         Ask(c, request, command)
  PROVE  /\ slow' \subseteq Session
         /\ \E r \in CallRecords :
              /\ r.session = request.session /\ r.kind = request.kind /\ r.tab = request.tab
              /\ r.ask = command /\ r.answer # "ok"
              /\ call' = [call EXCEPT ![c] = r]
<1> DEFINE Asked(timeout, answer) ==
      [kind |-> request.kind, session |-> request.session, tab |-> request.tab, seen |-> {},
       ask |-> command, left |-> timeout, answer |-> answer]
<1>1. PICK timeout \in Timeouts \cup {Short}, answer \in {"none", "refused"} :
        /\ call' = [call EXCEPT ![c] = Asked(timeout, answer)]
        /\ slow' = IF timeout + 2 * Short >= Pin THEN slow \cup {request.session} ELSE slow
  BY DEF Ask
<1>2. timeout \in Nat
  BY SessionAssumption DEF SessionAssumption
<1>3. Asked(timeout, answer) \in CallRecords
  BY <1>2 DEF CallRecords
<1>4. LET r == Asked(timeout, answer)
      IN /\ r.session = request.session /\ r.kind = request.kind /\ r.tab = request.tab
         /\ r.ask = command /\ r.answer # "ok"
  OBVIOUS
<1>5. slow' \subseteq Session
  BY <1>1 DEF TypeOK
<1> QED
  BY <1>1, <1>3, <1>4, <1>5

LEMMA AcceptKeeps ==
  ASSUME IInv, NEW c \in Call, NEW s0 \in Session, NEW kind \in Kinds, NEW t0 \in Tab \cup {NoTab},
         Accept(c, s0, kind, t0)
  PROVE  IInv'
<1> USE DEF IInv
<1>1. /\ FirstCommand(s0, kind, t0) \in {"tabs", "openTab", "adoptTab", "command"}
      /\ Ask(c, [kind |-> kind, session |-> s0, tab |-> t0], FirstCommand(s0, kind, t0))
  BY DEF Accept, FirstCommand, Route, Kinds
<1>2. PICK r \in CallRecords :
        /\ r.session = s0 /\ r.kind = kind /\ r.tab = t0
        /\ r.ask = FirstCommand(s0, kind, t0) /\ r.answer # "ok"
        /\ call' = [call EXCEPT ![c] = r]
  BY <1>1, AskType
<1>3. slow' \subseteq Session
  BY <1>1, AskType
<1>4. r # NoCall
  BY DEF CallRecords, NoCall
<1>5. c \notin CallsOf(s0) /\ CallsOf(s0)' = CallsOf(s0) \cup {c}
  BY <1>2, <1>4 DEF CallsOf, Working, Accept, TypeOK
<1>6. \A s \in Session \ {s0} : CallsOf(s)' = CallsOf(s)
  BY <1>2, <1>4 DEF CallsOf, Working, Accept, TypeOK
<1>7. session[s0] \in SessionRecords /\ touched(session[s0]) \in SessionRecords
      /\ touched(session[s0]).state = session[s0].state
      /\ touched(session[s0]).tabs = session[s0].tabs
  BY TouchedRecord DEF TypeOK
<1>8. session' = [session EXCEPT ![s0] = touched(session[s0])]
      /\ accepted' = [accepted EXCEPT ![s0] = @ + 1]
      /\ Live(s0) /\ session[s0].state = "active"
      /\ close' = close /\ UNCHANGED <<owner, coming, late>>
  BY DEF Accept, extension
<1>9. \A s \in Session : /\ session'[s].state = session[s].state
                         /\ session'[s].tabs = session[s].tabs
                         /\ Live(s)' => Live(s)
  BY <1>7, <1>8 DEF Live, TypeOK
<1>10. close[s0] = NoClose
  BY <1>8 DEF StateInv
<1>a. IsFiniteSet(CallsOf(s0)) /\ accepted[s0] = Cardinality(CallsOf(s0))
  BY CallsAreFinite DEF CountInv
<1>b. IsFiniteSet(CallsOf(s0)') /\ Cardinality(CallsOf(s0)') = accepted[s0] + 1
  BY <1>a, <1>5, FS_AddElement
<1>11. CountInv'
  <2>1. accepted'[s0] = Cardinality(CallsOf(s0)')
    BY <1>b, <1>8 DEF TypeOK
  <2>2. \A s \in Session \ {s0} : accepted'[s] = Cardinality(CallsOf(s)')
    BY <1>6, <1>8 DEF CountInv, TypeOK
  <2> QED BY <2>1, <2>2 DEF CountInv
<1>12. StateInv'
  BY <1>6, <1>8, <1>9 DEF StateInv
<1>13. WaitInv'
  BY <1>5, <1>6, <1>8, <1>10 DEF WaitInv, NoClose
<1>14. ReleaseInv'
  BY <1>8, <1>9, ReleaseStays
<1>15. TabsAreExclusive'
  BY <1>9, ExclusiveStays
<1>17. AskInv'
  <2> SUFFICES ASSUME NEW d \in Call, d = c \/ Working(d)
               PROVE  /\ call'[d].kind = "list" => call'[d].ask = "tabs"
                      /\ call'[d].kind = "open" => call'[d].ask = "openTab"
                      /\ call'[d].kind \notin {"list", "open"} => call'[d].tab \in Tab
                      /\ call'[d].ask = "openTab" /\ call'[d].answer = "ok" => call'[d].tab \in Tab
    BY <1>2 DEF AskInv, Working, TypeOK
  <2>1. CASE d = c
    <3>1. call'[c] = r
      BY <1>2 DEF TypeOK
    <3>2. kind \notin {"list", "open"} => t0 \in Tab
      BY DEF Accept
    <3>3. (kind = "list" => r.ask = "tabs") /\ (kind = "open" => r.ask = "openTab")
      BY <1>2 DEF FirstCommand
    <3> QED
      BY <2>1, <3>1, <3>2, <3>3, <1>2
  <2>2. CASE d # c
    BY <2>2, <1>2 DEF AskInv, TypeOK
  <2> QED BY <2>1, <2>2
<1>16. TypeOK'
  <2>1. session' \in [Session -> SessionRecords]
    BY <1>7, <1>8 DEF TypeOK
  <2>2. call' \in [Call -> CallRecords \cup {NoCall}]
    BY <1>2 DEF TypeOK
  <2>3. accepted'[s0] \in 0..Cardinality(Call)
    <3>1. IsFiniteSet(CallsOf(s0)') /\ CallsOf(s0)' \subseteq Call
      BY <1>b, <1>5 DEF CallsOf
    <3>2. IsFiniteSet(Call)
      BY SessionAssumption DEF SessionAssumption
    <3>3. Cardinality(CallsOf(s0)') <= Cardinality(Call)
      BY <3>1, <3>2, FS_Subset
    <3>4. Cardinality(CallsOf(s0)') \in Nat /\ Cardinality(Call) \in Nat
      BY <3>1, <3>2, FS_CardinalityType
    <3> QED
      BY <3>3, <3>4, <1>11 DEF CountInv
  <2>4. accepted' \in [Session -> 0..Cardinality(Call)]
    BY <2>3, <1>8 DEF TypeOK
  <2> QED
    BY <2>1, <2>2, <2>4, <1>3, <1>8 DEF TypeOK
<1> QED
  BY <1>11, <1>12, <1>13, <1>14, <1>15, <1>16, <1>17

-----------------------------------------------------------------------------
(* The extension performs it: only the session of the call can come to own a *)
(* tab, and that one is neither closed nor released.                         *)

LEMMA PerformKeeps ==
  ASSUME IInv, NEW c \in Call, Perform(c)
  PROVE  IInv'
<1> USE DEF IInv
<1>1. Working(c) /\ call[c] \in CallRecords
  BY DEF Perform, Working, TypeOK
<1>2. PICK s0 \in Session : s0 = call[c].session
  BY <1>1 DEF CallRecords
<1>3. PICK t0 \in Tab \cup {NoTab} : t0 = call[c].tab
  BY <1>1 DEF CallRecords
<1>4. PICK tab \in Tab \cup {NoTab}, seen \in SUBSET Tab :
        /\ call' = [call EXCEPT ![c] = [call[c] EXCEPT !.answer = "ok", !.left = 0,
                                                      !.tab = tab, !.seen = seen]]
        /\ tab \in Tab \/ (tab = t0 /\ call[c].ask # "openTab")
  <2>1. {u \in Tab : owner[u] = s0} \in SUBSET Tab /\ {} \in SUBSET Tab
    OBVIOUS
  <2> QED
    BY <1>2, <1>3, <2>1 DEF Perform
<1>5. [call[c] EXCEPT !.answer = "ok", !.left = 0, !.tab = tab, !.seen = seen] \in CallRecords
  BY <1>1 DEF CallRecords
<1>6. [call[c] EXCEPT !.answer = "ok", !.left = 0, !.tab = tab, !.seen = seen].session
        = call[c].session
  BY <1>1 DEF CallRecords
<1>7. /\ \A s \in Session : CallsOf(s)' = CallsOf(s)
      /\ call' \in [Call -> CallRecords \cup {NoCall}]
  BY <1>1, <1>4, <1>5, <1>6, SameCalls
<1>8. UNCHANGED <<session, accepted, close, coming, slow>>
  BY DEF Perform
<1>9. Books'
  BY <1>7, <1>8, SameBooks DEF Books
<1>10. \/ UNCHANGED <<owner, late>>
       \/ \E u \in Tab : Own(u, s0)
       \/ Own(t0, s0)
       \/ Own(t0, NoOwner)
  BY <1>2, <1>3 DEF Perform
<1>11. /\ owner' \in [Tab -> Session \cup {NoOwner}] /\ late' \subseteq Tab
       /\ \A t \in Tab : \/ owner'[t] \in {s0, NoOwner}
                        \/ /\ owner'[t] = owner[t]
                           /\ t \in late => t \in late'
  BY <1>10 DEF TypeOK, Own
<1>12. ReleaseInv'
  <2> SUFFICES ASSUME NEW s \in Session, NEW t \in Tab, owner'[t] = s
               PROVE  /\ close[s].step = "cleaning" => t \in close[s].todo \cup late'
                      /\ close[s].step = "completed" \/ session[s].state = "closed" => t \in late'
    BY <1>8 DEF ReleaseInv
  <2>1. CASE CallsOf(s) = {}
    <3>1. s # s0 /\ s # NoOwner
      BY <2>1, <1>1, <1>2, SessionAssumption DEF CallsOf, SessionAssumption
    <3>2. owner[t] = s /\ (t \in late => t \in late')
      BY <3>1, <1>11
    <3> QED
      BY <3>2 DEF ReleaseInv
  <2>2. CASE CallsOf(s) # {}
    <3>1. close[s].step \notin {"cleaning", "completed"} /\ session[s].state # "closed"
      BY <2>2 DEF StateInv, WaitInv
    <3> QED
      BY <3>1
  <2> QED BY <2>1, <2>2
<1>13. TabsAreExclusive'
  BY <1>8, ExclusiveStays DEF Live
<1>14. TypeOK'
  BY <1>7, <1>8, <1>11 DEF TypeOK
<1>15. AskInv'
  <2>1. tab \in Tab \/ (tab = call[c].tab /\ call[c].ask # "openTab")
    BY <1>3, <1>4
  <2> QED
    BY <2>1, <1>1, <1>4 DEF AskInv, Working, TypeOK, CallRecords, NoCall
<1> QED
  BY <1>9, <1>12, <1>13, <1>14, <1>15 DEF Books

-----------------------------------------------------------------------------
(* The answers. *)

LEMMA LeaveKeepsRelease ==
  ASSUME TypeOK, ReleaseInv, NEW c \in Call, Leave(c), UNCHANGED <<owner, late>>,
         \A s \in Session : session'[s].state = session[s].state
  PROVE  ReleaseInv'
<1>1. ASSUME NEW s \in Session
      PROVE  /\ close'[s].step = "cleaning" => close[s].step = "cleaning" /\ close'[s].todo = close[s].todo
             /\ close'[s].step = "completed" => close[s].step = "completed"
  <2>1. close'[s] = close[s] \/ close'[s] = [close[s] EXCEPT !.step = "ready"]
    BY DEF Leave, TypeOK
  <2>2. close[s] \in CloseRecords \/ close[s] = NoClose
    BY DEF TypeOK
  <2> QED BY <2>1, <2>2 DEF CloseRecords, NoClose
<1> QED
  BY <1>1, ReleaseStays

(* A step of a session that ends a call and leaves its state and the records *)
(* alone only has to be looked at for the tabs.                              *)
LEMMA LeaveKeeps ==
  ASSUME IInv, NEW c \in Call, Working(c), Leave(c), UNCHANGED <<owner, late, slow>>,
         coming' \subseteq Tab \X (Session \cup {NoOwner}),
         session' \in [Session -> SessionRecords],
         \A s \in Session : session'[s].state = session[s].state,
         TabsAreExclusive'
  PROVE  IInv'
<1>1. Books /\ TypeOK /\ ReleaseInv
  BY DEF IInv, Books
<1>2. Books' /\ accepted' \in [Session -> 0..Cardinality(Call)]
             /\ call' \in [Call -> CallRecords \cup {NoCall}]
             /\ close' \in [Session -> CloseRecords \cup {NoClose}]
  BY <1>1, LeaveKeepsBooks
<1>3. ReleaseInv'
  BY <1>1, LeaveKeepsRelease
<1>4. TypeOK'
  BY <1>1, <1>2 DEF TypeOK
<1>5. AskInv'
  BY <1>1 DEF IInv, AskInv, Leave, Working, TypeOK
<1> QED
  BY <1>2, <1>3, <1>4, <1>5 DEF IInv, Books

LEMMA FailKeeps ==
  ASSUME IInv, NEW c \in Call, Fail(c)
  PROVE  IInv'
<1>1. Working(c) /\ Leave(c) /\ UNCHANGED <<session, owner, late, slow>>
  BY DEF Fail
<1>2. TabsAreExclusive'
  BY <1>1, ExclusiveStays DEF IInv, Live
<1>3. /\ call[c] \in CallRecords /\ coming \subseteq Tab \X (Session \cup {NoOwner})
      /\ call[c].ask = "adoptTab" \/ call[c].kind = "release" => call[c].tab \in Tab
  BY <1>1 DEF IInv, TypeOK, AskInv, Working
<1>4. call[c].session \in Session
  BY <1>3 DEF CallRecords
<1>5. GoesOn(c) \subseteq Tab \X (Session \cup {NoOwner})
  BY <1>3, <1>4 DEF GoesOn
<1>6. coming' \subseteq Tab \X (Session \cup {NoOwner})
  BY <1>3, <1>5 DEF Fail, Comes
<1> QED
  BY <1>1, <1>2, <1>6, LeaveKeeps DEF IInv, TypeOK

LEMMA CommandedKeeps ==
  ASSUME IInv, NEW c \in Call, Commanded(c)
  PROVE  IInv'
<1>1. Working(c) /\ Leave(c) /\ UNCHANGED <<owner, coming, late, slow>>
  BY DEF Commanded, extension
<1>2. call[c] \in CallRecords
  BY <1>1 DEF IInv, TypeOK, Working
<1>3. PICK s0 \in Session : s0 = call[c].session
  BY <1>2 DEF CallRecords
<1>4. \/ session' = session
      \/ session' = [session EXCEPT ![s0] = released(s0, call[c].tab)]
  BY <1>3 DEF Commanded
<1>5. /\ touched(session[s0]) \in SessionRecords
      /\ touched(session[s0]).state = session[s0].state
      /\ touched(session[s0]).tabs = session[s0].tabs
  BY TouchedRecord DEF IInv, TypeOK
<1>6. LET r == released(s0, call[c].tab)
      IN /\ r \in SessionRecords /\ r.state = session[s0].state
         /\ r.tabs \subseteq session[s0].tabs
         /\ ~Live(s0) => r = session[s0]
  BY <1>5 DEF SessionRecords, released, IInv, TypeOK
<1>7. /\ session' \in [Session -> SessionRecords]
      /\ \A s \in Session : /\ session'[s].state = session[s].state
                            /\ session'[s].tabs \subseteq session[s].tabs
                            /\ Live(s)' => Live(s)
  BY <1>4, <1>6 DEF IInv, TypeOK, Live
<1>8. TabsAreExclusive'
  BY <1>7, ExclusiveStays DEF IInv
<1> QED
  BY <1>1, <1>7, <1>8, LeaveKeeps DEF IInv, TypeOK

(* Whatever a call learns, the session gets only tabs no other one holds.    *)
LEMMA LearnsKeeps ==
  ASSUME IInv, NEW c \in Call, Working(c), NEW ts, NEW next, Learns(c, ts, next),
         next \in {"end", "throw", "adoptTab", "command"},
         next \in {"adoptTab", "command"} => call[c].kind \notin {"list", "open"},
         \A t \in ts : t \in Tab /\ assignable(call[c].session, t)
  PROVE  IInv'
<1>1. call[c] \in CallRecords
  BY DEF IInv, TypeOK, Working
<1>2. PICK s0 \in Session : s0 = call[c].session
  BY <1>1 DEF CallRecords
<1>3. ts \subseteq {t \in Tab : assignable(s0, t)}
  BY <1>2
<1>4. session[s0] \in SessionRecords
  BY DEF IInv, TypeOK
<1>5. /\ assigned(s0, ts) \in SessionRecords
      /\ assigned(s0, ts).state = session[s0].state
      /\ assigned(s0, ts).tabs = session[s0].tabs \cup ts
      /\ ~Live(s0) => assigned(s0, ts) = session[s0]
  BY <1>3, <1>4, AssignedRecord
<1>6. session' = [session EXCEPT ![s0] = assigned(s0, ts)] /\ UNCHANGED <<owner, coming, late>>
  BY <1>2 DEF Learns, extension
<1>7. /\ session' \in [Session -> SessionRecords]
      /\ \A s \in Session : session'[s].state = session[s].state
  BY <1>5, <1>6 DEF IInv, TypeOK
<1>8. TabsAreExclusive'
  <2>1. \A s \in Session \ {s0} : Live(s)' => Live(s) /\ session'[s].tabs \subseteq session[s].tabs
    BY <1>6 DEF IInv, TypeOK, Live
  <2>2. Live(s0)' => Live(s0)
    BY <1>5, <1>6 DEF IInv, TypeOK, Live
  <2>3. session'[s0].tabs = session[s0].tabs \cup ts
    BY <1>5, <1>6 DEF IInv, TypeOK
  <2>4. \A t \in ts : ~ownedByOther(s0, t)
    BY <1>3 DEF assignable
  <2> QED
    BY <2>1, <2>2, <2>3, <2>4, ExclusiveKept DEF IInv
<1>9. CASE next \in {"end", "throw"}
  <2>1. Leave(c) /\ UNCHANGED <<owner, coming, late, slow>>
    BY <1>6, <1>9 DEF Learns
  <2> QED
    BY <2>1, <1>7, <1>8, LeaveKeeps DEF IInv, TypeOK
<1>10. CASE next \notin {"end", "throw"}
  <2>1. Ask(c, call[c], next) /\ UNCHANGED <<accepted, close>>
    BY <1>10 DEF Learns
  <2>2. /\ call[c].kind \in Kinds /\ call[c].session \in Session
        /\ call[c].tab \in Tab \cup {NoTab}
    BY <1>1 DEF CallRecords
  <2>3. next \in {"tabs", "openTab", "adoptTab", "command"}
    BY <1>10
  <2>a. slow' \subseteq Session
    BY <2>1, <2>2, <2>3, AskType DEF IInv
  <2>4. PICK r \in CallRecords :
          /\ r.session = call[c].session /\ r.kind = call[c].kind /\ r.tab = call[c].tab
          /\ r.ask = next /\ r.answer # "ok"
          /\ call' = [call EXCEPT ![c] = r]
    BY <2>1, <2>2, <2>3, AskType DEF IInv
  <2>5. /\ \A s \in Session : CallsOf(s)' = CallsOf(s)
        /\ call' \in [Call -> CallRecords \cup {NoCall}]
    BY <2>4, SameCalls DEF IInv
  <2>6. Books'
    BY <2>1, <2>5, <1>7, SameBooks DEF IInv, Books
  <2>7. TypeOK'
    BY <2>1, <2>a, <2>5, <1>6, <1>7 DEF IInv, TypeOK
  <2>8. ReleaseInv'
    BY <2>1, <1>6, <1>7, ReleaseStays DEF IInv
  <2>9. AskInv'
    BY <2>4, <1>10 DEF IInv, AskInv, Working, TypeOK
  <2> QED
    BY <2>6, <2>7, <2>8, <2>9, <1>8 DEF IInv, Books
<1> QED BY <1>9, <1>10

LEMMA ListedKeeps ==
  ASSUME IInv, NEW c \in Call, Listed(c)
  PROVE  IInv'
<1>1. Working(c) /\ call[c] \in CallRecords
  BY DEF IInv, TypeOK, Working, Listed
<1>2. call[c].seen \subseteq Tab
  BY <1>1 DEF CallRecords
<1>3. PICK ts \in SUBSET {t \in call[c].seen : assignable(call[c].session, t)},
           next \in {"end", "throw", "command", "adoptTab"} :
        /\ Learns(c, ts, next)
        /\ next \in {"command", "adoptTab"} => call[c].kind # "list"
  BY DEF Listed, Route
<1>4. call[c].kind # "open"
  BY <1>1 DEF Listed, IInv, AskInv
<1> QED
  BY <1>1, <1>2, <1>3, <1>4, LearnsKeeps

LEMMA OpenedKeeps ==
  ASSUME IInv, NEW c \in Call, Opened(c)
  PROVE  IInv'
<1>1. Working(c)
  BY DEF Opened
<1>2. PICK ts \in {{}, {call[c].tab}} :
        /\ Learns(c, ts, "end")
        /\ ts # {} => assignable(call[c].session, call[c].tab)
  BY DEF Opened
<1>3. call[c].tab \in Tab
  BY <1>1, <1>2 DEF Opened, Learns, IInv, AskInv
<1> QED
  BY <1>1, <1>2, <1>3, LearnsKeeps

LEMMA AdoptedKeeps ==
  ASSUME IInv, NEW c \in Call, Adopted(c)
  PROVE  IInv'
<1>1. Working(c)
  BY DEF Adopted
<1>2. PICK ts \in {{}, {call[c].tab}}, next \in {"end", "throw", "command"} :
        /\ Learns(c, ts, next)
        /\ ts # {} => assignable(call[c].session, call[c].tab)
  BY DEF Adopted
<1>3. call[c].kind \notin {"list", "open"} /\ call[c].tab \in Tab
  BY <1>1 DEF Adopted, IInv, AskInv
<1> QED
  BY <1>1, <1>2, <1>3, LearnsKeeps

-----------------------------------------------------------------------------
(* Starting and closing a session. *)

LEMMA StartKeeps ==
  ASSUME IInv, NEW s0 \in Session, Start(s0)
  PROVE  IInv'
<1> USE DEF IInv
<1>1. PICK mode \in Modes :
        session' = [session EXCEPT ![s0] =
          [state |-> "active", mode |-> mode, left |-> Ttl, tabs |-> {}]]
  BY DEF Start
<1>2. UNCHANGED <<accepted, call, close, owner, coming, late, slow>> /\ session[s0].state = "unborn"
  BY DEF Start, extension
<1>3. Ttl \in 0..Longest(Ttl, Pin)
  BY SessionAssumption DEF SessionAssumption, Longest
<1>4. TypeOK'
  BY <1>1, <1>2, <1>3 DEF TypeOK, SessionRecords
<1>5. \A s \in Session : CallsOf(s)' = CallsOf(s)
  BY <1>2 DEF CallsOf, Working
<1>6. CountInv' /\ WaitInv' /\ AskInv'
  BY <1>2, <1>5 DEF CountInv, WaitInv, AskInv, Working
<1>7. session'[s0].state = "active" /\ session'[s0].tabs = {}
  BY <1>1 DEF TypeOK
<1>8. \A s \in Session \ {s0} : session'[s] = session[s]
  BY <1>1 DEF TypeOK
<1>9. StateInv'
  BY <1>2, <1>5, <1>7, <1>8 DEF StateInv
<1>10. ReleaseInv'
  BY <1>2, <1>7, <1>8, ReleaseStays
<1>11. TabsAreExclusive'
  BY <1>7, <1>8, ExclusiveKept DEF Live
<1> QED
  BY <1>4, <1>6, <1>9, <1>10, <1>11

(* Steps of a close that move its books forward and touch no call.           *)
LEMMA BeginCloseKeeps ==
  ASSUME IInv, NEW s0 \in Session, BeginClose(s0)
  PROVE  IInv'
<1> USE DEF IInv
<1>1. /\ session' = [session EXCEPT ![s0] = pinned(session[s0], "closing")]
      /\ UNCHANGED <<accepted, call, owner, coming, late, slow>>
      /\ Live(s0) /\ session[s0].state \in {"active", "cleanup_partial"}
  BY DEF BeginClose, extension
<1>2. PICK step \in {"ready", "waiting"} :
        /\ close' = [close EXCEPT ![s0] = [step |-> step, left |-> 0, todo |-> {}]]
        /\ step = "ready" <=> accepted[s0] = 0
  BY DEF BeginClose
<1>3. /\ pinned(session[s0], "closing") \in SessionRecords
      /\ pinned(session[s0], "closing").state = "closing"
      /\ pinned(session[s0], "closing").tabs = session[s0].tabs
  BY PinnedRecord DEF TypeOK
<1>4. TypeOK'
  BY <1>1, <1>2, <1>3 DEF TypeOK, CloseRecords
<1>5. \A s \in Session : CallsOf(s)' = CallsOf(s)
  BY <1>1 DEF CallsOf, Working
<1>6. CountInv' /\ AskInv'
  BY <1>1, <1>5 DEF CountInv, AskInv, Working
<1>7. /\ session'[s0].state = "closing" /\ session'[s0].tabs = session[s0].tabs
      /\ close'[s0].step = step
  BY <1>1, <1>2, <1>3 DEF TypeOK
<1>8. \A s \in Session \ {s0} : session'[s] = session[s] /\ close'[s] = close[s]
  BY <1>1, <1>2 DEF TypeOK
<1>9. StateInv'
  BY <1>5, <1>7, <1>8 DEF StateInv
<1>10. accepted[s0] = 0 <=> CallsOf(s0) = {}
  BY CallsAreFinite, FS_EmptySet DEF CountInv
<1>11. WaitInv'
  BY <1>2, <1>5, <1>7, <1>8, <1>10 DEF WaitInv
<1>12. ReleaseInv'
  BY <1>1, <1>2, <1>7, <1>8, ReleaseStays
<1>13. TabsAreExclusive'
  BY <1>1, <1>7, <1>8, ExclusiveStays DEF Live
<1> QED
  BY <1>4, <1>6, <1>9, <1>11, <1>12, <1>13

LEMMA SendCleanupKeeps ==
  ASSUME IInv, NEW s0 \in Session, SendCleanup(s0)
  PROVE  IInv'
<1> USE DEF IInv
<1>1. UNCHANGED <<session, accepted, call, owner, coming, late, slow>> /\ close[s0].step = "ready"
  BY DEF SendCleanup, extension
<1>2. PICK step \in {"refused", "asked"}, left \in {0, Short} :
        close' = [close EXCEPT ![s0] = [step |-> step, left |-> left, todo |-> {}]]
  BY DEF SendCleanup
<1>3. left \in Nat
  BY SessionAssumption DEF SessionAssumption
<1>4. TypeOK'
  BY <1>1, <1>2, <1>3 DEF TypeOK, CloseRecords
<1>5. \A s \in Session : CallsOf(s)' = CallsOf(s)
  BY <1>1 DEF CallsOf, Working
<1>6. CountInv' /\ AskInv'
  BY <1>1, <1>5 DEF CountInv, AskInv, Working
<1>7. close'[s0].step = step /\ \A s \in Session \ {s0} : close'[s] = close[s]
  BY <1>2 DEF TypeOK
<1>8. StateInv'
  BY <1>1, <1>5, <1>7 DEF StateInv, NoClose
<1>9. WaitInv'
  BY <1>1, <1>5, <1>7 DEF WaitInv
<1>10. ReleaseInv'
  BY <1>1, <1>2, <1>7, ReleaseStays
<1>11. TabsAreExclusive'
  BY <1>1, ExclusiveStays DEF Live
<1> QED
  BY <1>4, <1>6, <1>8, <1>9, <1>10, <1>11

LEMMA SurveyWorkspaceKeeps ==
  ASSUME IInv, NEW s0 \in Session, SurveyWorkspace(s0)
  PROVE  IInv'
<1> USE DEF IInv
<1>1. UNCHANGED <<session, accepted, call, owner, coming, slow>> /\ close[s0].step = "asked"
  BY DEF SurveyWorkspace
<1>2. PICK found \in SUBSET Tab :
        /\ found = {t \in Tab : owner[t] = s0}
        /\ close' = [close EXCEPT ![s0].step = "cleaning", ![s0].todo = found]
        /\ late' = late \ found
  BY DEF SurveyWorkspace
<1>3. close[s0] \in CloseRecords
  BY <1>1 DEF TypeOK, NoClose
<1>4. close'[s0] \in CloseRecords /\ close'[s0].step = "cleaning" /\ close'[s0].todo = found
  <2>1. close'[s0] = [close[s0] EXCEPT !.step = "cleaning", !.todo = found]
    BY <1>2 DEF TypeOK
  <2> QED
    BY <2>1, <1>3 DEF CloseRecords
<1>5. \A s \in Session \ {s0} : close'[s] = close[s]
  BY <1>2 DEF TypeOK
<1>6. TypeOK'
  <2>1. close' \in [Session -> CloseRecords \cup {NoClose}]
    BY <1>2, <1>4 DEF TypeOK
  <2> QED
    BY <2>1, <1>1, <1>2 DEF TypeOK
<1>7. \A s \in Session : CallsOf(s)' = CallsOf(s)
  BY <1>1 DEF CallsOf, Working
<1>8. CountInv' /\ AskInv'
  BY <1>1, <1>7 DEF CountInv, AskInv, Working
<1>9. StateInv'
  BY <1>1, <1>5, <1>7 DEF StateInv, NoClose
<1>10. WaitInv'
  BY <1>1, <1>4, <1>5, <1>7 DEF WaitInv
<1>11. ReleaseInv'
  <2> SUFFICES ASSUME NEW s \in Session, NEW t \in Tab, owner[t] = s
               PROVE  /\ close'[s].step = "cleaning" => t \in close'[s].todo \cup late'
                      /\ close'[s].step = "completed" \/ session[s].state = "closed" => t \in late'
    BY <1>1 DEF ReleaseInv
  <2>1. CASE s = s0
    <3>1. session[s0].state # "closed"
      BY <1>1 DEF StateInv, NoClose
    <3> QED
      BY <2>1, <3>1, <1>2, <1>4
  <2>2. CASE s # s0
    BY <2>2, <1>2, <1>5 DEF ReleaseInv
  <2> QED BY <2>1, <2>2
<1>12. TabsAreExclusive'
  BY <1>1, ExclusiveStays DEF Live
<1> QED
  BY <1>6, <1>8, <1>9, <1>10, <1>11, <1>12

LEMMA PerformCleanupKeeps ==
  ASSUME IInv, NEW s0 \in Session, PerformCleanup(s0)
  PROVE  IInv'
<1> USE DEF IInv
<1>1. UNCHANGED <<session, accepted, call, coming, slow>> /\ close[s0].step = "cleaning"
  BY DEF PerformCleanup
<1>2. PICK freed \in SUBSET close[s0].todo, step \in {"completed", "partial"} :
        /\ owner' = [t \in Tab |-> IF t \in freed THEN NoOwner ELSE owner[t]]
        /\ late' = late \ freed
        /\ close' = [close EXCEPT ![s0].todo = {}, ![s0].step = step]
        /\ step = "completed" => freed = close[s0].todo
  BY DEF PerformCleanup
<1>3. close[s0] \in CloseRecords
  BY <1>1 DEF TypeOK, NoClose
<1>4. /\ close'[s0] \in CloseRecords /\ close'[s0].step = step
  <2>1. close'[s0] = [close[s0] EXCEPT !.todo = {}, !.step = step]
    BY <1>2 DEF TypeOK
  <2> QED
    BY <2>1, <1>3 DEF CloseRecords
<1>5. \A s \in Session \ {s0} : close'[s] = close[s]
  BY <1>2 DEF TypeOK
<1>6. \A s \in Session, t \in Tab : owner'[t] = s => owner[t] = s /\ t \notin freed
  BY <1>2, SessionAssumption DEF SessionAssumption
<1>7. TypeOK'
  <2>1. close' \in [Session -> CloseRecords \cup {NoClose}]
    BY <1>2, <1>4 DEF TypeOK
  <2> QED
    BY <2>1, <1>1, <1>2 DEF TypeOK
<1>8. \A s \in Session : CallsOf(s)' = CallsOf(s)
  BY <1>1 DEF CallsOf, Working
<1>9. CountInv' /\ AskInv'
  BY <1>1, <1>8 DEF CountInv, AskInv, Working
<1>10. StateInv'
  BY <1>1, <1>5, <1>8 DEF StateInv, NoClose
<1>11. WaitInv'
  BY <1>1, <1>4, <1>5, <1>8 DEF WaitInv
<1>12. ReleaseInv'
  <2> SUFFICES ASSUME NEW s \in Session, NEW t \in Tab, owner'[t] = s
               PROVE  /\ close'[s].step = "cleaning" => t \in close'[s].todo \cup late'
                      /\ close'[s].step = "completed" \/ session[s].state = "closed" => t \in late'
    BY <1>1 DEF ReleaseInv
  <2>1. owner[t] = s /\ (t \in late => t \in late')
    BY <1>2, <1>6
  <2>2. CASE s = s0
    <3>1. session[s0].state # "closed"
      BY <1>1 DEF StateInv, NoClose
    <3>2. t \in close[s0].todo \cup late
      BY <2>1, <2>2, <1>1 DEF ReleaseInv
    <3>3. step = "completed" => t \in late
      BY <2>2, <3>2, <1>2, <1>6
    <3> QED
      BY <2>1, <2>2, <3>1, <3>3, <1>4
  <2>3. CASE s # s0
    BY <2>1, <2>3, <1>5 DEF ReleaseInv
  <2> QED BY <2>2, <2>3
<1>13. TabsAreExclusive'
  BY <1>1, ExclusiveStays DEF Live
<1> QED
  BY <1>7, <1>9, <1>10, <1>11, <1>12, <1>13

LEMMA EndCloseKeeps ==
  ASSUME IInv, NEW s0 \in Session, NEW done \in BOOLEAN, EndClose(s0, done)
  PROVE  IInv'
<1> USE DEF IInv
<1>1. /\ UNCHANGED <<accepted, call, owner, late>> /\ slow' = slow \ {s0}
      /\ close' = [close EXCEPT ![s0] = NoClose]
      /\ close[s0].step \in {"asked", "cleaning", "completed", "partial", "refused"}
      /\ done => close[s0].step = "completed"
  BY DEF EndClose, Ending
<1>2. \/ session' = session
      \/ done /\ session' = [session EXCEPT ![s0] = [Gone EXCEPT !.state = "closed"]]
      \/ Live(s0) /\ session' = [session EXCEPT ![s0] = pinned(session[s0], "cleanup_partial")]
  BY DEF EndClose
<1>3. /\ pinned(session[s0], "cleanup_partial") \in SessionRecords
      /\ pinned(session[s0], "cleanup_partial").state = "cleanup_partial"
      /\ pinned(session[s0], "cleanup_partial").tabs = session[s0].tabs
  BY PinnedRecord DEF TypeOK
<1>4. LET r == [Gone EXCEPT !.state = "closed"]
      IN r \in SessionRecords /\ r.tabs = {} /\ r.state = "closed"
  BY SessionAssumption DEF Gone, SessionRecords, Modes, Longest, SessionAssumption
<1>5. TypeOK'
  <2>1. coming' \subseteq Tab \X (Session \cup {NoOwner})
    <3>1. close[s0] \in CloseRecords /\ coming \subseteq Tab \X (Session \cup {NoOwner})
      BY <1>1 DEF TypeOK, NoClose
    <3>2. close[s0].todo \subseteq Tab
      BY <3>1 DEF CloseRecords
    <3>3. CleansOn(s0) \subseteq Tab \X (Session \cup {NoOwner})
      BY <3>2 DEF CleansOn
    <3> QED
      BY <3>1, <3>3 DEF EndClose, Comes
  <2> QED
    BY <2>1, <1>1, <1>2, <1>3, <1>4 DEF TypeOK
<1>6. \A s \in Session : CallsOf(s)' = CallsOf(s)
  BY <1>1 DEF CallsOf, Working
<1>7. CountInv' /\ AskInv'
  BY <1>1, <1>6 DEF CountInv, AskInv, Working
<1>8. close'[s0] = NoClose /\ close'[s0].step = "none"
      /\ \A s \in Session \ {s0} : close'[s] = close[s] /\ session'[s] = session[s]
  BY <1>1, <1>2 DEF TypeOK, NoClose
<1>9. CallsOf(s0) = {}
  BY <1>1 DEF WaitInv
<1>10. StateInv'
  BY <1>6, <1>8, <1>9 DEF StateInv
<1>11. WaitInv'
  BY <1>6, <1>8 DEF WaitInv
<1>12. ReleaseInv'
  <2>1. session'[s0].state = "closed" => close[s0].step = "completed" \/ session[s0].state = "closed"
    BY <1>1, <1>2, <1>3 DEF TypeOK
  <2> QED
    BY <2>1, <1>1, <1>8, ReleaseStays
<1>13. session'[s0].tabs \subseteq session[s0].tabs /\ (Live(s0)' => Live(s0))
  BY <1>2, <1>3, <1>4 DEF Live, TypeOK
<1>14. TabsAreExclusive'
  BY <1>8, <1>13, ExclusiveStays DEF Live
<1> QED
  BY <1>5, <1>7, <1>10, <1>11, <1>12, <1>14

-----------------------------------------------------------------------------
(* What nobody waits for. *)

LEMMA LateStepKeeps ==
  ASSUME IInv, NEW t0 \in Tab, LateStep(t0)
  PROVE  IInv'
<1> USE DEF IInv
<1>1. UNCHANGED <<session, accepted, call, close, slow>>
  BY DEF LateStep, ChildOpens, LateWrite
<1>2. coming \subseteq Tab \X (Session \cup {NoOwner}) /\ owner \in [Tab -> Session \cup {NoOwner}]
  BY DEF TypeOK
<1>3. coming' \subseteq Tab \X (Session \cup {NoOwner})
  <2>1. CASE ChildOpens(t0)
    <3>1. PICK u \in Tab : coming' = coming \cup {<<t0, owner[u]>>}
      BY <2>1 DEF ChildOpens, Comes
    <3>2. owner[u] \in Session \cup {NoOwner}
      BY <1>2
    <3> QED
      BY <1>2, <3>1, <3>2
  <2>2. CASE \E o \in Session \cup {NoOwner} : LateWrite(t0, o)
    BY <1>2, <2>2 DEF LateWrite
  <2> QED
    BY <2>1, <2>2 DEF LateStep
<1>4. \/ UNCHANGED <<owner, late>>
      \/ \E o \in Session \cup {NoOwner} :
           /\ owner' = [owner EXCEPT ![t0] = o]
           /\ late' = IF o = NoOwner THEN late \ {t0} ELSE late \cup {t0}
  BY DEF LateStep, ChildOpens, LateWrite
<1>5. TypeOK'
  BY <1>1, <1>3, <1>4 DEF TypeOK
<1>6. \A s \in Session : CallsOf(s)' = CallsOf(s)
  BY <1>1 DEF CallsOf, Working
<1>7. CountInv' /\ StateInv' /\ WaitInv' /\ AskInv'
  BY <1>1, <1>6 DEF CountInv, StateInv, WaitInv, AskInv, Working
<1>8. \A s \in Session, t \in Tab :
        owner'[t] = s => t \in late' \/ (owner[t] = s /\ (t \in late => t \in late'))
  BY <1>2, <1>4, SessionAssumption DEF SessionAssumption
<1>9. ReleaseInv'
  BY <1>1, <1>8 DEF ReleaseInv
<1>10. TabsAreExclusive'
  BY <1>1, ExclusiveStays DEF Live
<1> QED
  BY <1>5, <1>7, <1>9, <1>10

-----------------------------------------------------------------------------
(* Time. *)

LEMMA TickKeeps ==
  ASSUME IInv, Tick
  PROVE  IInv'
<1> USE DEF IInv
<1>1. /\ session' = [s \in Session |->
           IF Forgotten(s) THEN Gone ELSE [session[s] EXCEPT !.left = Less(@)]]
      /\ call' = [c \in Call |-> IF Working(c) THEN [call[c] EXCEPT !.left = Less(@)] ELSE NoCall]
      /\ close' = [s \in Session |->
           IF close[s].step \in {"asked", "cleaning"}
             THEN [close[s] EXCEPT !.left = Less(@)] ELSE close[s]]
      /\ UNCHANGED <<accepted, owner, coming, late, slow>>
  BY DEF Tick, extension
<1>2. ASSUME NEW s \in Session
      PROVE  /\ session'[s] \in SessionRecords
             /\ session'[s].tabs \subseteq session[s].tabs
             /\ Live(s)' => Live(s)
             /\ \/ session'[s].state = session[s].state
                \/ close[s] = NoClose /\ session'[s].state = "expired"
  <2>1. CASE Forgotten(s)
    <3>1. session'[s] = Gone
      BY <2>1, <1>1
    <3>2. Gone \in SessionRecords /\ Gone.tabs = {} /\ Gone.state = "expired"
      BY SessionAssumption DEF Gone, SessionRecords, Modes, Longest, SessionAssumption
    <3>3. close[s] = NoClose
      BY <2>1 DEF Forgotten
    <3> QED
      BY <3>1, <3>2, <3>3 DEF Live
  <2>2. CASE ~Forgotten(s)
    <3>1. session[s] \in SessionRecords
      BY DEF TypeOK
    <3>2. session'[s] = [session[s] EXCEPT !.left = Less(session[s].left)]
      BY <2>2, <1>1
    <3>3. Longest(Ttl, Pin) \in Nat /\ session[s].left \in 0..Longest(Ttl, Pin)
      BY <3>1, SessionAssumption DEF SessionRecords, Longest, SessionAssumption
    <3>4. Less(session[s].left) \in 0..Longest(Ttl, Pin) /\ Less(session[s].left) <= session[s].left
      BY <3>3 DEF Less
    <3> QED
      BY <3>1, <3>2, <3>3, <3>4 DEF SessionRecords, Live
  <2> QED BY <2>1, <2>2
<1>3. ASSUME NEW c \in Call
      PROVE  /\ call'[c] \in CallRecords \cup {NoCall}
             /\ call'[c] = NoCall <=> call[c] = NoCall
             /\ Working(c) => /\ call'[c].session = call[c].session
                              /\ call'[c].kind = call[c].kind /\ call'[c].tab = call[c].tab
                              /\ call'[c].ask = call[c].ask /\ call'[c].answer = call[c].answer
  <2>1. CASE ~Working(c)
    BY <2>1, <1>1 DEF Working
  <2>2. CASE Working(c)
    <3>1. call[c] \in CallRecords
      BY <2>2 DEF TypeOK, Working
    <3>2. call'[c] = [call[c] EXCEPT !.left = Less(call[c].left)] /\ Less(call[c].left) \in Nat
      BY <2>2, <3>1, <1>1 DEF Less, CallRecords
    <3>3. call'[c] \in CallRecords
      BY <3>1, <3>2 DEF CallRecords
    <3>4. \A r \in CallRecords : r # NoCall
      BY DEF CallRecords, NoCall
    <3> QED
      BY <3>1, <3>2, <3>3, <3>4, <2>2 DEF CallRecords, Working
  <2> QED BY <2>1, <2>2
<1>4. ASSUME NEW s \in Session
      PROVE  /\ close'[s] \in CloseRecords \cup {NoClose}
             /\ close'[s].step = close[s].step
             /\ close[s] # NoClose => close'[s].todo = close[s].todo
             /\ close'[s] # NoClose => close[s] # NoClose
  <2>1. CASE close[s].step \in {"asked", "cleaning"}
    <3>1. close[s] \in CloseRecords
      BY <2>1 DEF TypeOK, NoClose
    <3>2. close'[s] = [close[s] EXCEPT !.left = Less(close[s].left)] /\ Less(close[s].left) \in Nat
      BY <2>1, <3>1, <1>1 DEF Less, CloseRecords
    <3> QED
      BY <2>1, <3>1, <3>2 DEF CloseRecords, NoClose
  <2>2. CASE close[s].step \notin {"asked", "cleaning"}
    BY <2>2, <1>1 DEF TypeOK
  <2> QED BY <2>1, <2>2
<1>5. TypeOK'
  BY <1>1, <1>2, <1>3, <1>4 DEF TypeOK
<1>6. \A s \in Session : CallsOf(s)' = CallsOf(s)
  BY <1>3 DEF CallsOf, Working
<1>7. CountInv'
  BY <1>1, <1>6 DEF CountInv
<1>8. AskInv'
  BY <1>3 DEF AskInv, Working
<1>9. StateInv'
  BY <1>2, <1>4, <1>6 DEF StateInv
<1>10. WaitInv'
  BY <1>4, <1>6 DEF WaitInv
<1>11. ReleaseInv'
  <2>1. \A s \in Session : close[s].step = "cleaning" => close'[s].todo = close[s].todo
    BY <1>4 DEF NoClose
  <2> QED
    BY <2>1, <1>1, <1>2, <1>4, ReleaseStays
<1>12. TabsAreExclusive'
  BY <1>2, ExclusiveStays
<1> QED
  BY <1>5, <1>7, <1>8, <1>9, <1>10, <1>11, <1>12

-----------------------------------------------------------------------------
(* The pin.  What a call of a session may still take, with the cleanup after *)
(* it: the command that follows a lookup is not known yet, and a session     *)
(* that is not in slow asks for none that the pin does not cover.            *)

Following(ask) == IF ask \in {"tabs", "adoptTab"} THEN Pin - 2 * Short - 1 ELSE 0

Needs(c) == call[c].left + Following(call[c].ask) + Short

(* A lookup is followed by one command: send asks for the list of tabs only  *)
(* in a managed session, which then adopts none.                             *)
ModeInv ==
  \A s \in Session : \A c \in CallsOf(s) :
    /\ session[s].state # "unborn"
    /\ call[c].ask = "tabs" /\ call[c].kind # "list" => session[s].mode = "managed"

CallsFit(s, time) == \A c \in CallsOf(s) : Needs(c) < time

CloseFits(s) ==
  /\ close[s].step = "waiting" => CallsFit(s, session[s].left)
  /\ close[s].step = "ready" => Short < session[s].left
  /\ close[s].step \in {"asked", "cleaning"} => close[s].left < session[s].left
  /\ close[s].step \in {"completed", "partial", "refused"} => 0 < session[s].left

PinInv == ModeInv /\ \A s \in Session \ slow : CallsFit(s, Pin) /\ CloseFits(s)

(* The times are natural numbers. *)
LEMMA TimesAreNatural ==
  ASSUME TypeOK
  PROVE  /\ Pin \in Nat /\ Short \in Nat /\ Ttl \in Nat /\ 3 * Short < Pin /\ 0 < Short
         /\ \A s \in Session : session[s].left \in Nat
         /\ \A s \in Session : \A c \in CallsOf(s) : call[c].left \in Nat /\ Needs(c) \in Int
         /\ \A s \in Session : close[s].step \in {"asked", "cleaning"} => close[s].left \in Nat
<1>1. Pin \in Nat /\ Short \in Nat /\ Ttl \in Nat /\ 3 * Short < Pin /\ 0 < Short
  BY SessionAssumption DEF SessionAssumption
<1>2. \A s \in Session : session[s].left \in Nat
  BY <1>1 DEF TypeOK, SessionRecords, Longest
<1>3. ASSUME NEW s \in Session, NEW c \in CallsOf(s)
      PROVE  call[c].left \in Nat /\ Needs(c) \in Int
  <2>1. call[c] \in CallRecords
    BY <1>3 DEF TypeOK, CallsOf, Working
  <2>2. call[c].left \in Nat
    BY <2>1 DEF CallRecords
  <2>3. Following(call[c].ask) \in Int
    BY <1>1 DEF Following
  <2> QED
    BY <2>2, <2>3, <1>1 DEF Needs
<1>4. \A s \in Session : close[s].step \in {"asked", "cleaning"} => close[s].left \in Nat
  BY DEF TypeOK, CloseRecords, NoClose
<1> QED
  BY <1>1, <1>2, <1>3, <1>4

(* A session goes on fitting when its calls need no more than before, and a  *)
(* close at work finds the time it had.                                      *)
LEMMA FitStays ==
  ASSUME TypeOK, NEW s \in Session, CallsFit(s, Pin), CloseFits(s),
         \A c \in CallsOf(s)' : c \in CallsOf(s) /\ Needs(c)' \in Int /\ Needs(c)' <= Needs(c),
         close'[s] = close[s],
         close[s].step # "none" => session'[s].left = session[s].left
  PROVE  CallsFit(s, Pin)' /\ CloseFits(s)'
<1>1. Pin \in Nat /\ session[s].left \in Nat /\ \A c \in CallsOf(s) : Needs(c) \in Int
  BY TimesAreNatural
<1>2. CallsFit(s, Pin)'
  BY <1>1 DEF CallsFit
<1>3. ASSUME close[s].step = "waiting"
      PROVE  CallsFit(s, session[s].left)'
  <2>1. CallsFit(s, session[s].left) /\ session'[s].left = session[s].left
    BY <1>3 DEF CloseFits
  <2> QED
    BY <1>1, <2>1 DEF CallsFit
<1> QED
  BY <1>2, <1>3 DEF CloseFits

LEMMA FitUntouched ==
  ASSUME TypeOK, NEW s \in Session, CallsFit(s, Pin), CloseFits(s),
         CallsOf(s)' = CallsOf(s), \A c \in CallsOf(s) : call'[c] = call[c],
         close'[s] = close[s],
         close[s].step # "none" => session'[s].left = session[s].left
  PROVE  CallsFit(s, Pin)' /\ CloseFits(s)'
<1>1. \A c \in CallsOf(s) : Needs(c)' = Needs(c)
  BY DEF Needs
<1>2. \A c \in CallsOf(s) : Needs(c) \in Int
  BY TimesAreNatural
<1>3. \A c \in CallsOf(s)' : c \in CallsOf(s) /\ Needs(c)' \in Int /\ Needs(c)' <= Needs(c)
  BY <1>1, <1>2
<1> QED
  BY <1>3, FitStays

(* What a call asks for fits, unless it makes its session a slow one.        *)
LEMMA AskFits ==
  ASSUME TypeOK, NEW c \in Call, NEW request,
         NEW command \in {"tabs", "openTab", "adoptTab", "command"},
         request.kind \in Kinds, request.session \in Session, request.tab \in Tab \cup {NoTab},
         Ask(c, request, command)
  PROVE  /\ slow \subseteq slow'
         /\ \E r \in CallRecords :
              /\ call' = [call EXCEPT ![c] = r]
              /\ r.session = request.session /\ r.kind = request.kind /\ r.ask = command
              /\ r.left \in Nat /\ (command # "command" => r.left = Short)
              /\ request.session \notin slow' => r.left + 2 * Short < Pin
<1> DEFINE Asked(timeout, answer) ==
      [kind |-> request.kind, session |-> request.session, tab |-> request.tab, seen |-> {},
       ask |-> command, left |-> timeout, answer |-> answer]
<1>1. PICK timeout \in Timeouts \cup {Short}, answer \in {"none", "refused"} :
        /\ call' = [call EXCEPT ![c] = Asked(timeout, answer)]
        /\ slow' = IF timeout + 2 * Short >= Pin THEN slow \cup {request.session} ELSE slow
        /\ command # "command" => timeout = Short
  BY DEF Ask
<1>2. timeout \in Nat /\ Pin \in Nat /\ Short \in Nat
  BY SessionAssumption DEF SessionAssumption
<1>3. Asked(timeout, answer) \in CallRecords
  BY <1>2 DEF CallRecords
<1>4. slow \subseteq slow'
  BY <1>1
<1>5. request.session \notin slow' => timeout + 2 * Short < Pin
  BY <1>1, <1>2
<1>6. LET r == Asked(timeout, answer)
      IN /\ r.session = request.session /\ r.kind = request.kind /\ r.ask = command
         /\ r.left = timeout
  OBVIOUS
<1> QED
  BY <1>1, <1>2, <1>3, <1>4, <1>5, <1>6

-----------------------------------------------------------------------------
(* The steps of a call. *)

LEMMA LeaveFits ==
  ASSUME TypeOK, NEW c \in Call, Working(c), Leave(c), slow' = slow, NEW s \in Session,
         CallsFit(s, Pin), CloseFits(s),
         close[s].step # "none" => session'[s].left = session[s].left
  PROVE  CallsFit(s, Pin)' /\ CloseFits(s)'
<1>0. call[c] \in CallRecords
  BY DEF TypeOK, Working
<1>a. PICK s0 \in Session : s0 = call[c].session
  BY <1>0 DEF CallRecords
<1>1. c \in CallsOf(s0) /\ CallsOf(s0)' = CallsOf(s0) \ {c}
  BY <1>a DEF CallsOf, Leave, Working, TypeOK, NoCall
<1>2. \A o \in Session \ {s0} : CallsOf(o)' = CallsOf(o)
  BY <1>a DEF CallsOf, Leave, Working, TypeOK, NoCall
<1>3. \A d \in Call \ {c} : call'[d] = call[d]
  BY DEF Leave, TypeOK
<1>4. \A d \in CallsOf(s)' : d \in CallsOf(s) /\ Needs(d)' = Needs(d)
  BY <1>1, <1>2, <1>3 DEF CallsOf, Needs
<1>5. \A d \in CallsOf(s) : Needs(d) \in Int
  BY TimesAreNatural
<1>6. \A d \in CallsOf(s)' : d \in CallsOf(s) /\ Needs(d)' \in Int /\ Needs(d)' <= Needs(d)
  BY <1>4, <1>5
<1>7. CASE close'[s] = close[s]
  BY <1>6, <1>7, FitStays
<1>8. CASE close'[s] # close[s]
  <2>1. /\ s = s0 /\ close[s].step = "waiting"
        /\ close'[s] = [close[s] EXCEPT !.step = "ready"]
    BY <1>8, <1>a DEF Leave, TypeOK
  <2>2. close[s] \in CloseRecords
    BY <2>1 DEF TypeOK, NoClose
  <2>3. close'[s].step = "ready"
    BY <2>1, <2>2 DEF CloseRecords
  <2>4. Needs(c) < session[s].left /\ session'[s].left = session[s].left
    BY <1>1, <2>1 DEF CloseFits, CallsFit
  <2>5. /\ Pin \in Nat /\ Short \in Nat /\ 3 * Short < Pin /\ 0 < Short
        /\ session[s].left \in Nat
    BY TimesAreNatural
  <2>6. call[c].left \in Nat
    BY <1>0 DEF CallRecords
  <2>7. Following(call[c].ask) \in Nat
    BY <2>5 DEF Following
  <2>8. Short < session'[s].left
    BY <2>4, <2>5, <2>6, <2>7 DEF Needs
  <2>9. CallsFit(s, Pin)'
    BY <1>4, <2>5 DEF CallsFit
  <2> QED
    BY <2>3, <2>8, <2>9 DEF CloseFits
<1> QED BY <1>7, <1>8

LEMMA AcceptFits ==
  ASSUME IInv, PinInv, NEW c \in Call, NEW s0 \in Session, NEW kind \in Kinds,
         NEW t0 \in Tab \cup {NoTab}, Accept(c, s0, kind, t0)
  PROVE  PinInv'
<1>1. TypeOK /\ ModeInv
  BY DEF IInv, PinInv
<1>2. /\ FirstCommand(s0, kind, t0) \in {"tabs", "openTab", "adoptTab", "command"}
      /\ Ask(c, [kind |-> kind, session |-> s0, tab |-> t0], FirstCommand(s0, kind, t0))
      /\ FirstCommand(s0, kind, t0) = "tabs" /\ kind # "list" => session[s0].mode = "managed"
  BY DEF Accept, FirstCommand, Route, Kinds
<1>3. PICK command \in {"tabs", "openTab", "adoptTab", "command"} :
        command = FirstCommand(s0, kind, t0)
  BY <1>2
<1>4. slow \subseteq slow'
  BY <1>1, <1>2, AskFits
<1>5. PICK r \in CallRecords :
        /\ call' = [call EXCEPT ![c] = r]
        /\ r.session = s0 /\ r.kind = kind /\ r.ask = command
        /\ r.left \in Nat /\ (command # "command" => r.left = Short)
        /\ s0 \notin slow' => r.left + 2 * Short < Pin
  BY <1>1, <1>2, <1>3, AskFits
<1>6. r # NoCall
  BY DEF CallRecords, NoCall
<1>7. CallsOf(s0)' = CallsOf(s0) \cup {c} /\ c \notin CallsOf(s0)
  BY <1>1, <1>5, <1>6 DEF CallsOf, Working, Accept, TypeOK
<1>8. \A s \in Session \ {s0} : CallsOf(s)' = CallsOf(s) /\ c \notin CallsOf(s)
  BY <1>1, <1>5, <1>6 DEF CallsOf, Working, Accept, TypeOK
<1>9. \A d \in Call \ {c} : call'[d] = call[d]
  BY <1>1, <1>5 DEF TypeOK
<1>10. call'[c] = r
  BY <1>1, <1>5 DEF TypeOK
<1>11. /\ session' = [session EXCEPT ![s0] = touched(session[s0])]
       /\ session[s0].state = "active" /\ close' = close
  BY DEF Accept
<1>12. session[s0] \in SessionRecords
  BY <1>1 DEF TypeOK
<1>13. touched(session[s0]).mode = session[s0].mode /\ touched(session[s0]).state = "active"
  BY <1>11, <1>12 DEF touched, SessionRecords
<1>14. \A s \in Session : session'[s].state = session[s].state /\ session'[s].mode = session[s].mode
  BY <1>1, <1>11, <1>13 DEF TypeOK
<1>15. ModeInv'
  <2>1. ASSUME NEW s \in Session, NEW d \in CallsOf(s)', d # c
        PROVE  /\ session'[s].state # "unborn"
               /\ call'[d].ask = "tabs" /\ call'[d].kind # "list" => session'[s].mode = "managed"
    BY <2>1, <1>1, <1>7, <1>8, <1>9, <1>14 DEF ModeInv, CallsOf
  <2>2. ASSUME NEW s \in Session, c \in CallsOf(s)'
        PROVE  /\ session'[s].state # "unborn"
               /\ call'[c].ask = "tabs" /\ call'[c].kind # "list" => session'[s].mode = "managed"
    <3>1. s = s0
      BY <2>2, <1>8
    <3> QED
      BY <3>1, <1>2, <1>3, <1>5, <1>10, <1>11, <1>14
  <2> QED
    BY <2>1, <2>2 DEF ModeInv
<1>16. ASSUME NEW s \in Session, s \notin slow'
       PROVE  CallsFit(s, Pin)' /\ CloseFits(s)'
  <2>1. CallsFit(s, Pin) /\ CloseFits(s)
    BY <1>4, <1>16 DEF PinInv
  <2>2. CASE s # s0
    <3>1. /\ CallsOf(s)' = CallsOf(s) /\ \A d \in CallsOf(s) : call'[d] = call[d]
          /\ close'[s] = close[s] /\ session'[s] = session[s]
      BY <2>2, <1>1, <1>8, <1>9, <1>11 DEF CallsOf, TypeOK
    <3> QED
      BY <2>1, <3>1, <1>1, FitUntouched
  <2>3. CASE s = s0
    <3>1. close'[s] = NoClose
      BY <2>3, <1>11 DEF IInv, StateInv
    <3>2. \A d \in CallsOf(s) : Needs(d)' = Needs(d)
      BY <2>3, <1>7, <1>9 DEF CallsOf, Needs
    <3>3. Pin \in Nat /\ Short \in Nat /\ 3 * Short < Pin
      BY <1>1, TimesAreNatural
    <3>4. r.left + Following(r.ask) + Short < Pin
      BY <3>3, <2>3, <1>5, <1>16 DEF Following
    <3>5. Needs(c)' < Pin
      BY <3>4, <1>10 DEF Needs, Following
    <3>6. CallsFit(s, Pin)'
      BY <2>1, <2>3, <3>2, <3>5, <1>7 DEF CallsFit
    <3> QED
      BY <3>1, <3>6 DEF CloseFits, NoClose
  <2> QED BY <2>2, <2>3
<1> QED
  BY <1>15, <1>16 DEF PinInv

LEMMA PerformFits ==
  ASSUME IInv, PinInv, NEW c \in Call, Perform(c)
  PROVE  PinInv'
<1>1. TypeOK /\ ModeInv
  BY DEF IInv, PinInv
<1>2. Working(c) /\ call[c] \in CallRecords
  BY <1>1 DEF Perform, Working, TypeOK
<1>3. PICK s0 \in Session : s0 = call[c].session
  BY <1>2 DEF CallRecords
<1>4. PICK tab \in Tab \cup {NoTab}, seen \in SUBSET Tab :
        call' = [call EXCEPT ![c] = [call[c] EXCEPT !.answer = "ok", !.left = 0,
                                                    !.tab = tab, !.seen = seen]]
  <2>1. {u \in Tab : owner[u] = s0} \in SUBSET Tab /\ {} \in SUBSET Tab
    OBVIOUS
  <2>2. call[c].tab \in Tab \cup {NoTab}
    BY <1>2 DEF CallRecords
  <2> QED
    BY <1>3, <2>1, <2>2 DEF Perform
<1>5. PICK r \in CallRecords :
        /\ call' = [call EXCEPT ![c] = r]
        /\ r.session = s0 /\ r.kind = call[c].kind /\ r.ask = call[c].ask /\ r.left = 0
  <2>1. LET r == [call[c] EXCEPT !.answer = "ok", !.left = 0, !.tab = tab, !.seen = seen]
        IN /\ r \in CallRecords
           /\ r.session = s0 /\ r.kind = call[c].kind /\ r.ask = call[c].ask /\ r.left = 0
    BY <1>2, <1>3 DEF CallRecords
  <2> QED
    BY <1>4, <2>1
<1>6. \A s \in Session : CallsOf(s)' = CallsOf(s)
  BY <1>1, <1>2, <1>3, <1>5, SameCalls
<1>7. call'[c] = r /\ \A d \in Call \ {c} : call'[d] = call[d]
  BY <1>1, <1>5 DEF TypeOK
<1>8. UNCHANGED <<session, close, slow>>
  BY DEF Perform
<1>9. ModeInv'
  <2>1. \A d \in Call : Working(d) => call'[d].ask = call[d].ask /\ call'[d].kind = call[d].kind
    BY <1>5, <1>7
  <2> QED
    BY <2>1, <1>1, <1>6, <1>8 DEF ModeInv, CallsOf
<1>10. ASSUME NEW s \in Session, s \notin slow
       PROVE  CallsFit(s, Pin)' /\ CloseFits(s)'
  <2>1. CallsFit(s, Pin) /\ CloseFits(s)
    BY <1>10 DEF PinInv
  <2>2. \A d \in CallsOf(s) : Needs(d) \in Int /\ call[d].left \in Nat
    BY <1>1, TimesAreNatural
  <2>3. Short \in Nat /\ Pin \in Nat
    BY <1>1, TimesAreNatural
  <2>4. ASSUME NEW d \in CallsOf(s)'
        PROVE  d \in CallsOf(s) /\ Needs(d)' \in Int /\ Needs(d)' <= Needs(d)
    <3>1. d \in CallsOf(s)
      BY <1>6
    <3>2. Following(call[d].ask) \in Int
      BY <2>3 DEF Following
    <3>3. call'[d].left \in Nat /\ call'[d].left <= call[d].left /\ call'[d].ask = call[d].ask
      BY <3>1, <2>2, <1>5, <1>7 DEF CallsOf
    <3>4. Following(call[d].ask)' = Following(call[d].ask)
      BY <3>3 DEF Following
    <3> QED
      BY <3>1, <3>2, <3>3, <3>4, <2>2, <2>3 DEF Needs
  <2> QED
    BY <2>1, <2>4, <1>1, <1>8, FitStays
<1> QED
  BY <1>8, <1>9, <1>10 DEF PinInv

(* The end of a call. *)
LEMMA EndFits ==
  ASSUME IInv, PinInv, NEW c \in Call, Working(c), Leave(c), slow' = slow,
         \A s \in Session : /\ session'[s].state = session[s].state
                            /\ session'[s].mode = session[s].mode
                            /\ close[s].step # "none" => session'[s].left = session[s].left
  PROVE  PinInv'
<1>1. TypeOK /\ ModeInv
  BY DEF IInv, PinInv
<1>2. \A s \in Session \ slow : CallsFit(s, Pin)' /\ CloseFits(s)'
  BY <1>1, LeaveFits DEF PinInv
<1>3. \A d \in Call \ {c} : call'[d] = call[d]
  BY DEF Leave, TypeOK
<1>4. call'[c] = NoCall
  BY <1>1 DEF Leave, TypeOK
<1>5. ModeInv'
  BY <1>1, <1>3, <1>4 DEF ModeInv, CallsOf, Working
<1> QED
  BY <1>2, <1>5 DEF PinInv

(* Whatever a closing session does, its time is left alone. *)
LEMMA ClosingTime ==
  ASSUME IInv, NEW s \in Session, NEW ts, NEW t
  PROVE  LET a == assigned(s, ts)
             r == released(s, t)
         IN /\ a.state = session[s].state /\ a.mode = session[s].mode
            /\ r.state = session[s].state /\ r.mode = session[s].mode
            /\ close[s].step # "none" => a.left = session[s].left /\ r.left = session[s].left
<1>1. session[s] \in SessionRecords
  BY DEF IInv, TypeOK
<1>2. close[s].step # "none" => session[s].state = "closing"
  BY DEF IInv, StateInv, NoClose
<1>3. PICK u \in {touched(session[s])} : TRUE
  OBVIOUS
<1>4. /\ u \in SessionRecords
      /\ u.state = session[s].state /\ u.mode = session[s].mode
      /\ session[s].state = "closing" => u = session[s]
  <2>1. Ttl \in 0..Longest(Ttl, Pin)
    BY SessionAssumption DEF SessionAssumption, Longest
  <2>2. CASE session[s].state = "active"
    BY <1>1, <1>3, <2>1, <2>2 DEF touched, SessionRecords
  <2>3. CASE session[s].state # "active"
    BY <1>1, <1>3, <2>3 DEF touched
  <2> QED BY <2>2, <2>3
<1>5. LET a == assigned(s, ts)
      IN /\ a.state = session[s].state /\ a.mode = session[s].mode
         /\ session[s].state = "closing" => a.left = session[s].left
  BY <1>1, <1>3, <1>4 DEF assigned, SessionRecords
<1>6. LET r == released(s, t)
      IN /\ r.state = session[s].state /\ r.mode = session[s].mode
         /\ session[s].state = "closing" => r.left = session[s].left
  BY <1>1, <1>3, <1>4 DEF released, SessionRecords
<1> QED
  BY <1>2, <1>5, <1>6

LEMMA FailFits ==
  ASSUME IInv, PinInv, NEW c \in Call, Fail(c)
  PROVE  PinInv'
BY EndFits DEF Fail

LEMMA CommandedFits ==
  ASSUME IInv, PinInv, NEW c \in Call, Commanded(c)
  PROVE  PinInv'
<1>1. Working(c) /\ Leave(c) /\ slow' = slow
  BY DEF Commanded
<1>2. PICK s0 \in Session : s0 = call[c].session
  BY <1>1 DEF IInv, TypeOK, Working, CallRecords
<1>3. PICK r \in {released(s0, call[c].tab)} :
        session' = session \/ session' = [session EXCEPT ![s0] = r]
  BY <1>2 DEF Commanded
<1>4. /\ r.state = session[s0].state /\ r.mode = session[s0].mode
      /\ close[s0].step # "none" => r.left = session[s0].left
  BY <1>3, ClosingTime
<1>5. \A s \in Session : /\ session'[s].state = session[s].state
                         /\ session'[s].mode = session[s].mode
                         /\ close[s].step # "none" => session'[s].left = session[s].left
  BY <1>3, <1>4 DEF IInv, TypeOK
<1> QED
  BY <1>1, <1>5, EndFits

(* After a lookup comes at most the one command it was done for. *)
LEMMA LearnsFits ==
  ASSUME IInv, PinInv, NEW c \in Call, Working(c), NEW ts, NEW next \in {"end", "throw", "command"},
         Learns(c, ts, next), next = "command" => call[c].ask \in {"tabs", "adoptTab"}
  PROVE  PinInv'
<1>1. TypeOK /\ ModeInv
  BY DEF IInv, PinInv
<1>2. call[c] \in CallRecords
  BY <1>1 DEF TypeOK, Working
<1>3. PICK s0 \in Session : s0 = call[c].session
  BY <1>2 DEF CallRecords
<1>4. PICK a \in {assigned(s0, ts)} : session' = [session EXCEPT ![s0] = a]
  BY <1>3 DEF Learns
<1>5. /\ a.state = session[s0].state /\ a.mode = session[s0].mode
      /\ close[s0].step # "none" => a.left = session[s0].left
  BY <1>4, ClosingTime
<1>6. \A s \in Session : /\ session'[s].state = session[s].state
                         /\ session'[s].mode = session[s].mode
                         /\ close[s].step # "none" => session'[s].left = session[s].left
  BY <1>1, <1>4, <1>5 DEF TypeOK
<1>7. CASE next \in {"end", "throw"}
  <2>1. Leave(c) /\ slow' = slow
    BY <1>7 DEF Learns
  <2> QED
    BY <2>1, <1>6, EndFits
<1>8. CASE next = "command"
  <2>1. Ask(c, call[c], "command") /\ close' = close
    BY <1>8 DEF Learns
  <2>2. /\ call[c].kind \in Kinds /\ call[c].session \in Session
        /\ call[c].tab \in Tab \cup {NoTab}
    BY <1>2 DEF CallRecords
  <2>3. slow \subseteq slow'
    BY <1>1, <2>1, <2>2, AskFits
  <2>4. PICK r \in CallRecords :
          /\ call' = [call EXCEPT ![c] = r]
          /\ r.session = call[c].session /\ r.kind = call[c].kind /\ r.ask = "command"
          /\ r.left \in Nat
          /\ call[c].session \notin slow' => r.left + 2 * Short < Pin
    BY <1>1, <2>1, <2>2, AskFits
  <2>5. \A s \in Session : CallsOf(s)' = CallsOf(s)
    BY <1>1, <2>4, SameCalls
  <2>6. call'[c] = r /\ \A d \in Call \ {c} : call'[d] = call[d]
    BY <1>1, <2>4 DEF TypeOK
  <2>7. ModeInv'
    <3>1. ASSUME NEW s \in Session, NEW d \in CallsOf(s)
          PROVE  /\ session'[s].state # "unborn"
                 /\ call'[d].ask = "tabs" /\ call'[d].kind # "list" => session'[s].mode = "managed"
      <4>1. call'[d].ask = "tabs" => call'[d] = call[d]
        BY <2>4, <2>6 DEF CallsOf
      <4> QED
        BY <4>1, <1>1, <1>6 DEF ModeInv
    <3> QED
      BY <3>1, <2>5 DEF ModeInv
  <2>8. ASSUME NEW s \in Session, s \notin slow'
        PROVE  CallsFit(s, Pin)' /\ CloseFits(s)'
    <3>1. CallsFit(s, Pin) /\ CloseFits(s)
      BY <2>3, <2>8 DEF PinInv
    <3>2. Pin \in Nat /\ Short \in Nat /\ 3 * Short < Pin
      BY <1>1, TimesAreNatural
    <3>3. ASSUME NEW d \in CallsOf(s)'
          PROVE  d \in CallsOf(s) /\ Needs(d)' \in Int /\ Needs(d)' <= Needs(d)
      <4>1. d \in CallsOf(s)
        BY <2>5
      <4>2. Needs(d) \in Int
        BY <1>1, <4>1, TimesAreNatural
      <4>3. CASE d # c
        <5>1. call'[d] = call[d]
          BY <2>6, <4>1, <4>3 DEF CallsOf
        <5>2. Needs(d)' = Needs(d)
          BY <5>1 DEF Needs
        <5> QED
          BY <4>1, <4>2, <5>2
      <4>4. CASE d = c
        <5>1. s = call[c].session
          BY <4>1, <4>4 DEF CallsOf
        <5>2. call[c].left \in Nat
          BY <1>2 DEF CallRecords
        <5>3. Needs(c) = call[c].left + (Pin - 2 * Short - 1) + Short
          BY <1>8 DEF Needs, Following
        <5>4. Needs(c)' = r.left + 0 + Short
          BY <2>4, <2>6 DEF Needs, Following
        <5>5. r.left + 2 * Short < Pin
          BY <5>1, <2>4, <2>8
        <5>6. Needs(c)' \in Int /\ Needs(c)' <= Needs(c)
          BY <5>2, <5>3, <5>4, <5>5, <3>2, <2>4
        <5> QED
          BY <4>1, <4>4, <5>6
      <4> QED BY <4>3, <4>4
    <3>4. close'[s] = close[s] /\ (close[s].step # "none" => session'[s].left = session[s].left)
      BY <2>1, <1>6
    <3> QED
      BY <1>1, <3>1, <3>3, <3>4, FitStays
  <2> QED
    BY <2>7, <2>8 DEF PinInv
<1> QED BY <1>7, <1>8

LEMMA AnswerFits ==
  ASSUME IInv, PinInv, NEW c \in Call, AnswerStep(c)
  PROVE  PinInv'
<1>1. ASSUME Listed(c)
      PROVE  PinInv'
  <2>1. Working(c) /\ call[c].ask = "tabs"
    BY <1>1 DEF Listed
  <2>2. PICK s0 \in Session : s0 = call[c].session
    BY <2>1 DEF IInv, TypeOK, Working, CallRecords
  <2>3. call[c].kind # "list" => session[s0].mode = "managed"
    BY <2>1, <2>2 DEF PinInv, ModeInv, CallsOf
  <2>4. \A t, tabs : call[c].kind # "list" => Route(s0, t, tabs) \in {"throw", "command"}
    BY <2>3 DEF Route
  <2>5. \E ts : \E next \in {"end", "throw", "command"} : Learns(c, ts, next)
    BY <1>1, <2>2, <2>4 DEF Listed
  <2> QED
    BY <2>1, <2>5, LearnsFits
<1>2. ASSUME Opened(c)
      PROVE  PinInv'
  <2>1. Working(c) /\ \E ts : Learns(c, ts, "end")
    BY <1>2 DEF Opened
  <2> QED
    BY <2>1, LearnsFits
<1>3. ASSUME Adopted(c)
      PROVE  PinInv'
  <2>1. Working(c) /\ call[c].ask = "adoptTab"
        /\ \E ts : \E next \in {"end", "throw", "command"} : Learns(c, ts, next)
    BY <1>3 DEF Adopted
  <2> QED
    BY <2>1, LearnsFits
<1> QED
  BY <1>1, <1>2, <1>3, FailFits, CommandedFits DEF AnswerStep

-----------------------------------------------------------------------------
(* The steps of a session and of its close. *)

LEMMA StartFits ==
  ASSUME IInv, PinInv, NEW s0 \in Session, Start(s0)
  PROVE  PinInv'
<1>1. TypeOK /\ ModeInv
  BY DEF IInv, PinInv
<1>2. PICK r \in SessionRecords : session' = [session EXCEPT ![s0] = r]
  <2>1. Ttl \in 0..Longest(Ttl, Pin)
    BY SessionAssumption DEF SessionAssumption, Longest
  <2>2. \A mode \in Modes :
          [state |-> "active", mode |-> mode, left |-> Ttl, tabs |-> {}] \in SessionRecords
    BY <2>1 DEF SessionRecords
  <2> QED
    BY <2>2 DEF Start
<1>3. UNCHANGED <<call, close, slow>> /\ session[s0].state = "unborn"
  BY DEF Start
<1>4. \A s \in Session : CallsOf(s)' = CallsOf(s)
  BY <1>3 DEF CallsOf, Working
<1>5. CallsOf(s0) = {} /\ close[s0] = NoClose
  BY <1>3 DEF IInv, PinInv, ModeInv, StateInv
<1>6. \A s \in Session \ {s0} : session'[s] = session[s]
  BY <1>1, <1>2 DEF TypeOK
<1>7. ModeInv'
  BY <1>1, <1>3, <1>4, <1>5, <1>6 DEF ModeInv
<1>8. ASSUME NEW s \in Session, s \notin slow'
      PROVE  CallsFit(s, Pin)' /\ CloseFits(s)'
  <2>1. CallsFit(s, Pin) /\ CloseFits(s)
    BY <1>3, <1>8 DEF PinInv
  <2>2. close[s].step # "none" => session'[s].left = session[s].left
    BY <1>5, <1>6 DEF NoClose
  <2>3. \A c \in CallsOf(s) : call'[c] = call[c]
    BY <1>3
  <2>4. CallsOf(s)' = CallsOf(s) /\ close'[s] = close[s]
    BY <1>3, <1>4
  <2> QED
    BY <1>1, <2>1, <2>2, <2>3, <2>4, FitUntouched
<1> QED
  BY <1>7, <1>8 DEF PinInv

(* A step of one close has to fit for its own session only. *)
LEMMA OwnCloseFits ==
  ASSUME IInv, PinInv, NEW s0 \in Session, call' = call, slow \ {s0} \subseteq slow',
         \A s \in Session \ {s0} : session'[s] = session[s] /\ close'[s] = close[s],
         CallsOf(s0) = {} \/ (/\ session'[s0].state # "unborn"
                              /\ session'[s0].mode = session[s0].mode),
         s0 \notin slow' => CallsFit(s0, Pin)' /\ CloseFits(s0)'
  PROVE  PinInv'
<1>1. TypeOK /\ ModeInv
  BY DEF IInv, PinInv
<1>2. \A s \in Session : CallsOf(s)' = CallsOf(s)
  BY DEF CallsOf, Working
<1>3. ModeInv'
  BY <1>1, <1>2 DEF ModeInv
<1>4. ASSUME NEW s \in Session, s \notin slow', s # s0
      PROVE  CallsFit(s, Pin)' /\ CloseFits(s)'
  <2>1. CallsFit(s, Pin) /\ CloseFits(s)
    BY <1>4 DEF PinInv
  <2>2. CallsOf(s)' = CallsOf(s) /\ \A c \in CallsOf(s) : call'[c] = call[c]
    BY <1>2
  <2>3. close'[s] = close[s] /\ session'[s] = session[s]
    BY <1>4
  <2> QED
    BY <1>1, <2>1, <2>2, <2>3, FitUntouched
<1> QED
  BY <1>3, <1>4 DEF PinInv

LEMMA PinnedTime ==
  ASSUME NEW r \in SessionRecords, NEW state \in {"closing", "cleanup_partial"}
  PROVE  /\ pinned(r, state).left >= Pin
         /\ pinned(r, state).mode = r.mode /\ pinned(r, state).state = state
<1>1. r.left \in Nat /\ Pin \in Nat
  BY SessionAssumption DEF SessionAssumption, SessionRecords, Longest
<1>2. Longest(r.left, Pin) \in Nat /\ Longest(r.left, Pin) >= Pin
  BY <1>1 DEF Longest
<1> QED
  BY <1>2 DEF pinned, SessionRecords

(* The pin is there before the close waits or sends anything. *)
LEMMA BeginCloseFits ==
  ASSUME IInv, PinInv, NEW s0 \in Session, BeginClose(s0)
  PROVE  PinInv'
<1>1. TypeOK
  BY DEF IInv
<1>2. PICK r \in {pinned(session[s0], "closing")} : session' = [session EXCEPT ![s0] = r]
  BY DEF BeginClose
<1>3. r.left >= Pin /\ r.mode = session[s0].mode /\ r.state = "closing"
  BY <1>1, <1>2, PinnedTime DEF TypeOK
<1>4. PICK step \in {"ready", "waiting"} : close' = [close EXCEPT ![s0] = [step |-> step, left |-> 0, todo |-> {}]]
  BY DEF BeginClose
<1>5. call' = call /\ slow' = slow
  BY DEF BeginClose
<1>6. session'[s0] = r /\ close'[s0].step = step
  BY <1>1, <1>2, <1>4 DEF TypeOK
<1>7. \A s \in Session \ {s0} : session'[s] = session[s] /\ close'[s] = close[s]
  BY <1>1, <1>2, <1>4 DEF TypeOK
<1>8. session'[s0].left \in Nat
  <2>1. r \in SessionRecords
    BY <1>1, <1>2, PinnedRecord DEF TypeOK
  <2> QED
    BY <2>1, <1>6, SessionAssumption DEF SessionAssumption, SessionRecords, Longest
<1>9. ASSUME s0 \notin slow'
      PROVE  CallsFit(s0, Pin)' /\ CloseFits(s0)'
  <2>1. CallsFit(s0, Pin)
    BY <1>5, <1>9 DEF PinInv
  <2>2. /\ Pin \in Nat /\ Short \in Nat /\ 3 * Short < Pin
        /\ \A c \in CallsOf(s0) : Needs(c) \in Int
    BY <1>1, TimesAreNatural
  <2>3. CallsOf(s0)' = CallsOf(s0) /\ \A c \in CallsOf(s0) : Needs(c)' = Needs(c)
    BY <1>5 DEF CallsOf, Working, Needs
  <2>4. CallsFit(s0, Pin)'
    BY <2>1, <2>3 DEF CallsFit
  <2>5. Pin <= session'[s0].left
    BY <1>3, <1>6, <1>8, <2>2
  <2>6. CallsFit(s0, session[s0].left)'
    BY <2>1, <2>2, <2>3, <2>5, <1>8 DEF CallsFit
  <2>7. Short < session'[s0].left
    BY <2>2, <2>5, <1>8
  <2> QED
    BY <2>4, <2>6, <2>7, <1>6 DEF CloseFits
<1> QED
  BY <1>3, <1>5, <1>6, <1>7, <1>9, OwnCloseFits

LEMMA CloseStepFits ==
  ASSUME IInv, PinInv, NEW s0 \in Session, CloseStep(s0)
  PROVE  PinInv'
<1>1. TypeOK
  BY DEF IInv
<1>2. close[s0].step \in {"ready"} \cup Ending
  BY DEF CloseStep, SendCleanup, SurveyWorkspace, PerformCleanup, EndClose, Ending
<1>3. CallsOf(s0) = {} /\ close[s0] \in CloseRecords
  BY <1>1, <1>2 DEF IInv, WaitInv, TypeOK, NoClose, Ending
<1>4. call' = call
  BY DEF CloseStep, SendCleanup, SurveyWorkspace, PerformCleanup, EndClose
<1>5. CallsFit(s0, Pin)'
  BY <1>3, <1>4 DEF CallsFit, CallsOf, Working
<1>6. Short \in Nat /\ session[s0].left \in Nat
  BY <1>1, TimesAreNatural
<1>7. ASSUME SendCleanup(s0)
      PROVE  PinInv'
  <2>1. /\ session' = session /\ slow' = slow /\ close[s0].step = "ready"
        /\ close' = [close EXCEPT ![s0] = IF session[s0].left = 0 THEN [step |-> "refused", left |-> 0, todo |-> {}]
                                          ELSE [step |-> "asked", left |-> Short, todo |-> {}]]
    BY <1>7 DEF SendCleanup
  <2>2. ASSUME s0 \notin slow'
        PROVE  CloseFits(s0)'
    <3>1. Short < session[s0].left
      BY <2>1, <2>2 DEF PinInv, CloseFits
    <3>2. close'[s0] = [step |-> "asked", left |-> Short, todo |-> {}]
      BY <3>1, <2>1, <1>1, <1>6 DEF TypeOK
    <3> QED
      BY <3>1, <3>2, <2>1 DEF CloseFits
  <2>3. \A s \in Session \ {s0} : session'[s] = session[s] /\ close'[s] = close[s]
    BY <2>1, <1>1 DEF TypeOK
  <2>4. slow \ {s0} \subseteq slow'
    BY <2>1
  <2> QED
    BY <1>3, <1>4, <1>5, <2>2, <2>3, <2>4, OwnCloseFits
<1>8. ASSUME SurveyWorkspace(s0) \/ PerformCleanup(s0)
      PROVE  PinInv'
  <2>1. PICK step \in {"cleaning", "partial", "completed"}, todo \in SUBSET Tab :
          /\ session' = session /\ slow' = slow /\ close[s0].step \in {"asked", "cleaning"}
          /\ close' = [close EXCEPT ![s0].step = step, ![s0].todo = todo]
    <3>1. CASE SurveyWorkspace(s0)
      <4>1. close' = [close EXCEPT ![s0].step = "cleaning", ![s0].todo = {t \in Tab : owner[t] = s0}]
        BY <3>1 DEF SurveyWorkspace
      <4>2. {t \in Tab : owner[t] = s0} \in SUBSET Tab
        OBVIOUS
      <4> QED
        BY <3>1, <4>1, <4>2 DEF SurveyWorkspace
    <3>2. CASE PerformCleanup(s0)
      <4>1. PICK step \in {"completed", "partial"} : close' = [close EXCEPT ![s0].todo = {}, ![s0].step = step]
        BY <3>2 DEF PerformCleanup
      <4>2. close' = [close EXCEPT ![s0].step = step, ![s0].todo = {}]
        BY <4>1, <1>1 DEF TypeOK
      <4> QED
        BY <3>2, <4>2 DEF PerformCleanup
    <3> QED BY <1>8, <3>1, <3>2
  <2>2. close[s0].left \in Nat
    BY <2>1, <1>1, TimesAreNatural
  <2>3. close'[s0].step = step /\ close'[s0].left = close[s0].left
    <3>1. close'[s0] = [close[s0] EXCEPT !.step = step, !.todo = todo]
      BY <2>1, <1>1 DEF TypeOK
    <3> QED
      BY <3>1, <1>3 DEF CloseRecords
  <2>4. ASSUME s0 \notin slow'
        PROVE  CloseFits(s0)'
    <3>1. close[s0].left < session[s0].left
      BY <2>1, <2>4 DEF PinInv, CloseFits
    <3>2. 0 < session'[s0].left /\ close'[s0].left < session'[s0].left
      BY <3>1, <2>1, <2>2, <2>3, <1>6
    <3> QED
      BY <3>2, <2>3 DEF CloseFits
  <2>5. \A s \in Session \ {s0} : session'[s] = session[s] /\ close'[s] = close[s]
    BY <2>1, <1>1 DEF TypeOK
  <2>6. slow \ {s0} \subseteq slow'
    BY <2>1
  <2> QED
    BY <1>3, <1>4, <1>5, <2>4, <2>5, <2>6, OwnCloseFits
<1>9. ASSUME NEW done \in BOOLEAN, EndClose(s0, done)
      PROVE  PinInv'
  <2>1. /\ close' = [close EXCEPT ![s0] = NoClose] /\ slow' = slow \ {s0}
        /\ \E r : session' = session \/ session' = [session EXCEPT ![s0] = r]
    BY <1>9 DEF EndClose
  <2>2. close'[s0].step = "none"
    BY <2>1, <1>1 DEF TypeOK, NoClose
  <2>3. CloseFits(s0)'
    BY <2>2 DEF CloseFits
  <2>4. \A s \in Session \ {s0} : session'[s] = session[s] /\ close'[s] = close[s]
    BY <2>1, <1>1 DEF TypeOK
  <2>5. slow \ {s0} \subseteq slow'
    BY <2>1
  <2> QED
    BY <1>3, <1>4, <1>5, <2>3, <2>4, <2>5, OwnCloseFits
<1> QED
  BY <1>7, <1>8, <1>9 DEF CloseStep

-----------------------------------------------------------------------------
(* Time: what has to be done and what is left of the session go down alike.  *)

LEMMA TickFits ==
  ASSUME IInv, PinInv, Tick
  PROVE  PinInv'
<1>1. TypeOK /\ ModeInv
  BY DEF IInv, PinInv
<1>2. /\ session' = [s \in Session |->
           IF Forgotten(s) THEN Gone ELSE [session[s] EXCEPT !.left = Less(@)]]
      /\ call' = [c \in Call |-> IF Working(c) THEN [call[c] EXCEPT !.left = Less(@)] ELSE NoCall]
      /\ close' = [s \in Session |->
           IF close[s].step \in {"asked", "cleaning"}
             THEN [close[s] EXCEPT !.left = Less(@)] ELSE close[s]]
      /\ slow' = slow /\ ~Due
  BY DEF Tick
<1>3. ASSUME NEW c \in Call, Working(c)
      PROVE  /\ Working(c)' /\ call'[c].session = call[c].session
             /\ call'[c].ask = call[c].ask /\ call'[c].kind = call[c].kind
             /\ call[c].left \in Nat /\ call'[c].left = call[c].left - 1
  <2>1. call[c] \in CallRecords
    BY <1>1, <1>3 DEF TypeOK, Working
  <2>2. call'[c] = [call[c] EXCEPT !.left = Less(call[c].left)]
    BY <1>2, <1>3
  <2>3. call[c].left \in Nat /\ call[c].left # 0
    BY <1>2, <1>3, <2>1 DEF Due, CallRecords
  <2>4. Less(call[c].left) = call[c].left - 1 /\ Less(call[c].left) \in Nat
    BY <2>3 DEF Less
  <2>5. call'[c] \in CallRecords
    BY <2>1, <2>2, <2>4 DEF CallRecords
  <2>6. \A r \in CallRecords : r # NoCall
    BY DEF CallRecords, NoCall
  <2>7. /\ call'[c].session = call[c].session /\ call'[c].ask = call[c].ask
        /\ call'[c].kind = call[c].kind /\ call'[c].left = Less(call[c].left)
    BY <2>1, <2>2 DEF CallRecords
  <2> QED
    BY <2>3, <2>4, <2>5, <2>6, <2>7 DEF Working
<1>4. \A s \in Session : CallsOf(s)' = CallsOf(s)
  <2>1. \A c \in Call : ~Working(c) => ~Working(c)'
    BY <1>2 DEF Working
  <2> QED
    BY <2>1, <1>3 DEF CallsOf
<1>5. ASSUME NEW s \in Session, ~Forgotten(s)
      PROVE  /\ session'[s].state = session[s].state /\ session'[s].mode = session[s].mode
             /\ session'[s].left = Less(session[s].left)
  <2>1. session[s] \in SessionRecords
    BY <1>1 DEF TypeOK
  <2>2. session'[s] = [session[s] EXCEPT !.left = Less(session[s].left)]
    BY <1>2, <1>5
  <2> QED
    BY <2>1, <2>2 DEF SessionRecords
<1>6. ASSUME NEW s \in Session, Forgotten(s)
      PROVE  CallsOf(s) = {} /\ close[s] = NoClose
  <2>1. Cardinality(CallsOf(s)) = 0 /\ IsFiniteSet(CallsOf(s))
    BY <1>6, CallsAreFinite DEF Forgotten, IInv, CountInv
  <2> QED
    BY <2>1, <1>6, FS_EmptySet DEF Forgotten
<1>7. ModeInv'
  <2>1. ASSUME NEW s \in Session, NEW c \in CallsOf(s)
        PROVE  /\ session'[s].state # "unborn"
               /\ call'[c].ask = "tabs" /\ call'[c].kind # "list" => session'[s].mode = "managed"
    <3>1. ~Forgotten(s)
      BY <1>6
    <3>2. call'[c].ask = call[c].ask /\ call'[c].kind = call[c].kind
      BY <1>3 DEF CallsOf
    <3> QED
      BY <3>1, <3>2, <1>1, <1>5 DEF ModeInv
  <2> QED
    BY <2>1, <1>4 DEF ModeInv
<1>8. ASSUME NEW s \in Session, s \notin slow'
      PROVE  CallsFit(s, Pin)' /\ CloseFits(s)'
  <2>1. CallsFit(s, Pin) /\ CloseFits(s)
    BY <1>2, <1>8 DEF PinInv
  <2>2. /\ Pin \in Nat /\ Short \in Nat /\ session[s].left \in Nat
        /\ \A c \in CallsOf(s) : Needs(c) \in Int
    BY <1>1, TimesAreNatural
  <2>3. \A c \in CallsOf(s) : Needs(c)' = Needs(c) - 1
    <3>1. ASSUME NEW c \in CallsOf(s)
          PROVE  Needs(c)' = Needs(c) - 1
      <4>1. /\ call[c].left \in Nat /\ call'[c].left = call[c].left - 1
            /\ call'[c].ask = call[c].ask
        BY <1>3 DEF CallsOf
      <4>2. Following(call[c].ask) \in Int /\ Following(call[c].ask)' = Following(call[c].ask)
        BY <2>2, <4>1 DEF Following
      <4> QED
        BY <2>2, <4>1, <4>2 DEF Needs
    <3> QED BY <3>1
  <2>4. CallsFit(s, Pin)'
    BY <2>1, <2>2, <2>3, <1>4 DEF CallsFit
  <2>5. close[s].step \in {"none", "waiting", "asked", "cleaning"}
    BY <1>1, <1>2 DEF Due, TypeOK, CloseRecords, NoClose
  <2>6. ASSUME close[s].step = "waiting"
        PROVE  CloseFits(s)'
    <3>1. close'[s] = close[s] /\ ~Forgotten(s)
      BY <2>6, <1>2, <1>6 DEF NoClose
    <3>2. \A c \in CallsOf(s) : Needs(c) < session[s].left
      BY <2>1, <2>6 DEF CloseFits, CallsFit
    <3>3. session'[s].left = Less(session[s].left)
      BY <3>1, <1>5
    <3>4. session'[s].left \in Nat /\ session'[s].left >= session[s].left - 1
      BY <3>3, <2>2 DEF Less
    <3>5. CallsFit(s, session[s].left)'
      BY <3>2, <3>4, <2>2, <2>3, <1>4 DEF CallsFit
    <3> QED
      BY <3>1, <3>5, <2>6 DEF CloseFits
  <2>7. ASSUME close[s].step \in {"asked", "cleaning"}
        PROVE  CloseFits(s)'
    <3>1. close[s] \in CloseRecords /\ ~Forgotten(s)
      BY <2>7, <1>1, <1>6 DEF TypeOK, NoClose
    <3>2. close'[s] = [close[s] EXCEPT !.left = Less(close[s].left)]
      BY <2>7, <1>2
    <3>3. close[s].left \in Nat /\ close[s].left # 0
      BY <2>7, <3>1, <1>2 DEF Due, CloseRecords
    <3>4. close'[s].step = close[s].step /\ close'[s].left = Less(close[s].left)
      BY <2>7, <3>1, <3>2 DEF CloseRecords
    <3>5. close[s].left < session[s].left
      BY <2>1, <2>7 DEF CloseFits
    <3>6. session'[s].left = Less(session[s].left)
      BY <3>1, <1>5
    <3>7. close'[s].left < session'[s].left
      BY <3>3, <3>4, <3>5, <3>6, <2>2 DEF Less
    <3> QED
      BY <2>7, <3>4, <3>7 DEF CloseFits
  <2>8. ASSUME close[s].step = "none"
        PROVE  CloseFits(s)'
    BY <2>8, <1>2 DEF CloseFits
  <2> QED
    BY <2>4, <2>5, <2>6, <2>7, <2>8
<1> QED
  BY <1>7, <1>8 DEF PinInv

LEMMA InitFits == Init => PinInv
<1> SUFFICES ASSUME Init PROVE PinInv
  OBVIOUS
<1>1. \A s \in Session : CallsOf(s) = {} /\ close[s].step = "none"
  BY DEF Init, CallsOf, Working, NoClose
<1> QED
  BY <1>1 DEF PinInv, ModeInv, CallsFit, CloseFits

LEMMA StepFits == IInv /\ PinInv /\ [Next]_vars => PinInv'
<1> SUFFICES ASSUME IInv, PinInv, [Next]_vars PROVE PinInv'
  OBVIOUS
<1>1. ASSUME NEW c \in Call, NEW s \in Session, NEW kind \in Kinds, NEW t \in Tab \cup {NoTab},
             Accept(c, s, kind, t)
      PROVE  PinInv'
  BY <1>1, AcceptFits
<1>2. ASSUME NEW c \in Call, Perform(c) \/ AnswerStep(c)
      PROVE  PinInv'
  BY <1>2, PerformFits, AnswerFits
<1>3. ASSUME NEW s \in Session, Start(s) \/ BeginClose(s) \/ CloseStep(s)
      PROVE  PinInv'
  BY <1>3, StartFits, BeginCloseFits, CloseStepFits
<1>4. ASSUME UNCHANGED <<session, call, close, slow>>
      PROVE  PinInv'
  <2>1. \A s \in Session : /\ CallsOf(s)' = CallsOf(s)
                           /\ \A c \in CallsOf(s) : call'[c] = call[c]
    BY <1>4 DEF CallsOf, Working
  <2>2. ModeInv'
    BY <1>4, <2>1 DEF PinInv, ModeInv
  <2>3. \A s \in Session \ slow : CallsFit(s, Pin)' /\ CloseFits(s)'
    BY <1>4, <2>1, FitUntouched DEF IInv, PinInv
  <2> QED
    BY <1>4, <2>2, <2>3 DEF PinInv
<1>5. ASSUME NEW t \in Tab, LateStep(t)
      PROVE  PinInv'
  BY <1>4, <1>5 DEF LateStep, ChildOpens, LateWrite
<1>6. ASSUME UNCHANGED vars
      PROVE  PinInv'
  BY <1>4, <1>6 DEF vars
<1> QED
  BY <1>1, <1>2, <1>3, <1>5, <1>6, TickFits DEF Next

-----------------------------------------------------------------------------
(* The theorems. *)

LEMMA InitHolds == Init => IInv
<1> SUFFICES ASSUME Init PROVE IInv
  OBVIOUS
<1>1. \A s \in Session : CallsOf(s) = {}
  BY DEF Init, CallsOf, Working
<1>2. Longest(Ttl, Pin) \in Nat
  BY SessionAssumption DEF SessionAssumption, Longest
<1>3. Cardinality(Call) \in Nat
  BY FS_CardinalityType, SessionAssumption DEF SessionAssumption
<1>4. TypeOK
  BY <1>2, <1>3 DEF Init, TypeOK, SessionRecords, Modes
<1>5. CountInv
  BY <1>1, FS_EmptySet DEF Init, CountInv
<1>6. StateInv /\ WaitInv
  BY <1>1 DEF Init, StateInv, WaitInv, NoClose
<1>7. ReleaseInv
  BY SessionAssumption DEF Init, ReleaseInv, SessionAssumption, NoClose
<1>8. AskInv /\ TabsAreExclusive
  BY DEF Init, AskInv, Working, TabsAreExclusive, Live
<1> QED
  BY <1>4, <1>5, <1>6, <1>7, <1>8 DEF IInv

LEMMA StepKeeps == IInv /\ [Next]_vars => IInv'
<1> SUFFICES ASSUME IInv, [Next]_vars PROVE IInv'
  OBVIOUS
<1>1. ASSUME NEW c \in Call, NEW s \in Session, NEW kind \in Kinds, NEW t \in Tab \cup {NoTab},
             Accept(c, s, kind, t)
      PROVE  IInv'
  BY <1>1, AcceptKeeps
<1>2. ASSUME NEW c \in Call, Perform(c)
      PROVE  IInv'
  BY <1>2, PerformKeeps
<1>3. ASSUME NEW c \in Call, AnswerStep(c)
      PROVE  IInv'
  BY <1>3, FailKeeps, ListedKeeps, OpenedKeeps, AdoptedKeeps, CommandedKeeps DEF AnswerStep
<1>4. ASSUME NEW s \in Session, Start(s) \/ BeginClose(s)
      PROVE  IInv'
  BY <1>4, StartKeeps, BeginCloseKeeps
<1>5. ASSUME NEW s \in Session, CloseStep(s)
      PROVE  IInv'
  BY <1>5, SendCleanupKeeps, SurveyWorkspaceKeeps, PerformCleanupKeeps, EndCloseKeeps DEF CloseStep
<1>6. ASSUME Tick
      PROVE  IInv'
  BY <1>6, TickKeeps
<1>8. ASSUME NEW t \in Tab, LateStep(t)
      PROVE  IInv'
  BY <1>8, LateStepKeeps
<1>7. ASSUME UNCHANGED vars
      PROVE  IInv'
  <2>1. \A s \in Session : CallsOf(s)' = CallsOf(s)
    BY <1>7 DEF vars, CallsOf, Working
  <2>2. CountInv' /\ StateInv' /\ WaitInv' /\ ReleaseInv' /\ AskInv'
    BY <1>7, <2>1 DEF vars, IInv, CountInv, StateInv, WaitInv, ReleaseInv, AskInv, Working
  <2>3. TabsAreExclusive' /\ TypeOK'
    BY <1>7 DEF vars, IInv, TabsAreExclusive, Live, TypeOK
  <2> QED
    BY <2>2, <2>3 DEF IInv
<1> QED
  BY <1>1, <1>2, <1>3, <1>4, <1>5, <1>6, <1>7, <1>8 DEF Next

(* The inductive invariant holds in every reachable state. *)
THEOREM SessionsAreSound == Spec => []IInv
BY InitHolds, StepKeeps, PTL DEF Spec

(* The client never asks the extension to release a session while a call     *)
(* that session accepted is still at work: AcceptedWorkTracker.wait and the  *)
(* state "closing" together keep cleanup exclusive.                          *)
THEOREM CleanupIsExclusive == Spec => []CleanupFollowsAcceptedWork
<1>1. IInv => CleanupFollowsAcceptedWork
  BY DEF IInv, WaitInv, CallsOf, CleanupFollowsAcceptedWork
<1> QED
  BY <1>1, SessionsAreSound, PTL

(* No wake-up is lost: while tabward_session_close waits for accepted work   *)
(* there is a call of that session whose end will wake it.                   *)
THEOREM NoWaitIsLost == Spec => []WaitsForAcceptedWork
<1>1. IInv => WaitsForAcceptedWork
  BY DEF IInv, WaitInv, CallsOf, WaitsForAcceptedWork
<1> QED
  BY <1>1, SessionsAreSound, PTL

(* assignTab keeps the tabs of the live sessions apart, whatever the answers *)
(* it is called with and in whatever order they come.                        *)
THEOREM SessionsShareNoTab == Spec => []TabsAreExclusive
<1>1. IInv => TabsAreExclusive
  BY DEF IInv
<1> QED
  BY <1>1, SessionsAreSound, PTL

(* sessions.close comes after the answer that all that was found is          *)
(* released, and no call of the session is left to claim a tab.  Whatever    *)
(* the extension records for a closed session was written after the cleanup  *)
(* had read the records, by tabs.onCreated or by a handler whose command had *)
(* been given up: cleanup leaves no record out and keeps none.               *)
THEOREM ClosedSessionsAreReleased == Spec => []ClosedIsReleased
<1>1. IInv => ClosedIsReleased
  BY DEF IInv, ReleaseInv, ClosedIsReleased
<1> QED
  BY <1>1, SessionsAreSound, PTL

(* The state of the process keeps its type. *)
THEOREM TypeCorrect == Spec => []TypeOK
<1>1. IInv => TypeOK
  BY DEF IInv
<1> QED
  BY <1>1, SessionsAreSound, PTL

(* No session expires under its own close, unless a command of it was        *)
(* allowed more than CLOSING_TTL_SECONDS leaves beside a lookup and the      *)
(* cleanup: once the close has begun, what is left of the session exceeds    *)
(* what the slowest accepted call, the command after its lookup and the      *)
(* cleanup can still take.                                                   *)
THEOREM CloseFitsThePin == Spec => []PinCoversCleanup
<1>1. Spec => []PinInv
  BY SessionsAreSound, InitFits, StepFits, PTL DEF Spec
<1>2. IInv /\ PinInv => PinCoversCleanup
  <2> SUFFICES ASSUME IInv, PinInv, NEW s \in Session, close[s].step # "none", s \notin slow
               PROVE  session[s].left # 0
    BY DEF PinCoversCleanup
  <2>1. TypeOK /\ CloseFits(s)
    BY DEF IInv, PinInv
  <2>2. /\ Pin \in Nat /\ Short \in Nat /\ 3 * Short < Pin /\ session[s].left \in Nat
    BY <2>1, TimesAreNatural
  <2>3. close[s].step \in {"waiting", "ready", "asked", "cleaning", "completed", "partial", "refused"}
    BY <2>1 DEF TypeOK, CloseRecords, NoClose
  <2>4. CASE close[s].step = "waiting"
    <3>1. PICK c \in CallsOf(s) : Needs(c) < session[s].left
      BY <2>1, <2>4 DEF IInv, WaitInv, CloseFits, CallsFit
    <3>2. call[c].left \in Nat /\ Following(call[c].ask) \in Nat
      BY <2>1, <2>2, TimesAreNatural DEF Following
    <3> QED
      BY <3>1, <3>2, <2>2 DEF Needs
  <2>5. CASE close[s].step \in {"asked", "cleaning"}
    <3>1. close[s].left \in Nat
      BY <2>1, <2>5, TimesAreNatural
    <3> QED
      BY <3>1, <2>1, <2>2, <2>5 DEF CloseFits
  <2>6. CASE close[s].step \notin {"waiting", "asked", "cleaning"}
    BY <2>1, <2>2, <2>3, <2>6 DEF CloseFits
  <2> QED BY <2>4, <2>5, <2>6
<1> QED
  BY <1>1, <1>2, SessionsAreSound, PTL
=============================================================================
