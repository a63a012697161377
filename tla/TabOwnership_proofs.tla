------------------------ MODULE TabOwnership_proofs -------------------------
(* That no tab of the user is closed, and none is touched without the        *)
(* setting, for any number of sessions, tabs and commands at work, however   *)
(* their steps, the settings, Chrome's events and failures interleave.       *)
(* What protects a tab lies in the order of the steps a handler has left:    *)
(* the invariant says of each dangerous step what still comes before it.     *)
(* The second half is about who owns a tab: what the lists of adoption and   *)
(* release can be, what one step of a command may do to the records          *)
(* (Stepped), and what follows for adoption, for the close of a session and  *)
(* for switching access off.                                                 *)
EXTENDS TabOwnership, SequenceTheorems, TLAPS

Step == {"access", "tab", "look", "assert", "assertCreated", "verify", "verifyAdopted",
         "vanished", "revoke", "drop", "forget", "work", "resume", "handler", "create",
         "remember", "claim", "restore", "confirm", "keep", "remove", "survey", "each"}

(* The steps of an assertion that may still fail.                            *)
Assertion == {"assert", "assertCreated", "verifyAdopted", "revoke", "vanished"}

(* Whether the step before keeps the dangerous one from being reached.       *)
Keeps(before, step) ==
  \/ step = "work" /\ before \in Assertion
  \/ step = "remove" /\ before = "assertCreated"

(* A list of steps in which every step of a set has something before it that *)
(* keeps it from being reached.                                              *)
Guarded(list, dangers) ==
  \A i \in DOMAIN list : list[i] \in dangers =>
    \E j \in DOMAIN list : j < i /\ Keeps(list[j], list[i])

(* What a throw skips, and where it resumes.                                 *)
Ordered(list) ==
  /\ \A j \in DOMAIN list : list[j] = "assertCreated" =>
       \E k \in DOMAIN list : j < k /\ list[k] = "handler"
  /\ \A i, j \in DOMAIN list : list[i] = "resume" =>
       /\ list[j] = "resume" => i = j
       /\ list[j] = "work" => j < i

Good(list, dangers) == list \in Seq(Step) /\ Ordered(list) /\ Guarded(list, dangers)

LEMMA TailElements ==
  ASSUME NEW list \in Seq(Step), list # <<>>
  PROVE  /\ Tail(list) \in Seq(Step)
         /\ DOMAIN list = 1..Len(list) /\ Len(list) \in Nat /\ Len(list) > 0
         /\ DOMAIN Tail(list) = 1..(Len(list) - 1)
         /\ \A i \in 1..(Len(list) - 1) : Tail(list)[i] = list[i + 1]
         /\ Head(list) = list[1]
OBVIOUS

(* What comes after the first step, if that one kept nothing away that is    *)
(* still dangerous.                                                          *)
LEMMA TailIsGood ==
  ASSUME NEW dangers, NEW list, Good(list, dangers), list # <<>>,
         \A step \in dangers : ~Keeps(Head(list), step)
  PROVE  Good(Tail(list), dangers)
<1>1. list \in Seq(Step)
  BY DEF Good
<1>2. PICK n, rest : n = Len(list) /\ rest = Tail(list)
  OBVIOUS
<1>3. /\ rest \in Seq(Step) /\ DOMAIN list = 1..n /\ n \in Nat /\ n > 0
      /\ DOMAIN rest = 1..(n - 1) /\ \A i \in 1..(n - 1) : rest[i] = list[i + 1]
      /\ Head(list) = list[1]
  BY <1>1, <1>2, TailElements
<1>4. Guarded(rest, dangers)
  <2> SUFFICES ASSUME NEW i \in DOMAIN rest, rest[i] \in dangers
               PROVE  \E j \in DOMAIN rest : j < i /\ Keeps(rest[j], rest[i])
    BY DEF Guarded
  <2>1. i + 1 \in DOMAIN list /\ list[i + 1] = rest[i]
    BY <1>3
  <2>2. PICK j \in DOMAIN list : j < i + 1 /\ Keeps(list[j], rest[i])
    BY <2>1 DEF Good, Guarded
  <2>3. j # 1
    BY <1>3, <2>2
  <2>4. j - 1 \in DOMAIN rest /\ j - 1 < i /\ rest[j - 1] = list[j]
    BY <1>3, <2>2, <2>3
  <2>5. QED
    BY <2>2, <2>4
<1>5. Ordered(rest)
  <2>1. ASSUME NEW j \in DOMAIN rest, rest[j] = "assertCreated"
        PROVE  \E k \in DOMAIN rest : j < k /\ rest[k] = "handler"
    <3>1. j + 1 \in DOMAIN list /\ list[j + 1] = rest[j]
      BY <1>3
    <3>2. PICK k \in DOMAIN list : j + 1 < k /\ list[k] = "handler"
      BY <2>1, <3>1 DEF Good, Ordered
    <3>3. k - 1 \in DOMAIN rest /\ j < k - 1 /\ rest[k - 1] = list[k]
      BY <1>3, <3>2
    <3>4. QED
      BY <3>2, <3>3
  <2>2. ASSUME NEW i \in DOMAIN rest, NEW j \in DOMAIN rest, rest[i] = "resume"
        PROVE  (rest[j] = "resume" => i = j) /\ (rest[j] = "work" => j < i)
    <3>1. /\ i + 1 \in DOMAIN list /\ list[i + 1] = "resume"
          /\ j + 1 \in DOMAIN list /\ list[j + 1] = rest[j]
      BY <1>3, <2>2
    <3>2. (rest[j] = "resume" => i + 1 = j + 1) /\ (rest[j] = "work" => j + 1 < i + 1)
      BY <3>1 DEF Good, Ordered
    <3>3. QED
      BY <1>3, <3>2
  <2>3. QED
    BY <2>1, <2>2 DEF Ordered
<1>6. QED
  BY <1>2, <1>3, <1>4, <1>5 DEF Good

LEMMA SkipIsGood ==
  ASSUME NEW dangers, NEW list, Good(list, dangers)
  PROVE  Good(Skip(list), dangers)
<1>1. CASE list # <<>> /\ Head(list) \in {"handler", "resume"}
  <2>1. \A step \in dangers : ~Keeps(Head(list), step)
    BY <1>1 DEF Keeps, Assertion
  <2>2. QED
    BY <1>1, <2>1, TailIsGood DEF Skip
<1>2. CASE ~(list # <<>> /\ Head(list) \in {"handler", "resume"})
  BY <1>2 DEF Skip
<1>3. QED
  BY <1>1, <1>2

(* Fewer dangers are guarded too.                                            *)
LEMMA FewerDangers ==
  ASSUME NEW dangers, NEW fewer, fewer \subseteq dangers, NEW list, Good(list, dangers)
  PROVE  Good(list, fewer)
BY DEF Good, Guarded

LEMMA ConsElements ==
  ASSUME NEW step \in Step, NEW list \in Seq(Step)
  PROVE  LET longer == <<step>> \o list IN
         /\ longer \in Seq(Step)
         /\ DOMAIN longer = 1..(Len(list) + 1) /\ DOMAIN list = 1..Len(list) /\ Len(list) \in Nat
         /\ longer[1] = step /\ \A i \in 1..Len(list) : longer[i + 1] = list[i]
<1>1. <<step>> \in Seq(Step) /\ Len(<<step>>) = 1 /\ <<step>>[1] = step
  OBVIOUS
<1>2. PICK one : one = <<step>>
  OBVIOUS
<1>3. /\ one \o list \in Seq(Step) /\ Len(one \o list) = 1 + Len(list)
      /\ \A i \in 1..(1 + Len(list)) : (one \o list)[i] = IF i <= 1 THEN one[i] ELSE list[i - 1]
  BY <1>1, <1>2, ConcatProperties
<1>4. Len(list) \in Nat /\ DOMAIN list = 1..Len(list)
  OBVIOUS
<1>5. DOMAIN (one \o list) = 1..(Len(list) + 1)
  BY <1>3, <1>4
<1>6. QED
  BY <1>1, <1>2, <1>3, <1>4, <1>5

(* A step put before the others: an assertion, or one that guards nothing.   *)
Harmless == Step \ {"work", "remove", "remember", "resume", "assertCreated"}

LEMMA ConsIsGood ==
  ASSUME NEW dangers, NEW step \in Harmless, NEW list, Good(list, dangers),
         dangers \subseteq {"work", "remove", "remember"}
  PROVE  Good(<<step>> \o list, dangers)
<1>1. list \in Seq(Step) /\ step \in Step
  BY DEF Good, Harmless
<1>2. PICK n, longer : n = Len(list) /\ longer = <<step>> \o list
  OBVIOUS
<1>3. /\ longer \in Seq(Step) /\ n \in Nat
      /\ DOMAIN longer = 1..(n + 1) /\ DOMAIN list = 1..n
      /\ longer[1] = step /\ \A i \in 1..n : longer[i + 1] = list[i]
  BY <1>1, <1>2, ConsElements
<1>4. \A i \in DOMAIN longer : i # 1 => i - 1 \in DOMAIN list /\ longer[i] = list[i - 1]
  BY <1>3
<1>5. \A i \in DOMAIN list : i + 1 \in DOMAIN longer /\ longer[i + 1] = list[i] /\ i \in Nat
  BY <1>3
<1>6. Guarded(longer, dangers)
  <2> SUFFICES ASSUME NEW i \in DOMAIN longer, longer[i] \in dangers
               PROVE  \E j \in DOMAIN longer : j < i /\ Keeps(longer[j], longer[i])
    BY DEF Guarded
  <2>1. i # 1
    BY <1>3 DEF Harmless
  <2>2. PICK j \in DOMAIN list : j < i - 1 /\ Keeps(list[j], longer[i])
    BY <1>4, <2>1 DEF Good, Guarded
  <2>3. j + 1 \in DOMAIN longer /\ longer[j + 1] = list[j] /\ j + 1 < i
    BY <1>3, <1>5, <2>2
  <2>4. QED
    BY <2>2, <2>3
<1>7. Ordered(longer)
  <2>1. ASSUME NEW j \in DOMAIN longer, longer[j] = "assertCreated"
        PROVE  \E k \in DOMAIN longer : j < k /\ longer[k] = "handler"
    <3>1. j # 1
      BY <1>3, <2>1 DEF Harmless
    <3>2. PICK k \in DOMAIN list : j - 1 < k /\ list[k] = "handler"
      BY <1>4, <2>1, <3>1 DEF Good, Ordered
    <3>3. k + 1 \in DOMAIN longer /\ longer[k + 1] = "handler" /\ j < k + 1
      BY <1>3, <1>5, <3>2
    <3>4. QED
      BY <3>3
  <2>2. ASSUME NEW i \in DOMAIN longer, NEW j \in DOMAIN longer,
               longer[i] = "resume", longer[j] \in {"resume", "work"}
        PROVE  (longer[j] = "resume" => i = j) /\ (longer[j] = "work" => j < i)
    <3>1. i # 1 /\ j # 1
      BY <1>3, <2>2 DEF Harmless
    <3>2. (longer[j] = "resume" => i - 1 = j - 1) /\ (longer[j] = "work" => j - 1 < i - 1)
      BY <1>4, <2>2, <3>1 DEF Good, Ordered
    <3>3. QED
      BY <1>3, <3>2
  <2>3. QED
    BY <2>1, <2>2 DEF Ordered
<1>8. QED
  BY <1>2, <1>3, <1>6, <1>7 DEF Good

(* An assertion still to come keeps the work behind it away.                 *)
LEMMA ConsAssertion ==
  ASSUME NEW dangers \in SUBSET {"work", "remove", "remember"},
         NEW step \in {"assert", "verifyAdopted", "revoke", "vanished"},
         NEW list, Good(list, dangers \ {"work"})
  PROVE  Good(<<step>> \o list, dangers)
<1>1. Good(<<step>> \o list, dangers \ {"work"})
  BY ConsIsGood DEF Harmless, Step
<1>2. PICK longer : longer = <<step>> \o list
  OBVIOUS
<1>3. DOMAIN longer = 1..Len(longer) /\ longer[1] = step /\ 1 \in DOMAIN longer
  <2>1. list \in Seq(Step) /\ step \in Step
    BY DEF Good, Step
  <2>2. PICK n : n = Len(list)
    OBVIOUS
  <2>3. /\ longer \in Seq(Step) /\ DOMAIN longer = 1..(n + 1) /\ n \in Nat /\ longer[1] = step
    BY <1>2, <2>1, <2>2, ConsElements
  <2>4. QED
    BY <2>3
<1>4. longer[1] # "work"
  BY <1>3
<1>5. Guarded(longer, dangers)
  <2> SUFFICES ASSUME NEW i \in DOMAIN longer, longer[i] \in dangers
               PROVE  \E j \in DOMAIN longer : j < i /\ Keeps(longer[j], longer[i])
    BY DEF Guarded
  <2>1. CASE longer[i] = "work"
    <3>1. i # 1 /\ 1 < i
      BY <1>3, <1>4, <2>1
    <3>2. Keeps(longer[1], longer[i])
      BY <1>3, <2>1 DEF Keeps, Assertion
    <3>3. QED
      BY <1>3, <3>1, <3>2
  <2>2. CASE longer[i] # "work"
    BY <1>1, <1>2, <2>2 DEF Good, Guarded
  <2>3. QED
    BY <2>1, <2>2
<1>6. QED
  BY <1>1, <1>2, <1>5 DEF Good

LEMMA EmptyIsGood == \A dangers : Good(<<>>, dangers)
BY DEF Good, Ordered, Guarded

LEMMA OneIsGood ==
  ASSUME NEW dangers \in SUBSET {"work", "remove", "remember"}, NEW step \in Harmless
  PROVE  Good(<<step>>, dangers)
BY DEF Good, Ordered, Guarded, Harmless, Step

(* What a throw inside a handler resumes with has no danger in it.           *)
LEMMA ResumptionIsGood ==
  ASSUME NEW dangers \in SUBSET {"work", "remove", "remember"},
         NEW list, Good(list, dangers), list # <<>>,
         \A i \in DOMAIN list : list[i] # "handler"
  PROVE  Good(Resumption(Tail(list)), dangers)
<1>1. \A i \in DOMAIN list : list[i] # "assertCreated"
  BY DEF Good, Ordered
<1>2. \A i \in DOMAIN list : list[i] \in dangers => list[i] = "work"
  BY <1>1 DEF Good, Guarded, Keeps
<1>3. list \in Seq(Step)
  BY DEF Good
<1>4. PICK n, rest : n = Len(list) /\ rest = Tail(list)
  OBVIOUS
<1>5. /\ rest \in Seq(Step) /\ DOMAIN list = 1..n /\ n \in Nat /\ n > 0
      /\ DOMAIN rest = 1..(n - 1) /\ \A i \in 1..(n - 1) : rest[i] = list[i + 1]
  BY <1>3, <1>4, TailElements
<1>6. \A i \in DOMAIN rest : /\ rest[i] # "handler" /\ rest[i] # "assertCreated"
                             /\ rest[i] \in dangers => rest[i] = "work"
  BY <1>1, <1>2, <1>5
<1>7. Ordered(rest)
  <2>1. Good(list, {})
    BY FewerDangers
  <2>2. Good(rest, {})
    BY <1>4, <2>1, TailIsGood
  <2>3. QED
    BY <2>2 DEF Good
<1>8. PICK marks : marks = {i \in DOMAIN rest : rest[i] = "resume"}
  OBVIOUS
<1>9. CASE marks = {}
  <2>1. Resumption(rest) = <<>>
    BY <1>8, <1>9 DEF Resumption
  <2>2. QED
    BY <1>4, <2>1, EmptyIsGood
<1>10. CASE marks # {}
  <2>1. PICK m \in marks : TRUE
    BY <1>10
  <2>2. m = CHOOSE i \in marks : \A j \in marks : i <= j
    <3>1. \A i \in marks : i = m
      BY <1>7, <1>8, <2>1 DEF Ordered
    <3>2. m \in marks /\ \A j \in marks : m <= j
      BY <1>5, <1>8, <3>1
    <3>3. QED
      BY <3>1, <3>2
  <2>3. m \in 1..(n - 1) /\ rest[m] = "resume" /\ Len(rest) = n - 1
    BY <1>5, <1>8, <2>1
  <2>4. PICK back : back = SubSeq(rest, 1 + m, Len(rest))
    OBVIOUS
  <2>5. Resumption(rest) = back
    BY <1>8, <1>10, <2>2, <2>4 DEF Resumption
  <2>6. /\ back \in Seq(Step)
        /\ \A i \in DOMAIN back : /\ i + m \in DOMAIN rest /\ back[i] = rest[i + m]
                                 /\ i \in Nat /\ i > 0
    <3>1. PICK first, last : first = 1 + m /\ last = n - 1
      OBVIOUS
    <3>2. /\ first \in Int /\ last \in Int /\ first - 1 <= last /\ last - first + 1 = n - 1 - m
          /\ \A i \in first..last : rest[i] \in Step
      BY <1>5, <2>3, <3>1
    <3>3. back = SubSeq(rest, first, last)
      BY <2>3, <2>4, <3>1
    <3>4. /\ back \in Seq(Step)
          /\ Len(back) = IF first <= last THEN last - first + 1 ELSE 0
          /\ \A i \in 1..(last - first + 1) : back[i] = rest[first + i - 1]
      BY <3>2, <3>3, SubSeqProperties
    <3>5. DOMAIN back = 1..Len(back) /\ Len(back) = n - 1 - m
      BY <1>5, <2>3, <3>1, <3>2, <3>4
    <3>6. \A i \in DOMAIN back : /\ i \in 1..(last - first + 1) /\ i \in Nat /\ i > 0
                                 /\ first + i - 1 = i + m /\ i + m \in 1..(n - 1)
      BY <1>5, <2>3, <3>1, <3>5
    <3>7. \A i \in DOMAIN back : back[i] = rest[i + m]
      BY <3>4, <3>6
    <3>8. QED
      BY <1>5, <3>4, <3>6, <3>7
  <2>7. \A i \in DOMAIN back : back[i] # "work" /\ back[i] # "resume"
    <3> SUFFICES ASSUME NEW i \in DOMAIN back, back[i] \in {"work", "resume"} PROVE FALSE
      OBVIOUS
    <3>1. i + m \in DOMAIN rest /\ rest[i + m] = back[i] /\ m \in DOMAIN rest /\ i \in Nat /\ i > 0
      BY <1>5, <2>3, <2>6
    <3>2. i + m < m \/ i + m = m
      BY <1>7, <2>3, <3>1 DEF Ordered
    <3>3. QED
      BY <1>5, <2>3, <3>1, <3>2
  <2>8. \A i \in DOMAIN back : back[i] # "assertCreated" /\ back[i] \notin dangers
    BY <1>6, <2>6, <2>7
  <2>9. Good(back, dangers)
    BY <2>6, <2>7, <2>8 DEF Good, Ordered, Guarded
  <2>10. QED
    BY <1>4, <2>5, <2>9
<1>11. QED
  BY <1>9, <1>10

-----------------------------------------------------------------------------
(* The commands at work.                                                     *)

Types == {"work", "openTab", "adoptTab", "releaseTab", "closeTab", "handoff", "releaseWorkspace"}

Handlers ==
  [type : Types, todo : Seq(Step), session : Session, tab : Tab \cup {NoTab},
   command : Commands, close : BOOLEAN, survey : SUBSET [tab : Tab, kind : Kinds],
   partial : BOOLEAN, gate : BOOLEAN, granted : BOOLEAN]

(* What must not be done to the tab of a command: a tab of the user is       *)
(* neither closed nor recorded as created, and its page is not touched       *)
(* without access.                                                           *)
Dangers(c) ==
  IF c.tab \notin UserTab THEN {}
  ELSE {"remove", "remember"} \cup (IF c.granted THEN {} ELSE {"work"})

Fits(c) ==
  /\ c \in Handlers /\ Good(c.todo, Dangers(c))
  /\ \A item \in c.survey : item.tab \in UserTab => item.kind \notin Created

CmdOk(c) == Fits(c) /\ c.todo # <<>>

CmdInv ==
  /\ cmd \in [Op -> Handlers \cup {Idle}]
  /\ \A op \in Op : Busy(op) => CmdOk(cmd[op]) /\ (access => cmd[op].granted)

LEMMA DangersType == \A c : Dangers(c) \in SUBSET {"work", "remove", "remember"}
BY DEF Dangers

LEMMA CmdSet ==
  ASSUME CmdInv, NEW op \in Op, NEW d, d = Idle \/ (CmdOk(d) /\ (access => d.granted)),
         cmd' = [cmd EXCEPT ![op] = d], access' = access
  PROVE  CmdInv'
<1>1. cmd' \in [Op -> Handlers \cup {Idle}]
  BY DEF CmdInv, CmdOk, Fits
<1>2. ASSUME NEW o \in Op, cmd'[o] # Idle
      PROVE  CmdOk(cmd'[o]) /\ (access' => cmd'[o].granted)
  <2>1. CASE o = op
    BY <1>2, <2>1 DEF CmdInv
  <2>2. CASE o # op
    BY <1>2, <2>2 DEF CmdInv, Busy
  <2>3. QED
    BY <2>1, <2>2
<1>3. QED
  BY <1>1, <1>2 DEF CmdInv, Busy

LEMMA BecomeKeeps ==
  ASSUME CmdInv, NEW op \in Op, NEW c, Fits(c), access => c.granted,
         Become(op, c), access' = access
  PROVE  CmdInv'
<1>1. PICK next : next = Skip(c.todo)
  OBVIOUS
<1>2. Good(next, Dangers(c))
  BY <1>1, SkipIsGood DEF Fits
<1>3. CASE next = <<>>
  <2>1. cmd' = [cmd EXCEPT ![op] = Idle]
    BY <1>1, <1>3 DEF Become
  <2>2. QED
    BY <2>1, CmdSet
<1>4. CASE next # <<>>
  <2>1. PICK d : d = [c EXCEPT !.todo = next]
    OBVIOUS
  <2>2. cmd' = [cmd EXCEPT ![op] = d]
    BY <1>1, <1>4, <2>1 DEF Become
  <2>3. d \in Handlers
    BY <1>2, <2>1 DEF Fits, Handlers, Good
  <2>4. d.todo = next /\ d.tab = c.tab /\ d.granted = c.granted /\ d.survey = c.survey
    BY <2>1 DEF Fits, Handlers
  <2>5. Dangers(d) = Dangers(c)
    BY <2>4 DEF Dangers
  <2>6. CmdOk(d)
    BY <1>2, <1>4, <2>3, <2>4, <2>5 DEF CmdOk, Fits
  <2>7. QED
    BY <2>2, <2>4, <2>6, CmdSet
<1>5. QED
  BY <1>3, <1>4

LEMMA GotoKeeps ==
  ASSUME CmdInv, NEW op \in Op, Busy(op), NEW list, Good(list, Dangers(cmd[op])),
         Goto(op, list), access' = access
  PROVE  CmdInv'
<1>1. Fits(cmd[op]) /\ (access => cmd[op].granted)
  BY DEF CmdInv, CmdOk
<1>2. PICK d : d = [cmd[op] EXCEPT !.todo = list]
  OBVIOUS
<1>3. d \in Handlers
  BY <1>1, <1>2 DEF Fits, Handlers, Good
<1>4. d.todo = list /\ d.tab = cmd[op].tab /\ d.granted = cmd[op].granted /\ d.survey = cmd[op].survey
  BY <1>1, <1>2 DEF Fits, Handlers
<1>5. Dangers(d) = Dangers(cmd[op])
  BY <1>4 DEF Dangers
<1>6. Fits(d)
  BY <1>1, <1>3, <1>4, <1>5 DEF Fits
<1>7. QED
  BY <1>1, <1>2, <1>4, <1>6, BecomeKeeps DEF Goto

LEMMA ProceedKeeps ==
  ASSUME CmdInv, NEW op \in Op, NEW step, At(op, step),
         \A danger \in Dangers(cmd[op]) : ~Keeps(step, danger),
         Proceed(op), access' = access
  PROVE  CmdInv'
<1>1. Busy(op) /\ CmdOk(cmd[op]) /\ Head(cmd[op].todo) = step
  BY DEF At, CmdInv
<1>2. Good(Tail(cmd[op].todo), Dangers(cmd[op]))
  BY <1>1, TailIsGood DEF CmdOk, Fits
<1>3. QED
  BY <1>1, <1>2, GotoKeeps DEF Proceed, Rest

LEMMA ThrowKeeps ==
  ASSUME CmdInv, NEW op \in Op, Busy(op), Throw(op), access' = access
  PROVE  CmdInv'
<1>1. CmdOk(cmd[op])
  BY DEF CmdInv
<1>2. CASE InHandler(op)
  <2>1. Good(Resumption(Rest(op)), Dangers(cmd[op]))
    BY <1>1, <1>2, ResumptionIsGood, DangersType DEF CmdOk, Fits, InHandler, Rest
  <2>2. Goto(op, Resumption(Rest(op)))
    BY <1>2 DEF Throw
  <2>3. QED
    BY <2>1, <2>2, GotoKeeps
<1>3. CASE ~InHandler(op)
  BY <1>3, EmptyIsGood, GotoKeeps DEF Throw
<1>4. QED
  BY <1>2, <1>3

-----------------------------------------------------------------------------
(* The records, Chrome and the settings.                                     *)

(* No tab of the user is recorded as one that TabWard created.               *)
OwnedInv ==
  /\ owned \in [Tab -> Records \cup {NoRecord}]
  /\ \A t \in UserTab : owned[t] # NoRecord =>
       owned[t].kind \notin Created /\ owned[t].previousKind \notin Created

Child == {NoHandler} \cup [step : {"look"}, opener : Tab] \cup [step : {"remember"}, session : Session]

ChromeInv ==
  /\ tabs \subseteq Tab \ unborn /\ unborn \subseteq Tab \ UserTab
  /\ gone \subseteq Tab \ tabs /\ gone \cap unborn = {}
  /\ child \in [Tab -> Child] /\ \A t \in UserTab : child[t] = NoHandler

Update ==
  {NoUpdate} \cup [step : {"write"}, patch : {"enable", "disable", "trust"}, current : BOOLEAN]
    \cup [step : {"survey"}] \cup [step : {"release"}, tabs : SUBSET Tab]

SettingsInv == access \in BOOLEAN /\ update \in [Updater -> Update]

SessionInv == session \in [Session -> {"active", "closing", "cleanup_partial", "closed"}]

FaultInv == timeouts \in 0..MaxTimeouts /\ deaths \in 0..MaxDeaths

IInv == CmdInv /\ OwnedInv /\ ChromeInv /\ SettingsInv /\ SessionInv /\ FaultInv

(* A record is written, or deleted.                                          *)
LEMMA OwnKeeps ==
  ASSUME OwnedInv, NEW t, NEW record, Own(t, record),
         t \in Tab => record \in Records \cup {NoRecord},
         t \in UserTab /\ record # NoRecord =>
           record.kind \notin Created /\ record.previousKind \notin Created
  PROVE  OwnedInv'
<1>1. owned' \in [Tab -> Records \cup {NoRecord}]
  BY DEF Own, OwnedInv
<1>2. ASSUME NEW u \in UserTab, owned'[u] # NoRecord
      PROVE  owned'[u].kind \notin Created /\ owned'[u].previousKind \notin Created
  <2>1. u \in Tab
    BY OwnershipAssumption
  <2>2. CASE u = t
    BY <1>2, <2>1, <2>2 DEF Own, OwnedInv
  <2>3. CASE u # t
    BY <1>2, <2>1, <2>3 DEF Own, OwnedInv
  <2>4. QED
    BY <2>2, <2>3
<1>3. QED
  BY <1>1, <1>2 DEF OwnedInv

LEMMA DeleteKeeps ==
  ASSUME OwnedInv, NEW t, Own(t, NoRecord)
  PROVE  OwnedInv'
BY OwnKeeps

LEMMA SameOwned == ASSUME OwnedInv, owned' = owned PROVE OwnedInv'
BY DEF OwnedInv
LEMMA SameChrome == ASSUME ChromeInv, UNCHANGED chromeVars PROVE ChromeInv'
BY DEF ChromeInv, chromeVars
LEMMA SameSettings == ASSUME SettingsInv, access' = access, update' = update PROVE SettingsInv'
BY DEF SettingsInv
LEMMA SameSession == ASSUME SessionInv, session' = session PROVE SessionInv'
BY DEF SessionInv
LEMMA SameFaults == ASSUME FaultInv, UNCHANGED faultVars PROVE FaultInv'
BY DEF FaultInv, faultVars
LEMMA SameCmd == ASSUME CmdInv, cmd' = cmd, access' = access PROVE CmdInv'
BY DEF CmdInv, Busy

LEMMA InitIInv == Init => IInv
<1> SUFFICES ASSUME Init PROVE IInv
  OBVIOUS
<1>1. CmdInv
  BY DEF Init, CmdInv, Busy
<1>2. OwnedInv
  BY OwnershipAssumption DEF Init, OwnedInv
<1>3. ChromeInv
  BY OwnershipAssumption DEF Init, ChromeInv, Child
<1>4. SettingsInv /\ SessionInv /\ FaultInv
  BY OwnershipAssumption DEF Init, SettingsInv, Update, SessionInv, FaultInv
<1>5. QED
  BY <1>1, <1>2, <1>3, <1>4 DEF IInv

-----------------------------------------------------------------------------
(* A command is admitted.                                                    *)

LEMMA HandlerIsGood ==
  ASSUME NEW type \in Types, NEW dangers \in SUBSET {"work", "remove", "remember"},
         type = "openTab" => dangers = {}
  PROVE  /\ Good(Handler[type], IF type \in {"work", "handoff"} THEN dangers \ {"work"}
                                ELSE IF type = "closeTab" THEN dangers \ {"remove"} ELSE dangers)
         /\ Handler[type] # <<>>
<1>1. CASE type \in {"work", "handoff"}
  <2>1. /\ Good(<<"work">>, dangers \ {"work"}) /\ Good(<<"work", "keep">>, dangers \ {"work"})
        /\ <<"work">> # <<>> /\ <<"work", "keep">> # <<>>
    BY DEF Good, Ordered, Guarded, Step
  <2>2. Handler[type] \in {<<"work">>, <<"work", "keep">>}
    BY <1>1 DEF Handler
  <2>3. QED
    BY <1>1, <2>1, <2>2
<1>2. CASE type = "closeTab"
  <2>1. PICK list : list = <<"assert", "work", "resume", "remove", "forget">>
    OBVIOUS
  <2>2. Good(list, dangers \ {"remove"}) /\ list # <<>>
    BY <2>1 DEF Good, Ordered, Guarded, Step, Keeps, Assertion
  <2>3. Handler[type] = list
    BY <1>2, <2>1 DEF Handler
  <2>4. QED
    BY <1>2, <2>2, <2>3
<1>3. CASE type = "releaseTab"
  <2>1. PICK list : list = <<"assert", "work", "resume", "drop">>
    OBVIOUS
  <2>2. Good(list, dangers) /\ list # <<>>
    BY <2>1 DEF Good, Ordered, Guarded, Step, Keeps, Assertion
  <2>3. Handler[type] = list
    BY <1>3, <2>1 DEF Handler
  <2>4. QED
    BY <1>3, <2>2, <2>3
<1>4. CASE type = "openTab"
  <2>1. Good(<<"create", "remember">>, {}) /\ <<"create", "remember">> # <<>>
    BY DEF Good, Ordered, Guarded, Step
  <2>2. QED
    BY <1>4, <2>1 DEF Handler
<1>5. CASE type \in {"adoptTab", "releaseWorkspace"}
  <2>1. /\ Good(<<"access", "tab", "look">>, dangers) /\ Good(<<"survey", "each">>, dangers)
        /\ <<"access", "tab", "look">> # <<>> /\ <<"survey", "each">> # <<>>
    BY DEF Good, Ordered, Guarded, Step
  <2>2. Handler[type] \in {<<"access", "tab", "look">>, <<"survey", "each">>}
    BY <1>5 DEF Handler
  <2>3. QED
    BY <1>5, <2>1, <2>2
<1>6. QED
  BY <1>1, <1>2, <1>3, <1>4, <1>5 DEF Types

(* The assertion of a created tab keeps the closing behind it away too.      *)
LEMMA ConsAssertCreated ==
  ASSUME NEW dangers \in SUBSET {"work", "remove", "remember"},
         NEW list, Good(list, dangers \ {"remove"}), 1 \in DOMAIN list, list[1] = "handler"
  PROVE  Good(<<"assertCreated">> \o list, dangers)
<1>1. list \in Seq(Step) /\ "assertCreated" \in Step
  BY DEF Good, Step
<1>2. PICK n, longer : n = Len(list) /\ longer = <<"assertCreated">> \o list
  OBVIOUS
<1>3. /\ longer \in Seq(Step) /\ n \in Nat
      /\ DOMAIN longer = 1..(n + 1) /\ DOMAIN list = 1..n
      /\ longer[1] = "assertCreated" /\ \A i \in 1..n : longer[i + 1] = list[i]
  BY <1>1, <1>2, ConsElements
<1>4. \A i \in DOMAIN longer : i # 1 => /\ i - 1 \in DOMAIN list /\ longer[i] = list[i - 1]
                                        /\ i \in Nat /\ 1 < i
  BY <1>3
<1>5. \A i \in DOMAIN list : i + 1 \in DOMAIN longer /\ longer[i + 1] = list[i] /\ i \in Nat
  BY <1>3
<1>6. 1 \in DOMAIN longer
  BY <1>3
<1>7. Guarded(longer, dangers)
  <2> SUFFICES ASSUME NEW i \in DOMAIN longer, longer[i] \in dangers
               PROVE  \E j \in DOMAIN longer : j < i /\ Keeps(longer[j], longer[i])
    BY DEF Guarded
  <2>1. i # 1
    BY <1>3
  <2>2. CASE longer[i] = "remove"
    BY <1>3, <1>4, <1>6, <2>1, <2>2 DEF Keeps
  <2>3. CASE longer[i] # "remove"
    <3>1. PICK j \in DOMAIN list : j < i - 1 /\ Keeps(list[j], longer[i])
      BY <1>4, <2>1, <2>3 DEF Good, Guarded
    <3>2. j + 1 \in DOMAIN longer /\ longer[j + 1] = list[j] /\ j + 1 < i
      BY <1>4, <1>5, <2>1, <3>1
    <3>3. QED
      BY <3>1, <3>2
  <2>4. QED
    BY <2>2, <2>3
<1>8. Ordered(longer)
  <2>1. ASSUME NEW j \in DOMAIN longer, longer[j] = "assertCreated"
        PROVE  \E k \in DOMAIN longer : j < k /\ longer[k] = "handler"
    <3>1. CASE j = 1
      <4>1. 1 + 1 \in DOMAIN longer /\ longer[1 + 1] = "handler"
        BY <1>5
      <4>2. QED
        BY <3>1, <4>1
    <3>2. CASE j # 1
      <4>1. PICK k \in DOMAIN list : j - 1 < k /\ list[k] = "handler"
        BY <1>4, <2>1, <3>2 DEF Good, Ordered
      <4>2. k + 1 \in DOMAIN longer /\ longer[k + 1] = "handler" /\ j < k + 1
        BY <1>4, <1>5, <3>2, <4>1
      <4>3. QED
        BY <4>2
    <3>3. QED
      BY <3>1, <3>2
  <2>2. ASSUME NEW i \in DOMAIN longer, NEW j \in DOMAIN longer,
               longer[i] = "resume", longer[j] \in {"resume", "work"}
        PROVE  (longer[j] = "resume" => i = j) /\ (longer[j] = "work" => j < i)
    <3>1. i # 1 /\ j # 1
      BY <1>3, <2>2
    <3>2. (longer[j] = "resume" => i - 1 = j - 1) /\ (longer[j] = "work" => j - 1 < i - 1)
      BY <1>4, <2>2, <3>1 DEF Good, Ordered
    <3>3. QED
      BY <1>4, <3>1, <3>2
  <2>3. QED
    BY <2>1, <2>2 DEF Ordered
<1>9. QED
  BY <1>2, <1>3, <1>7, <1>8 DEF Good

LEMMA DispatchIsGood ==
  ASSUME NEW type \in Types, NEW s, NEW dangers \in SUBSET {"work", "remove", "remember"},
         type = "openTab" => dangers = {}
  PROVE  Good(Dispatch(type, s), dangers) /\ Skip(Dispatch(type, s)) # <<>>
<1>1. PICK inner, handler : inner = Handler[type] /\ handler = <<"handler">> \o inner
  OBVIOUS
<1>2. PICK left : left = IF type \in {"work", "handoff"} THEN dangers \ {"work"}
                         ELSE IF type = "closeTab" THEN dangers \ {"remove"} ELSE dangers
  OBVIOUS
<1>3. Good(inner, left) /\ inner # <<>> /\ left \subseteq dangers
  BY <1>1, <1>2, HandlerIsGood
<1>4. Good(handler, left)
  BY <1>1, <1>3, ConsIsGood DEF Harmless, Step
<1>5. /\ 1 \in DOMAIN handler /\ handler[1] = "handler"
      /\ Len(handler) \in Nat /\ Len(handler) > 1
  <2>1. inner \in Seq(Step) /\ "handler" \in Step /\ handler \in Seq(Step)
    BY <1>3, <1>4 DEF Good, Step
  <2>2. PICK n : n = Len(inner)
    OBVIOUS
  <2>3. n \in Nat /\ n > 0
    BY <1>3, <2>1, <2>2
  <2>4. DOMAIN handler = 1..(n + 1) /\ handler[1] = "handler"
    BY <1>1, <2>1, <2>2, ConsElements
  <2>5. Len(handler) \in Nat /\ DOMAIN handler = 1..Len(handler)
    BY <2>1
  <2>6. n + 1 \in DOMAIN handler /\ n + 1 > 1
    BY <2>3, <2>4
  <2>7. QED
    BY <2>3, <2>4, <2>5, <2>6
<1>6. PICK checked :
        checked = IF type \in {"openTab", "adoptTab", "releaseWorkspace"} THEN handler
                  ELSE <<IF type = "closeTab" THEN "assertCreated" ELSE "assert">> \o handler
  OBVIOUS
<1>7. Good(checked, dangers)
  <2>1. CASE type \in {"openTab", "adoptTab", "releaseWorkspace"}
    BY <1>2, <1>4, <1>6, <2>1
  <2>2. CASE type = "closeTab"
    <3>1. checked = <<"assertCreated">> \o handler /\ Good(handler, dangers \ {"remove"})
      BY <1>2, <1>4, <1>6, <2>2
    <3>2. QED
      BY <1>5, <3>1, ConsAssertCreated
  <2>3. CASE type \in {"work", "handoff", "releaseTab"}
    <3>1. checked = <<"assert">> \o handler
      BY <1>6, <2>3
    <3>2. dangers \ {"work"} \subseteq left
      BY <1>2, <2>3
    <3>3. Good(handler, dangers \ {"work"})
      BY <1>4, <3>2, FewerDangers
    <3>4. QED
      BY <3>1, <3>3, ConsAssertion
  <2>4. QED
    BY <2>1, <2>2, <2>3 DEF Types
<1>8. Len(checked) \in Nat /\ Len(checked) > 1
  <2>1. CASE checked = handler
    BY <1>5, <2>1
  <2>2. CASE checked # handler
    <3>1. PICK step \in {"assert", "assertCreated"} : checked = <<step>> \o handler
      BY <1>6, <2>2
    <3>2. PICK n : n = Len(handler)
      OBVIOUS
    <3>3. handler \in Seq(Step) /\ step \in Step /\ checked \in Seq(Step)
      BY <1>4, <1>7 DEF Good, Step
    <3>4. DOMAIN checked = 1..(n + 1) /\ n \in Nat /\ n > 1
      BY <1>5, <3>1, <3>2, <3>3, ConsElements
    <3>5. Len(checked) \in Nat /\ DOMAIN checked = 1..Len(checked)
      BY <3>3
    <3>6. n + 1 \in DOMAIN checked
      BY <3>4
    <3>7. QED
      BY <3>4, <3>5, <3>6
  <2>3. QED
    BY <2>1, <2>2
<1>9. PICK all : all = Dispatch(type, s)
  OBVIOUS
<1>10. all = checked \/ all = <<"access">> \o checked
  BY <1>1, <1>6, <1>9 DEF Dispatch
<1>11. Good(all, dangers) /\ Len(all) \in Nat /\ Len(all) > 1
  <2>1. CASE all = checked
    BY <1>7, <1>8, <2>1
  <2>2. CASE all = <<"access">> \o checked
    <3>1. Good(all, dangers)
      BY <1>7, <2>2, ConsIsGood DEF Harmless, Step
    <3>2. PICK n : n = Len(checked)
      OBVIOUS
    <3>3. checked \in Seq(Step) /\ "access" \in Step /\ all \in Seq(Step)
      BY <1>7, <3>1 DEF Good, Step
    <3>4. DOMAIN all = 1..(n + 1) /\ n \in Nat /\ n > 1
      BY <1>8, <2>2, <3>2, <3>3, ConsElements
    <3>5. Len(all) \in Nat /\ DOMAIN all = 1..Len(all)
      BY <3>3
    <3>6. n + 1 \in DOMAIN all
      BY <3>4
    <3>7. QED
      BY <3>1, <3>4, <3>5, <3>6
  <2>3. QED
    BY <1>10, <2>1, <2>2
<1>12. Skip(all) # <<>>
  <2>1. all \in Seq(Step) /\ all # <<>>
    BY <1>11 DEF Good
  <2>2. Len(Tail(all)) = Len(all) - 1
    BY <2>1
  <2>3. Tail(all) # <<>>
    BY <1>11, <2>2
  <2>4. QED
    BY <2>1, <2>3 DEF Skip
<1>13. QED
  BY <1>9, <1>11, <1>12

LEMMA BeginKeeps ==
  ASSUME IInv, NEW op \in Op, NEW type \in Offered, NEW s \in Session,
         NEW t \in Tab \cup {NoTab}, NEW close \in BOOLEAN, Begin(op, type, s, t, close)
  PROVE  IInv'
<1>1. type \in Types
  BY OwnershipAssumption DEF Types
<1>2. PICK list : list = Skip(Dispatch(type, s))
  OBVIOUS
<1>3. PICK c : c = CommandOf(type, s, t)
  OBVIOUS
<1>4. c \in Commands
  BY <1>3 DEF CommandOf, Commands, Table
<1>5. PICK d : d = [type |-> type, todo |-> list, session |-> s, tab |-> t,
                    command |-> c, close |-> close, survey |-> {},
                    partial |-> FALSE, gate |-> TRUE, granted |-> access]
  OBVIOUS
<1>6. cmd' = [cmd EXCEPT ![op] = d]
  BY <1>2, <1>3, <1>5 DEF Begin
<1>7. /\ d.todo = list /\ d.tab = t /\ d.granted = access /\ d.survey = {}
  BY <1>5
<1>8. t = NoTab <=> type \in {"openTab", "releaseWorkspace"}
  BY DEF Begin
<1>9. Dangers(d) \in SUBSET {"work", "remove", "remember"} /\ (type = "openTab" => Dangers(d) = {})
  BY <1>7, <1>8, OwnershipAssumption, LaneAssumption DEF Dangers
<1>10. Good(Dispatch(type, s), Dangers(d)) /\ list # <<>>
  BY <1>1, <1>2, <1>9, DispatchIsGood
<1>11. Good(list, Dangers(d))
  BY <1>2, <1>10, SkipIsGood
<1>12. d \in Handlers
  BY <1>1, <1>4, <1>5, <1>11 DEF Handlers, Good, IInv, SettingsInv
<1>13. CmdInv'
  BY <1>6, <1>7, <1>10, <1>11, <1>12, CmdSet DEF CmdOk, Fits, IInv, Begin
<1>14. SessionInv'
  BY DEF IInv, SessionInv, Begin
<1>15. QED
  BY <1>13, <1>14, SameOwned, SameChrome, SameSettings, SameFaults DEF IInv, Begin

-----------------------------------------------------------------------------
(* The steps of dispatch().                                                  *)

(* A step that is ready has nothing before it to keep it away.               *)
LEMMA HeadIsSafe ==
  ASSUME CmdInv, NEW op \in Op, NEW step, At(op, step)
  PROVE  step \notin Dangers(cmd[op])
<1>1. PICK list : list = cmd[op].todo
  OBVIOUS
<1>2. list \in Seq(Step) /\ list # <<>> /\ Guarded(list, Dangers(cmd[op])) /\ Head(list) = step
  BY <1>1 DEF At, CmdInv, CmdOk, Fits, Good
<1>3. DOMAIN list = 1..Len(list) /\ Len(list) \in Nat /\ Len(list) > 0 /\ list[1] = step
  BY <1>2, TailElements
<1>4. 1 \in DOMAIN list /\ ~\E j \in DOMAIN list : j < 1
  BY <1>3
<1>5. QED
  BY <1>2, <1>3, <1>4 DEF Guarded

LEMMA OnlyCommands ==
  ASSUME IInv, CmdInv', UNCHANGED <<chromeVars, owned, access, session, update, faultVars>>
  PROVE  IInv'
BY SameOwned, SameChrome, SameSettings, SameSession, SameFaults DEF IInv

LEMMA OnlyRecords ==
  ASSUME IInv, CmdInv', OwnedInv', UNCHANGED <<chromeVars, access, session, update, faultVars>>
  PROVE  IInv'
BY SameChrome, SameSettings, SameSession, SameFaults DEF IInv

(* What is left after the first step, if it guards no danger that is left.   *)
LEMMA RestIsGood ==
  ASSUME CmdInv, NEW op \in Op, NEW step, At(op, step), NEW dangers,
         dangers \subseteq Dangers(cmd[op]), \A danger \in dangers : ~Keeps(step, danger)
  PROVE  Good(Rest(op), dangers)
<1>1. Busy(op) /\ CmdOk(cmd[op]) /\ Head(cmd[op].todo) = step
  BY DEF At, CmdInv
<1>2. PICK list : list = cmd[op].todo
  OBVIOUS
<1>3. Good(list, dangers) /\ list # <<>> /\ Head(list) = step
  BY <1>1, <1>2, FewerDangers DEF CmdOk, Fits
<1>4. Good(Tail(list), dangers)
  BY <1>3, TailIsGood
<1>5. QED
  BY <1>2, <1>4 DEF Rest

LEMMA TimeoutKeeps ==
  ASSUME IInv, NEW op \in Op, Timeout(op)
  PROVE  IInv'
<1>1. CmdInv /\ Busy(op) /\ CmdOk(cmd[op]) /\ (access => cmd[op].granted) /\ access' = access
  BY DEF IInv, CmdInv, Timeout
<1>2. PICK d : d = [cmd[op] EXCEPT !.gate = FALSE]
  OBVIOUS
<1>3. cmd' = [cmd EXCEPT ![op] = d]
  BY <1>2 DEF Timeout
<1>4. d \in Handlers
  BY <1>1, <1>2 DEF CmdOk, Fits, Handlers
<1>5. /\ d.todo = cmd[op].todo /\ d.tab = cmd[op].tab /\ d.granted = cmd[op].granted
      /\ d.survey = cmd[op].survey
  BY <1>1, <1>2 DEF CmdOk, Fits, Handlers
<1>6. Dangers(d) = Dangers(cmd[op])
  BY <1>5 DEF Dangers
<1>7. CmdOk(d)
  BY <1>1, <1>4, <1>5, <1>6 DEF CmdOk, Fits
<1>8. CmdInv'
  BY <1>1, <1>3, <1>5, <1>7, CmdSet
<1>9. SessionInv'
  BY DEF IInv, SessionInv, Timeout
<1>10. FaultInv'
  BY OwnershipAssumption DEF IInv, FaultInv, Timeout
<1>11. QED
  BY <1>8, <1>9, <1>10, SameOwned, SameChrome, SameSettings DEF IInv, Timeout

LEMMA CheckAccessKeeps ==
  ASSUME IInv, NEW op \in Op, CheckAccess(op)
  PROVE  IInv'
<1>1. CmdInv /\ At(op, "access") /\ Busy(op) /\ access' = access
  BY DEF IInv, CheckAccess, At
<1>2. CASE access
  <2>1. \A danger \in Dangers(cmd[op]) : ~Keeps("access", danger)
    BY DEF Keeps, Assertion
  <2>2. CmdInv'
    BY <1>1, <1>2, <2>1, ProceedKeeps DEF CheckAccess
  <2>3. QED
    BY <2>2, OnlyCommands DEF CheckAccess
<1>3. CASE ~access
  <2>1. CmdInv'
    BY <1>1, <1>3, ThrowKeeps DEF CheckAccess
  <2>2. QED
    BY <2>1, OnlyCommands DEF CheckAccess
<1>4. QED
  BY <1>2, <1>3

LEMMA AssertKeeps ==
  ASSUME IInv, NEW op \in Op, Assert(op)
  PROVE  IInv'
<1>1. PICK step \in {"assert", "assertCreated"} : At(op, step)
  BY DEF Assert
<1>2. CmdInv /\ Busy(op) /\ Fits(cmd[op]) /\ access' = access /\ access \in BOOLEAN
  BY <1>1 DEF IInv, CmdInv, CmdOk, Assert, At, SettingsInv
<1>3. PICK t, check : t = cmd[op].tab
                      /\ check = IF owned[t].kind = "adopted" THEN "verifyAdopted" ELSE "verify"
  OBVIOUS
<1>4. PICK d : d = [cmd[op] EXCEPT !.todo = <<check>> \o Rest(op), !.granted = access]
  OBVIOUS
<1>5. CASE Throw(op)
  <2>1. CmdInv'
    BY <1>2, <1>5, ThrowKeeps
  <2>2. QED
    BY <2>1, OnlyCommands DEF Assert
<1>6. CASE /\ Owns(cmd[op].session, t) /\ (At(op, "assertCreated") => owned[t].kind \in Created)
           /\ Become(op, d)
  <2>1. PICK list : list = <<check>> \o Rest(op)
    OBVIOUS
  <2>2. d.todo = list /\ d.tab = t /\ d.granted = access /\ d.survey = cmd[op].survey
    BY <1>2, <1>3, <1>4, <2>1 DEF Fits, Handlers
  <2>3. Good(list, Dangers(d))
    <3>1. CASE t \notin UserTab
      <4>1. Dangers(d) = {}
        BY <2>2, <3>1 DEF Dangers
      <4>2. Good(Rest(op), {})
        BY <1>1, <1>2, RestIsGood
      <4>3. QED
        BY <1>3, <2>1, <4>1, <4>2, ConsIsGood DEF Harmless, Step
    <3>2. CASE t \in UserTab
      <4>1. owned[t].kind = "adopted"
        <5>1. t \in Tab /\ owned[t] # NoRecord /\ owned[t].kind # "released"
          BY <1>6, <3>2, OwnershipAssumption DEF Owns
        <5>2. owned[t] \in Records /\ owned[t].kind \notin Created
          BY <3>2, <5>1 DEF IInv, OwnedInv
        <5>3. QED
          BY <5>1, <5>2 DEF Records, Kinds
      <4>2. step = "assert" /\ check = "verifyAdopted"
        BY <1>1, <1>3, <1>6, <4>1 DEF Created
      <4>3. Good(Rest(op), {"remove", "remember"})
        <5>1. {"remove", "remember"} \subseteq Dangers(cmd[op])
          BY <1>3, <3>2 DEF Dangers
        <5>2. \A danger \in {"remove", "remember"} : ~Keeps("assert", danger)
          BY DEF Keeps
        <5>3. QED
          BY <1>1, <1>2, <4>2, <5>1, <5>2, RestIsGood
      <4>4. Dangers(d) \ {"work"} \subseteq {"remove", "remember"}
        BY DEF Dangers
      <4>5. Good(Rest(op), Dangers(d) \ {"work"})
        BY <4>3, <4>4, FewerDangers
      <4>6. QED
        BY <2>1, <4>2, <4>5, ConsAssertion, DangersType
    <3>3. QED
      BY <3>1, <3>2
  <2>4. d \in Handlers
    BY <1>2, <1>4, <2>1, <2>3 DEF Fits, Handlers, Good
  <2>5. Fits(d)
    BY <1>2, <2>2, <2>3, <2>4 DEF Fits
  <2>6. CmdInv'
    BY <1>2, <1>6, <2>2, <2>5, BecomeKeeps
  <2>7. QED
    BY <2>6, OnlyCommands DEF Assert
<1>7. QED
  BY <1>3, <1>4, <1>5, <1>6 DEF Assert

LEMMA VerifyKeeps ==
  ASSUME IInv, NEW op \in Op, Verify(op)
  PROVE  IInv'
<1>1. CmdInv /\ access' = access
  BY DEF IInv, Verify
<1>2. CASE /\ At(op, "verifyAdopted")
           /\ Goto(op, <<IF access THEN "verify" ELSE "revoke">> \o Rest(op))
  <2>1. Busy(op) /\ (access => cmd[op].granted)
    BY <1>1, <1>2 DEF At, CmdInv
  <2>2. CASE access
    <3>1. \A danger \in Dangers(cmd[op]) : ~Keeps("verifyAdopted", danger)
      BY <2>1, <2>2 DEF Dangers, Keeps
    <3>2. Good(Rest(op), Dangers(cmd[op]))
      BY <1>1, <1>2, <3>1, RestIsGood
    <3>3. Good(<<"verify">> \o Rest(op), Dangers(cmd[op]))
      BY <3>2, ConsIsGood, DangersType DEF Harmless, Step
    <3>4. Goto(op, <<"verify">> \o Rest(op))
      BY <1>2, <2>2
    <3>5. QED
      BY <1>1, <2>1, <3>3, <3>4, GotoKeeps, OnlyCommands DEF Verify
  <2>3. CASE ~access
    <3>1. Good(Rest(op), Dangers(cmd[op]) \ {"work"})
      <4>1. \A danger \in Dangers(cmd[op]) \ {"work"} : ~Keeps("verifyAdopted", danger)
        BY DEF Keeps
      <4>2. QED
        BY <1>1, <1>2, <4>1, RestIsGood
    <3>2. Good(<<"revoke">> \o Rest(op), Dangers(cmd[op]))
      BY <3>1, ConsAssertion, DangersType
    <3>3. Goto(op, <<"revoke">> \o Rest(op))
      BY <1>2, <2>3
    <3>4. QED
      BY <1>1, <2>1, <3>2, <3>3, GotoKeeps, OnlyCommands DEF Verify
  <2>4. QED
    BY <2>2, <2>3
<1>3. CASE /\ At(op, "verify")
           /\ IF cmd[op].tab \in tabs THEN Proceed(op)
              ELSE Goto(op, <<"vanished">> \o Rest(op))
  <2>1. Busy(op)
    BY <1>3 DEF At
  <2>2. \A danger \in Dangers(cmd[op]) : ~Keeps("verify", danger)
    BY DEF Keeps, Assertion
  <2>3. CASE Proceed(op)
    BY <1>1, <1>3, <2>2, <2>3, ProceedKeeps, OnlyCommands DEF Verify
  <2>4. CASE Goto(op, <<"vanished">> \o Rest(op))
    <3>1. Good(Rest(op), Dangers(cmd[op]))
      BY <1>1, <1>3, <2>2, RestIsGood
    <3>2. Good(<<"vanished">> \o Rest(op), Dangers(cmd[op]))
      BY <3>1, ConsIsGood, DangersType DEF Harmless, Step
    <3>3. QED
      BY <1>1, <2>1, <2>4, <3>2, GotoKeeps, OnlyCommands DEF Verify
  <2>5. QED
    BY <1>3, <2>3, <2>4
<1>4. QED
  BY <1>2, <1>3 DEF Verify

LEMMA DeleteStepKeeps ==
  ASSUME IInv, NEW op \in Op, Delete(op)
  PROVE  IInv'
<1>1. CmdInv /\ access' = access
  BY DEF IInv, Delete
<1>2. OwnedInv'
  BY DeleteKeeps DEF IInv, Delete
<1>3. PICK step \in {"drop", "revoke", "forget", "vanished"} : At(op, step)
  BY DEF Delete
<1>4. Busy(op)
  BY <1>3 DEF At
<1>5. CmdInv'
  <2>1. CASE Throw(op)
    BY <1>1, <1>4, <2>1, ThrowKeeps
  <2>2. CASE Proceed(op) /\ step \in {"drop", "forget"}
    <3>1. \A danger \in Dangers(cmd[op]) : ~Keeps(step, danger)
      BY <2>2 DEF Keeps, Assertion
    <3>2. QED
      BY <1>1, <1>3, <2>2, <3>1, ProceedKeeps
  <2>3. QED
    BY <1>3, <2>1, <2>2 DEF Delete
<1>6. QED
  BY <1>2, <1>5, OnlyRecords DEF Delete

LEMMA DropFailsKeeps ==
  ASSUME IInv, NEW op \in Op, DropFails(op)
  PROVE  IInv'
<1>1. CmdInv /\ access' = access /\ At(op, "drop")
  BY DEF IInv, DropFails
<1>2. OwnedInv'
  BY DeleteKeeps, SameOwned DEF IInv, DropFails
<1>3. Fits(cmd[op]) /\ (access => cmd[op].granted)
  BY <1>1 DEF CmdInv, CmdOk, At
<1>4. PICK rest : rest = Rest(op)
  OBVIOUS
<1>5. Good(rest, Dangers(cmd[op]))
  <2>1. \A danger \in Dangers(cmd[op]) : ~Keeps("drop", danger)
    BY DEF Keeps, Assertion
  <2>2. QED
    BY <1>1, <1>4, <2>1, RestIsGood
<1>6. PICK d : d = [cmd[op] EXCEPT !.todo = rest, !.partial = TRUE]
  OBVIOUS
<1>7. Become(op, d)
  BY <1>4, <1>6 DEF DropFails
<1>8. d.todo = rest /\ d.tab = cmd[op].tab /\ d.granted = cmd[op].granted /\ d.survey = cmd[op].survey
  BY <1>3, <1>6 DEF Fits, Handlers
<1>9. Dangers(d) = Dangers(cmd[op])
  BY <1>8 DEF Dangers
<1>10. d \in Handlers
  BY <1>3, <1>5, <1>6 DEF Fits, Handlers, Good
<1>11. Fits(d)
  BY <1>3, <1>5, <1>8, <1>9, <1>10 DEF Fits
<1>12. CmdInv'
  BY <1>1, <1>3, <1>7, <1>8, <1>11, BecomeKeeps
<1>13. QED
  BY <1>2, <1>12, OnlyRecords DEF DropFails

-----------------------------------------------------------------------------
(* The steps of the handlers.                                                *)

LEMMA WorkKeeps ==
  ASSUME IInv, NEW op \in Op, Work(op)
  PROVE  IInv'
<1>1. CmdInv /\ access' = access /\ At(op, "work") /\ Proceed(op)
  BY DEF IInv, Work
<1>2. \A danger \in Dangers(cmd[op]) : ~Keeps("work", danger)
  BY DEF Keeps, Assertion
<1>3. CmdInv'
  BY <1>1, <1>2, ProceedKeeps
<1>4. QED
  BY <1>3, OnlyCommands DEF Work

LEMMA KeepKeeps ==
  ASSUME IInv, NEW op \in Op, Keep(op)
  PROVE  IInv'
<1>1. CmdInv /\ access' = access /\ At(op, "keep") /\ Proceed(op)
  BY DEF IInv, Keep
<1>2. \A danger \in Dangers(cmd[op]) : ~Keeps("keep", danger)
  BY DEF Keeps, Assertion
<1>3. CmdInv'
  BY <1>1, <1>2, ProceedKeeps
<1>4. PICK t : t = cmd[op].tab
  OBVIOUS
<1>5. OwnedInv'
  <2>1. CASE owned' = owned
    BY <2>1, SameOwned DEF IInv
  <2>2. CASE /\ owned[t] # NoRecord
             /\ Own(t, [owned[t] EXCEPT !.kind = "released", !.previousKind = owned[t].kind])
    <3>1. PICK record : record = [owned[t] EXCEPT !.kind = "released", !.previousKind = owned[t].kind]
      OBVIOUS
    <3>2. ASSUME t \in Tab
          PROVE  /\ record \in Records /\ record.kind = "released"
                 /\ record.previousKind = owned[t].kind
      BY <2>2, <3>1, <3>2 DEF IInv, OwnedInv, Records, Kinds
    <3>3. t \in UserTab => record.kind \notin Created /\ record.previousKind \notin Created
      BY <2>2, <3>2, OwnershipAssumption DEF IInv, OwnedInv, Created
    <3>4. Own(t, record)
      BY <2>2, <3>1
    <3>5. QED
      BY <3>2, <3>3, <3>4, OwnKeeps DEF IInv
  <2>3. QED
    BY <1>4, <2>1, <2>2 DEF Keep
<1>6. QED
  BY <1>3, <1>5, OnlyRecords DEF Keep

LEMMA CreateTabKeeps ==
  ASSUME IInv, NEW op \in Op, CreateTab(op)
  PROVE  IInv'
<1>1. CmdInv /\ access' = access /\ At(op, "create")
  BY DEF IInv, CreateTab
<1>2. Fits(cmd[op]) /\ (access => cmd[op].granted)
  BY <1>1 DEF CmdInv, CmdOk, At
<1>3. PICK t \in unborn : /\ tabs' = tabs \cup {t} /\ unborn' = unborn \ {t}
                          /\ Become(op, [cmd[op] EXCEPT !.todo = Rest(op), !.tab = t])
  BY DEF CreateTab
<1>4. t \in Tab /\ t \notin UserTab
  BY <1>3, OwnershipAssumption DEF IInv, ChromeInv
<1>5. PICK rest : rest = Rest(op)
  OBVIOUS
<1>6. Good(rest, {})
  BY <1>1, <1>5, RestIsGood
<1>7. PICK d : d = [cmd[op] EXCEPT !.todo = rest, !.tab = t]
  OBVIOUS
<1>8. d.todo = rest /\ d.tab = t /\ d.granted = cmd[op].granted /\ d.survey = cmd[op].survey
  BY <1>2, <1>7 DEF Fits, Handlers
<1>9. Dangers(d) = {}
  BY <1>4, <1>8 DEF Dangers
<1>10. d \in Handlers
  BY <1>2, <1>4, <1>6, <1>7 DEF Fits, Handlers, Good
<1>11. Fits(d)
  BY <1>2, <1>6, <1>8, <1>9, <1>10 DEF Fits
<1>12. CmdInv'
  BY <1>1, <1>2, <1>3, <1>5, <1>7, <1>8, <1>11, BecomeKeeps
<1>13. ChromeInv'
  BY <1>3, <1>4 DEF IInv, ChromeInv, CreateTab
<1>14. QED
  BY <1>12, <1>13, SameOwned, SameSettings, SameSession, SameFaults DEF IInv, CreateTab

(* RecordOf *)
LEMMA RecordOfType ==
  ASSUME CmdInv, NEW op \in Op, Busy(op), NEW kind \in Kinds
  PROVE  /\ RecordOf(op, kind) \in Records
         /\ RecordOf(op, kind).kind = kind /\ RecordOf(op, kind).previousKind = "none"
<1>1. cmd[op] \in Handlers
  BY DEF CmdInv, CmdOk, Fits
<1>2. cmd[op].session \in Session /\ cmd[op].gate \in BOOLEAN
  BY <1>1 DEF Handlers
<1>3. QED
  BY <1>2 DEF RecordOf, Records

LEMMA RememberKeeps ==
  ASSUME IInv, NEW op \in Op, Remember(op)
  PROVE  IInv'
<1>1. CmdInv /\ access' = access /\ At(op, "remember") /\ Proceed(op)
  BY DEF IInv, Remember
<1>2. \A danger \in Dangers(cmd[op]) : ~Keeps("remember", danger)
  BY DEF Keeps, Assertion
<1>3. CmdInv'
  BY <1>1, <1>2, ProceedKeeps
<1>4. cmd[op].tab \notin UserTab
  <2>1. "remember" \notin Dangers(cmd[op])
    BY <1>1, HeadIsSafe
  <2>2. QED
    BY <2>1 DEF Dangers
<1>5. OwnedInv'
  <2>1. PICK record : record = RecordOf(op, "created")
    OBVIOUS
  <2>2. record \in Records
    BY <1>1, <2>1, RecordOfType DEF At, Kinds, Created
  <2>3. Own(cmd[op].tab, record)
    BY <2>1 DEF Remember
  <2>4. QED
    BY <1>4, <2>2, <2>3, OwnKeeps DEF IInv
<1>6. QED
  BY <1>3, <1>5, OnlyRecords DEF Remember

LEMMA GetTabKeeps ==
  ASSUME IInv, NEW op \in Op, GetTab(op)
  PROVE  IInv'
<1>1. CmdInv /\ access' = access /\ At(op, "tab") /\ Busy(op)
  BY DEF IInv, GetTab, At
<1>2. \A danger \in Dangers(cmd[op]) : ~Keeps("tab", danger)
  BY DEF Keeps, Assertion
<1>3. CmdInv'
  BY <1>1, <1>2, ProceedKeeps, ThrowKeeps DEF GetTab
<1>4. QED
  BY <1>3, OnlyCommands DEF GetTab

LEMMA LookKeeps ==
  ASSUME IInv, NEW op \in Op, Look(op)
  PROVE  IInv'
<1>1. CmdInv /\ access' = access /\ Busy(op)
  BY DEF IInv, Look, At
<1>2. PICK first, second : first = <<"claim", "confirm">> /\ second = <<"restore", "confirm">>
  OBVIOUS
<1>3. Good(first, Dangers(cmd[op])) /\ Good(second, Dangers(cmd[op]))
  <2>1. Dangers(cmd[op]) \in SUBSET {"work", "remove", "remember"}
    BY DangersType
  <2>2. QED
    BY <1>2, <2>1 DEF Good, Ordered, Guarded, Step
<1>4. Goto(op, first) \/ Goto(op, second) \/ Throw(op)
  BY <1>2 DEF Look
<1>5. CmdInv'
  BY <1>1, <1>3, <1>4, GotoKeeps, ThrowKeeps
<1>6. QED
  BY <1>5, OnlyCommands DEF Look

LEMMA ClaimKeeps ==
  ASSUME IInv, NEW op \in Op, Claim(op)
  PROVE  IInv'
<1>1. CmdInv /\ access' = access /\ At(op, "claim") /\ Proceed(op)
  BY DEF IInv, Claim
<1>2. \A danger \in Dangers(cmd[op]) : ~Keeps("claim", danger)
  BY DEF Keeps, Assertion
<1>3. CmdInv'
  BY <1>1, <1>2, ProceedKeeps
<1>4. OwnedInv'
  <2>1. PICK record : record = RecordOf(op, "adopted")
    OBVIOUS
  <2>2. record \in Records /\ record.kind = "adopted" /\ record.previousKind = "none"
    BY <1>1, <2>1, RecordOfType DEF At, Kinds
  <2>3. Own(cmd[op].tab, record)
    BY <2>1 DEF Claim
  <2>4. QED
    BY <2>2, <2>3, OwnKeeps DEF IInv, Created
<1>5. QED
  BY <1>3, <1>4, OnlyRecords DEF Claim

LEMMA RestoreKeeps ==
  ASSUME IInv, NEW op \in Op, Restore(op)
  PROVE  IInv'
<1>1. CmdInv /\ access' = access /\ At(op, "restore") /\ Busy(op) /\ cmd[op] \in Handlers
  BY DEF IInv, Restore, At, CmdInv, CmdOk, Fits
<1>2. \A danger \in Dangers(cmd[op]) : ~Keeps("restore", danger)
  BY DEF Keeps, Assertion
<1>3. CmdInv'
  BY <1>1, <1>2, ProceedKeeps, ThrowKeeps DEF Restore
<1>4. PICK t, kind :
        /\ t = cmd[op].tab
        /\ kind = IF owned[t].previousKind = "none" THEN "adopted" ELSE owned[t].previousKind
  OBVIOUS
<1>5. PICK record : record = [owned[t] EXCEPT !.kind = kind, !.previousKind = "none",
                                              !.late = ~cmd[op].gate]
  OBVIOUS
<1>6. OwnedInv'
  <2>1. CASE owned' = owned
    BY <2>1, SameOwned DEF IInv
  <2>2. CASE owned[t] # NoRecord /\ Own(t, record)
    <3>1. ASSUME t \in Tab
          PROVE  /\ record \in Records /\ record.kind = kind /\ record.previousKind = "none"
      <4>1. owned[t] \in Records
        BY <2>2, <3>1 DEF IInv, OwnedInv
      <4>2. kind \in Kinds /\ cmd[op].gate \in BOOLEAN
        BY <1>1, <1>4, <4>1 DEF Records, Kinds, Handlers
      <4>3. QED
        BY <1>5, <4>1, <4>2 DEF Records
    <3>2. t \in UserTab => record.kind \notin Created /\ record.previousKind \notin Created
      BY <1>4, <2>2, <3>1, OwnershipAssumption DEF IInv, OwnedInv, Created
    <3>3. QED
      BY <2>2, <3>1, <3>2, OwnKeeps DEF IInv
  <2>3. QED
    BY <1>4, <1>5, <2>1, <2>2 DEF Restore
<1>7. QED
  BY <1>3, <1>6, OnlyRecords DEF Restore

LEMMA ConfirmKeeps ==
  ASSUME IInv, NEW op \in Op, Confirm(op)
  PROVE  IInv'
<1>1. CmdInv /\ access' = access /\ At(op, "confirm") /\ Busy(op)
  BY DEF IInv, Confirm, At
<1>2. \A danger \in Dangers(cmd[op]) : ~Keeps("confirm", danger)
  BY DEF Keeps, Assertion
<1>3. Good(<<"revoke">>, Dangers(cmd[op]))
  BY OneIsGood, DangersType DEF Harmless, Step
<1>4. CmdInv'
  BY <1>1, <1>2, <1>3, ProceedKeeps, GotoKeeps DEF Confirm
<1>5. QED
  BY <1>4, OnlyCommands DEF Confirm

LEMMA SurveyKeeps ==
  ASSUME IInv, NEW op \in Op, Survey(op)
  PROVE  IInv'
<1>1. CmdInv /\ access' = access /\ At(op, "survey")
  BY DEF IInv, Survey
<1>2. Fits(cmd[op]) /\ (access => cmd[op].granted)
  BY <1>1 DEF CmdInv, CmdOk, At
<1>3. PICK rest, mine :
        /\ rest = Rest(op)
        /\ mine = {[tab |-> t, kind |-> owned[t].kind] :
                     t \in {u \in Tab : Owns(cmd[op].session, u)}}
  OBVIOUS
<1>4. Good(rest, Dangers(cmd[op]))
  <2>1. \A danger \in Dangers(cmd[op]) : ~Keeps("survey", danger)
    BY DEF Keeps, Assertion
  <2>2. QED
    BY <1>1, <1>3, <2>1, RestIsGood
<1>5. ASSUME NEW item \in mine
      PROVE  /\ item \in [tab : Tab, kind : Kinds]
             /\ item.tab \in UserTab => item.kind \notin Created
  <2>1. PICK t \in Tab : Owns(cmd[op].session, t) /\ item = [tab |-> t, kind |-> owned[t].kind]
    BY <1>3
  <2>2. owned[t] # NoRecord /\ owned[t] \in Records
    BY <2>1 DEF Owns, IInv, OwnedInv
  <2>3. owned[t].kind \in Kinds
    BY <2>2 DEF Records
  <2>4. t \in UserTab => owned[t].kind \notin Created
    BY <2>2 DEF IInv, OwnedInv
  <2>5. QED
    BY <2>1, <2>3, <2>4
<1>6. PICK d : d = [cmd[op] EXCEPT !.todo = rest, !.survey = mine]
  OBVIOUS
<1>7. Become(op, d)
  BY <1>3, <1>6 DEF Survey
<1>8. d.todo = rest /\ d.tab = cmd[op].tab /\ d.granted = cmd[op].granted /\ d.survey = mine
  BY <1>2, <1>6 DEF Fits, Handlers
<1>9. Dangers(d) = Dangers(cmd[op])
  BY <1>8 DEF Dangers
<1>10. d \in Handlers
  <2>1. mine \in SUBSET [tab : Tab, kind : Kinds] /\ rest \in Seq(Step)
    BY <1>4, <1>5 DEF Good
  <2>2. QED
    BY <1>2, <1>6, <2>1 DEF Fits, Handlers
<1>11. Fits(d)
  BY <1>4, <1>5, <1>8, <1>9, <1>10 DEF Fits
<1>12. CmdInv'
  BY <1>1, <1>2, <1>7, <1>8, <1>11, BecomeKeeps
<1>13. QED
  BY <1>12, OnlyCommands DEF Survey

LEMMA ReleaseOneIsGood ==
  ASSUME NEW closing \in BOOLEAN, NEW dangers \in SUBSET {"work", "remove", "remember"},
         closing => dangers = {}
  PROVE  Good(ReleaseOne(closing), dangers)
<1>1. CASE closing
  <2>1. PICK list : list = <<"assert", "work", "resume", "remove", "forget", "each">>
    OBVIOUS
  <2>2. Good(list, {})
    BY <2>1 DEF Good, Ordered, Guarded, Step
  <2>3. QED
    BY <1>1, <2>1, <2>2 DEF ReleaseOne
<1>2. CASE ~closing
  <2>1. PICK list : list = <<"assert", "work", "resume", "drop", "each">>
    OBVIOUS
  <2>2. Good(list, dangers)
    BY <2>1 DEF Good, Ordered, Guarded, Step, Keeps, Assertion
  <2>3. QED
    BY <1>2, <2>1, <2>2 DEF ReleaseOne
<1>3. QED
  BY <1>1, <1>2

LEMMA ReleaseNextKeeps ==
  ASSUME IInv, NEW op \in Op, ReleaseNext(op)
  PROVE  IInv'
<1>1. CmdInv /\ access' = access /\ At(op, "each")
  BY DEF IInv, ReleaseNext
<1>2. Fits(cmd[op]) /\ (access => cmd[op].granted)
  BY <1>1 DEF CmdInv, CmdOk, At
<1>3. PICK item \in cmd[op].survey :
        Become(op, [cmd[op] EXCEPT !.todo = ReleaseOne(cmd[op].close /\ item.kind \in Created),
                                   !.survey = cmd[op].survey \ {item}, !.tab = item.tab])
  BY DEF ReleaseNext
<1>4. PICK closing \in BOOLEAN : closing = (cmd[op].close /\ item.kind \in Created)
  OBVIOUS
<1>5. PICK list, left : list = ReleaseOne(closing) /\ left = cmd[op].survey \ {item}
  OBVIOUS
<1>6. PICK d : d = [cmd[op] EXCEPT !.todo = list, !.survey = left, !.tab = item.tab]
  OBVIOUS
<1>7. Become(op, d)
  <2>1. list = ReleaseOne(cmd[op].close /\ item.kind \in Created)
    BY <1>4, <1>5
  <2>2. QED
    BY <1>3, <1>5, <1>6, <2>1
<1>8. d.todo = list /\ d.tab = item.tab /\ d.granted = cmd[op].granted /\ d.survey = left
  BY <1>2, <1>6 DEF Fits, Handlers
<1>9. item.tab \in Tab /\ left \in SUBSET [tab : Tab, kind : Kinds]
  BY <1>2, <1>5 DEF Fits, Handlers
<1>10. item.tab \in UserTab => item.kind \notin Created
  BY <1>2 DEF Fits
<1>11. closing => Dangers(d) = {}
  BY <1>4, <1>8, <1>10 DEF Dangers
<1>12. Good(list, Dangers(d))
  BY <1>5, <1>11, ReleaseOneIsGood, DangersType
<1>13. d \in Handlers
  BY <1>2, <1>6, <1>9, <1>12 DEF Fits, Handlers, Good
<1>14. Fits(d)
  BY <1>2, <1>5, <1>8, <1>12, <1>13 DEF Fits
<1>15. CmdInv'
  BY <1>1, <1>2, <1>7, <1>8, <1>14, BecomeKeeps
<1>16. QED
  BY <1>15, OnlyCommands DEF ReleaseNext

LEMMA ReleasedKeeps ==
  ASSUME IInv, NEW op \in Op, Released(op)
  PROVE  IInv'
<1>1. CmdInv /\ access' = access /\ At(op, "each") /\ Proceed(op)
  BY DEF IInv, Released
<1>2. \A danger \in Dangers(cmd[op]) : ~Keeps("each", danger)
  BY DEF Keeps, Assertion
<1>3. CmdInv'
  BY <1>1, <1>2, ProceedKeeps
<1>4. SessionInv'
  BY DEF IInv, SessionInv, Released
<1>5. QED
  BY <1>3, <1>4, SameOwned, SameChrome, SameSettings, SameFaults DEF IInv, Released

LEMMA RemoveTabKeeps ==
  ASSUME IInv, NEW op \in Op, RemoveTab(op)
  PROVE  IInv'
<1>1. CmdInv /\ access' = access /\ At(op, "remove") /\ Busy(op)
  BY DEF IInv, RemoveTab, At
<1>2. Fits(cmd[op]) /\ (access => cmd[op].granted)
  BY <1>1 DEF CmdInv, CmdOk
<1>3. ChromeInv'
  BY DEF IInv, ChromeInv, RemoveTab
<1>4. \A danger \in Dangers(cmd[op]) : ~Keeps("remove", danger)
  BY DEF Keeps, Assertion
<1>5. PICK list : list = <<"each">>
  OBVIOUS
<1>6. PICK d : d = [cmd[op] EXCEPT !.todo = list, !.partial = TRUE]
  OBVIOUS
<1>7. CASE Become(op, d)
  <2>1. d.todo = list /\ d.tab = cmd[op].tab /\ d.granted = cmd[op].granted /\ d.survey = cmd[op].survey
    BY <1>2, <1>6 DEF Fits, Handlers
  <2>2. Dangers(d) = Dangers(cmd[op])
    BY <2>1 DEF Dangers
  <2>3. Good(list, Dangers(d))
    BY <1>5, OneIsGood, DangersType DEF Harmless, Step
  <2>4. d \in Handlers
    BY <1>2, <1>6, <2>3 DEF Fits, Handlers, Good
  <2>5. Fits(d)
    BY <1>2, <2>1, <2>3, <2>4 DEF Fits
  <2>6. CmdInv'
    BY <1>1, <1>2, <1>7, <2>1, <2>5, BecomeKeeps
  <2>7. QED
    BY <1>3, <2>6, SameOwned, SameSettings, SameSession, SameFaults DEF IInv, RemoveTab
<1>8. CASE Proceed(op)
  <2>1. CmdInv'
    BY <1>1, <1>4, <1>8, ProceedKeeps
  <2>2. QED
    BY <1>3, <2>1, SameOwned, SameSettings, SameSession, SameFaults DEF IInv, RemoveTab
<1>9. CASE Throw(op)
  <2>1. CmdInv'
    BY <1>1, <1>9, ThrowKeeps
  <2>2. QED
    BY <1>3, <2>1, SameOwned, SameSettings, SameSession, SameFaults DEF IInv, RemoveTab
<1>10. QED
  BY <1>5, <1>6, <1>7, <1>8, <1>9 DEF RemoveTab

-----------------------------------------------------------------------------
(* Chrome's events, the settings and the death of the worker.                *)

LEMMA OpenChildKeeps ==
  ASSUME IInv, NEW opener \in Tab, NEW t \in Tab, OpenChild(opener, t)
  PROVE  IInv'
<1>1. t \in unborn /\ t \notin UserTab
  BY DEF OpenChild, IInv, ChromeInv
<1>2. ChromeInv'
  <2>1. /\ tabs' \subseteq Tab \ unborn' /\ unborn' \subseteq Tab \ UserTab
        /\ gone' \subseteq Tab \ tabs' /\ gone' \cap unborn' = {}
    BY <1>1 DEF OpenChild, IInv, ChromeInv
  <2>2. child' \in [Tab -> Child] /\ \A u \in UserTab : child'[u] = NoHandler
    BY <1>1, OwnershipAssumption DEF OpenChild, IInv, ChromeInv, Child
  <2>3. QED
    BY <2>1, <2>2 DEF ChromeInv
<1>3. QED
  BY <1>2, SameCmd, SameOwned, SameSettings, SameSession, SameFaults DEF IInv, OpenChild

LEMMA ChildLooksKeeps ==
  ASSUME IInv, NEW t \in Tab, ChildLooks(t)
  PROVE  IInv'
<1>1. child[t] \in [step : {"look"}, opener : Tab]
  BY DEF ChildLooks, IInv, ChromeInv, Child, NoHandler
<1>2. PICK record : record = owned[child[t].opener]
  OBVIOUS
<1>3. record = NoRecord \/ record.session \in Session
  BY <1>1, <1>2 DEF IInv, OwnedInv, Records
<1>4. PICK handler :
        handler = IF record = NoRecord \/ record.kind = "released" THEN NoHandler
                  ELSE [step |-> "remember", session |-> record.session]
  OBVIOUS
<1>5. handler \in Child
  BY <1>3, <1>4 DEF Child
<1>6. child' = [child EXCEPT ![t] = handler]
  BY <1>2, <1>4 DEF ChildLooks
<1>7. t \notin UserTab
  BY <1>1 DEF IInv, ChromeInv, NoHandler
<1>8. ChromeInv'
  BY <1>5, <1>6, <1>7, OwnershipAssumption DEF IInv, ChromeInv, ChildLooks
<1>9. QED
  BY <1>8, SameCmd, SameOwned, SameSettings, SameSession, SameFaults DEF IInv, ChildLooks

LEMMA ChildRememberedKeeps ==
  ASSUME IInv, NEW t \in Tab, ChildRemembered(t)
  PROVE  IInv'
<1>1. child[t] \in [step : {"remember"}, session : Session]
  BY DEF ChildRemembered, IInv, ChromeInv, Child, NoHandler
<1>2. t \notin UserTab
  BY <1>1 DEF IInv, ChromeInv, NoHandler
<1>3. OwnedInv'
  <2>1. PICK record :
          record = [session |-> child[t].session, kind |-> "created-child",
                    previousKind |-> "none", late |-> session[child[t].session] # "active"]
    OBVIOUS
  <2>2. record \in Records
    BY <1>1, <2>1 DEF Records, Kinds, Created
  <2>3. Own(t, record)
    BY <2>1 DEF ChildRemembered
  <2>4. QED
    BY <1>2, <2>2, <2>3, OwnKeeps DEF IInv
<1>4. ChromeInv'
  BY OwnershipAssumption DEF IInv, ChromeInv, ChildRemembered, Child
<1>5. QED
  BY <1>3, <1>4, SameCmd, SameSettings, SameSession, SameFaults DEF IInv, ChildRemembered

LEMMA ChromeEventKeeps ==
  ASSUME IInv, NEW t \in Tab, ChromeEvent(t)
  PROVE  IInv'
<1>1. CASE \E opener \in Tab : OpenChild(opener, t)
  BY <1>1, OpenChildKeeps
<1>2. CASE ChildLooks(t)
  BY <1>2, ChildLooksKeeps
<1>3. CASE ChildRemembered(t)
  BY <1>3, ChildRememberedKeeps
<1>4. CASE UserCloses(t)
  <2>1. ChromeInv'
    BY <1>4 DEF IInv, ChromeInv, UserCloses
  <2>2. QED
    BY <1>4, <2>1, SameCmd, SameOwned, SameSettings, SameSession, SameFaults DEF IInv, UserCloses
<1>5. CASE Forgotten(t)
  <2>1. ChromeInv'
    BY <1>5 DEF IInv, ChromeInv, Forgotten
  <2>2. OwnedInv'
    BY <1>5, DeleteKeeps DEF IInv, Forgotten
  <2>3. QED
    BY <1>5, <2>1, <2>2, SameCmd, SameSettings, SameSession, SameFaults DEF IInv, Forgotten
<1>6. QED
  BY <1>1, <1>2, <1>3, <1>4, <1>5 DEF ChromeEvent

LEMMA WriteSettingsKeeps ==
  ASSUME IInv, NEW u \in Updater, WriteSettings(u)
  PROVE  IInv'
<1>1. update[u] \in [step : {"write"}, patch : {"enable", "disable", "trust"}, current : BOOLEAN]
  BY DEF WriteSettings, IInv, SettingsInv, Update, NoUpdate
<1>2. access' \in BOOLEAN
  BY <1>1 DEF WriteSettings
<1>3. SettingsInv'
  <2>1. PICK next : next = IF update[u].current /\ ~access' THEN [step |-> "survey"] ELSE NoUpdate
    OBVIOUS
  <2>2. update' = [update EXCEPT ![u] = next] /\ next \in Update
    BY <2>1 DEF WriteSettings, Update
  <2>3. QED
    BY <1>2, <2>2 DEF IInv, SettingsInv
<1>4. CmdInv'
  <2>1. cmd' = [op \in Op |-> IF Busy(op) /\ access' THEN [cmd[op] EXCEPT !.granted = TRUE]
                              ELSE cmd[op]]
    BY DEF WriteSettings
  <2>2. ASSUME NEW op \in Op
        PROVE  \/ cmd'[op] = Idle
               \/ CmdOk(cmd'[op]) /\ (access' => cmd'[op].granted)
    <3>1. CASE Busy(op) /\ access'
      <4>1. CmdOk(cmd[op]) /\ cmd[op] \in Handlers
        BY <3>1 DEF IInv, CmdInv, CmdOk, Fits
      <4>2. PICK d : d = [cmd[op] EXCEPT !.granted = TRUE]
        OBVIOUS
      <4>3. d \in Handlers
        BY <4>1, <4>2 DEF Handlers
      <4>4. /\ d.todo = cmd[op].todo /\ d.tab = cmd[op].tab /\ d.granted = TRUE
            /\ d.survey = cmd[op].survey
        BY <4>1, <4>2 DEF Handlers
      <4>5. Dangers(d) \subseteq Dangers(cmd[op])
        BY <4>4 DEF Dangers
      <4>6. Good(d.todo, Dangers(d))
        BY <4>1, <4>4, <4>5, FewerDangers DEF CmdOk, Fits
      <4>7. CmdOk(d)
        BY <4>1, <4>3, <4>4, <4>6 DEF CmdOk, Fits
      <4>8. cmd'[op] = d
        BY <2>1, <3>1, <4>2
      <4>9. QED
        BY <4>4, <4>7, <4>8
    <3>2. CASE ~(Busy(op) /\ access')
      <4>1. cmd'[op] = cmd[op]
        BY <2>1, <3>2
      <4>2. Busy(op) => CmdOk(cmd[op])
        BY DEF IInv, CmdInv
      <4>3. QED
        BY <3>2, <4>1, <4>2 DEF Busy
    <3>3. QED
      BY <3>1, <3>2
  <2>3. cmd' \in [Op -> Handlers \cup {Idle}]
    BY <2>1, <2>2 DEF CmdOk, Fits
  <2>4. QED
    BY <2>2, <2>3 DEF CmdInv, Busy
<1>5. QED
  BY <1>3, <1>4, SameOwned, SameChrome, SameSession, SameFaults DEF IInv, WriteSettings

LEMMA SettingsStepKeeps ==
  ASSUME IInv, NEW u \in Updater, SettingsStep(u)
  PROVE  IInv'
<1>1. CASE \E patch \in Patches[u] : BeginUpdate(u, patch)
  <2>1. PICK patch \in Patches[u] : BeginUpdate(u, patch)
    BY <1>1
  <2>2. patch \in {"enable", "disable", "trust"}
    BY <2>1, OwnershipAssumption DEF Patches
  <2>3. SettingsInv'
    BY <2>1, <2>2 DEF IInv, SettingsInv, Update, BeginUpdate
  <2>4. QED
    BY <2>1, <2>3, SameCmd, SameOwned, SameChrome, SameSession, SameFaults DEF IInv, BeginUpdate
<1>2. CASE WriteSettings(u)
  BY <1>2, WriteSettingsKeeps
<1>3. CASE SurveyAdopted(u)
  <2>1. PICK adopted : adopted = {t \in Tab : owned[t] # NoRecord /\ owned[t].kind = "adopted"}
    OBVIOUS
  <2>2. /\ update' = [update EXCEPT ![u] = [step |-> "release", tabs |-> adopted]]
        /\ adopted \in SUBSET Tab
    BY <1>3, <2>1 DEF SurveyAdopted
  <2>3. [step |-> "release", tabs |-> adopted] \in Update
    BY <2>2 DEF Update
  <2>4. SettingsInv'
    BY <1>3, <2>2, <2>3 DEF IInv, SettingsInv, SurveyAdopted
  <2>5. QED
    BY <1>3, <2>4, SameCmd, SameOwned, SameChrome, SameSession, SameFaults DEF IInv, SurveyAdopted
<1>4. CASE ReleaseAdopted(u)
  <2>1. update[u] \in [step : {"release"}, tabs : SUBSET Tab]
    BY <1>4 DEF ReleaseAdopted, IInv, SettingsInv, Update, NoUpdate
  <2>2. CmdInv'
    BY <1>4, SameCmd DEF IInv, ReleaseAdopted
  <2>3. CASE \E t \in update[u].tabs :
               Own(t, NoRecord) /\ update' = [update EXCEPT ![u].tabs = @ \ {t}]
    <3>1. PICK t \in update[u].tabs :
            Own(t, NoRecord) /\ update' = [update EXCEPT ![u].tabs = @ \ {t}]
      BY <2>3
    <3>2. PICK next : next = [update[u] EXCEPT !.tabs = update[u].tabs \ {t}]
      OBVIOUS
    <3>3. next \in Update /\ update' = [update EXCEPT ![u] = next]
      BY <2>1, <3>1, <3>2 DEF Update
    <3>4. SettingsInv'
      BY <1>4, <3>3 DEF IInv, SettingsInv, ReleaseAdopted
    <3>5. OwnedInv'
      BY <3>1, DeleteKeeps DEF IInv
    <3>6. QED
      BY <1>4, <2>2, <3>4, <3>5, SameChrome, SameSession, SameFaults DEF IInv, ReleaseAdopted
  <2>4. CASE update' = [update EXCEPT ![u] = NoUpdate] /\ owned' = owned
    <3>1. SettingsInv'
      BY <1>4, <2>4 DEF IInv, SettingsInv, ReleaseAdopted, Update
    <3>2. QED
      BY <1>4, <2>2, <2>4, <3>1, SameOwned, SameChrome, SameSession, SameFaults
         DEF IInv, ReleaseAdopted
  <2>5. QED
    BY <1>4, <2>3, <2>4 DEF ReleaseAdopted
<1>5. QED
  BY <1>1, <1>2, <1>3, <1>4 DEF SettingsStep

LEMMA WorkerDiesKeeps ==
  ASSUME IInv, WorkerDies
  PROVE  IInv'
<1>1. CmdInv'
  BY DEF WorkerDies, CmdInv, Busy
<1>2. ChromeInv'
  BY OwnershipAssumption DEF WorkerDies, IInv, ChromeInv, Child
<1>3. SettingsInv'
  BY DEF WorkerDies, IInv, SettingsInv, Update
<1>4. SessionInv'
  BY DEF WorkerDies, IInv, SessionInv
<1>5. FaultInv'
  BY OwnershipAssumption DEF WorkerDies, IInv, FaultInv
<1>6. QED
  BY <1>1, <1>2, <1>3, <1>4, <1>5, SameOwned DEF IInv, WorkerDies

-----------------------------------------------------------------------------
LEMMA DispatchStepKeeps ==
  ASSUME IInv, NEW op \in Op, DispatchStep(op)
  PROVE  IInv'
BY TimeoutKeeps, CheckAccessKeeps, AssertKeeps, VerifyKeeps, DeleteStepKeeps, DropFailsKeeps
   DEF DispatchStep

LEMMA HandlerStepKeeps ==
  ASSUME IInv, NEW op \in Op, HandlerStep(op)
  PROVE  IInv'
BY WorkKeeps, KeepKeeps, CreateTabKeeps, RememberKeeps, GetTabKeeps, LookKeeps, ClaimKeeps,
   RestoreKeeps, ConfirmKeeps, SurveyKeeps, ReleaseNextKeeps, ReleasedKeeps, RemoveTabKeeps
   DEF HandlerStep

LEMMA NextIInv == IInv /\ [Next]_vars => IInv'
<1> SUFFICES ASSUME IInv, [Next]_vars PROVE IInv'
  OBVIOUS
<1>1. ASSUME NEW op \in Op, NEW type \in Offered, NEW s \in Session,
             NEW t \in Tab \cup {NoTab}, NEW close \in BOOLEAN, Begin(op, type, s, t, close)
      PROVE  IInv'
  BY <1>1, BeginKeeps
<1>2. ASSUME NEW op \in Op, DispatchStep(op) \/ HandlerStep(op) PROVE IInv'
  BY <1>2, DispatchStepKeeps, HandlerStepKeeps
<1>3. ASSUME NEW t \in Tab, ChromeEvent(t) PROVE IInv'
  BY <1>3, ChromeEventKeeps
<1>4. ASSUME NEW u \in Updater, SettingsStep(u) PROVE IInv'
  BY <1>4, SettingsStepKeeps
<1>5. CASE WorkerDies
  BY <1>5, WorkerDiesKeeps
<1>6. CASE UNCHANGED vars
  BY <1>6, SameCmd, SameOwned, SameChrome, SameSettings, SameSession, SameFaults
     DEF IInv, vars, chromeVars, faultVars
<1>7. QED
  BY <1>1, <1>2, <1>3, <1>4, <1>5, <1>6 DEF Next

(* The invariant holds in every behaviour.                                   *)
THEOREM Invariance == Spec => []IInv
BY InitIInv, NextIInv, PTL DEF Spec

(* Type correctness: every record, command and session is what the code      *)
(* takes it for, and a tab that is gone is not open.                         *)
THEOREM TypeCorrect == Spec => []TypeOK
<1>1. IInv => TypeOK
  <2> SUFFICES ASSUME IInv PROVE TypeOK
    OBVIOUS
  <2>1. \A op \in Op : Busy(op) =>
          /\ cmd[op].session \in Session
          /\ cmd[op].todo # <<>>
          /\ cmd[op].tab \in Tab \cup {NoTab}
    BY DEF IInv, CmdInv, CmdOk, Fits, Handlers
  <2>2. QED
    BY <2>1 DEF IInv, OwnedInv, ChromeInv, SettingsInv, SessionInv, FaultInv, TypeOK
<1>2. QED
  BY <1>1, Invariance, PTL

(* No command is ever about to close a tab that the user had open, however   *)
(* adoption, handoff, release, timeouts and deaths of the worker follow one  *)
(* another.                                                                  *)
THEOREM UserTabsAreKept == Spec => []PreservesUserTabs
<1>1. IInv => PreservesUserTabs
  <2> SUFFICES ASSUME IInv, NEW op \in Op, At(op, "remove") PROVE cmd[op].tab \notin UserTab
    BY DEF PreservesUserTabs
  <2>1. "remove" \notin Dangers(cmd[op])
    BY HeadIsSafe DEF IInv
  <2>2. QED
    BY <2>1 DEF Dangers
<1>2. QED
  BY <1>1, Invariance, PTL

(* The page of a tab the user had is touched only by a command that found    *)
(* the access setting on when it last looked up the owner, or later.         *)
THEOREM WorkNeedsAccess == Spec => []NoWorkWithoutAccess
<1>1. IInv => NoWorkWithoutAccess
  <2> SUFFICES ASSUME IInv, NEW op \in Op, At(op, "work"), cmd[op].tab \in UserTab
               PROVE  cmd[op].granted
    BY DEF NoWorkWithoutAccess
  <2>1. "work" \notin Dangers(cmd[op])
    BY HeadIsSafe DEF IInv
  <2>2. QED
    BY <2>1 DEF Dangers
<1>2. QED
  BY <1>1, Invariance, PTL

-----------------------------------------------------------------------------
(* What a handler may have left to do.                                       *)

Checks == {"assert", "verify", "verifyAdopted", "revoke", "vanished"}

AdoptPlans ==
  {<<>>, <<"look">>, <<"tab", "look">>, <<"access", "tab", "look">>,
   <<"handler", "access", "tab", "look">>, <<"access", "handler", "access", "tab", "look">>,
   <<"claim", "confirm">>, <<"restore", "confirm">>, <<"confirm">>, <<"revoke">>}

(* A release that still owes the deletion of the record of its tab.          *)
Owing ==
  {<<"drop", "each">>, <<"resume", "drop", "each">>, <<"work", "resume", "drop", "each">>,
   <<"forget", "each">>, <<"remove", "forget", "each">>, <<"resume", "remove", "forget", "each">>,
   <<"work", "resume", "remove", "forget", "each">>}
  \cup {<<check, "work", "resume", "drop", "each">> : check \in Checks}
  \cup {<<check, "work", "resume", "remove", "forget", "each">> : check \in Checks}

ReleasePlans ==
  Owing \cup {<<>>, <<"each">>, <<"survey", "each">>, <<"handler", "survey", "each">>}

Elsewhere == {"tab", "look", "claim", "restore", "confirm", "survey", "each"}

Script(type, todo) ==
  IF type = "adoptTab" THEN todo \in AdoptPlans
  ELSE IF type = "releaseWorkspace" THEN todo \in ReleasePlans
  ELSE todo \in Seq(Step) /\ \A i \in DOMAIN todo : todo[i] \notin Elsewhere

(* One step of it done.                                                      *)
GoesOn(todo) ==
  /\ todo # <<>> /\ Head(todo) \in Checks \cup {"work", "resume", "remove", "drop", "forget"}
  /\ Head(todo) \in {"drop", "forget"} => Tail(todo) = <<"each">>
  /\ Head(todo) \notin {"drop", "forget"} => Tail(todo) \in Owing

LEMMA OwingGoesOn ==
  ASSUME NEW todo \in Owing
  PROVE  GoesOn(todo)
<1>1. ASSUME todo = <<"drop", "each">>
      PROVE  GoesOn(todo)
  <2>1. todo # <<>> /\ Head(todo) = "drop" /\ Tail(todo) = <<"each">>
    BY <1>1
  <2>. QED BY <2>1 DEF GoesOn
<1>8. ASSUME todo = <<"forget", "each">>
      PROVE  GoesOn(todo)
  <2>1. todo # <<>> /\ Head(todo) = "forget" /\ Tail(todo) = <<"each">>
    BY <1>8
  <2>. QED BY <2>1 DEF GoesOn
<1>2. ASSUME NEW first \in Checks \cup {"work", "resume", "remove"}, NEW rest \in Owing,
             todo # <<>>, Head(todo) = first, Tail(todo) = rest
      PROVE  GoesOn(todo)
  BY <1>2 DEF GoesOn, Checks
<1>3. ASSUME todo = <<"resume", "drop", "each">>
      PROVE  GoesOn(todo)
  <2>1. todo # <<>> /\ Head(todo) = "resume" /\ Tail(todo) = <<"drop", "each">>
    BY <1>3
  <2>2. <<"drop", "each">> \in Owing
    BY DEF Owing
  <2>. QED BY <1>2, <2>1, <2>2
<1>4. ASSUME todo = <<"work", "resume", "drop", "each">>
      PROVE  GoesOn(todo)
  <2>1. todo # <<>> /\ Head(todo) = "work" /\ Tail(todo) = <<"resume", "drop", "each">>
    BY <1>4
  <2>2. <<"resume", "drop", "each">> \in Owing
    BY DEF Owing
  <2>. QED BY <1>2, <2>1, <2>2
<1>5. ASSUME todo = <<"remove", "forget", "each">>
      PROVE  GoesOn(todo)
  <2>1. todo # <<>> /\ Head(todo) = "remove" /\ Tail(todo) = <<"forget", "each">>
    BY <1>5
  <2>2. <<"forget", "each">> \in Owing
    BY DEF Owing
  <2>. QED BY <1>2, <2>1, <2>2
<1>9. ASSUME todo = <<"resume", "remove", "forget", "each">>
      PROVE  GoesOn(todo)
  <2>1. todo # <<>> /\ Head(todo) = "resume" /\ Tail(todo) = <<"remove", "forget", "each">>
    BY <1>9
  <2>2. <<"remove", "forget", "each">> \in Owing
    BY DEF Owing
  <2>. QED BY <1>2, <2>1, <2>2
<1>10. ASSUME todo = <<"work", "resume", "remove", "forget", "each">>
      PROVE  GoesOn(todo)
  <2>1. todo # <<>> /\ Head(todo) = "work" /\ Tail(todo) = <<"resume", "remove", "forget", "each">>
    BY <1>10
  <2>2. <<"resume", "remove", "forget", "each">> \in Owing
    BY DEF Owing
  <2>. QED BY <1>2, <2>1, <2>2
<1>6. ASSUME NEW check \in Checks, todo = <<check, "work", "resume", "drop", "each">>
      PROVE  GoesOn(todo)
  <2>1. Tail(todo) = <<"work", "resume", "drop", "each">> /\ Head(todo) = check /\ todo # <<>>
    BY <1>6
  <2>2. <<"work", "resume", "drop", "each">> \in Owing
    BY DEF Owing
  <2>. QED BY <1>2, <2>1, <2>2
<1>7. ASSUME NEW check \in Checks, todo = <<check, "work", "resume", "remove", "forget", "each">>
      PROVE  GoesOn(todo)
  <2>1. /\ Tail(todo) = <<"work", "resume", "remove", "forget", "each">>
        /\ Head(todo) = check /\ todo # <<>>
    BY <1>7
  <2>2. <<"work", "resume", "remove", "forget", "each">> \in Owing
    BY DEF Owing
  <2>. QED BY <1>2, <2>1, <2>2
<1>. QED BY <1>1, <1>3, <1>4, <1>5, <1>6, <1>7, <1>8, <1>9, <1>10 DEF Owing

(* The assertion at the start of a release, and where its throw resumes.     *)
LEMMA ConsIs ==
  ASSUME NEW whole \in Seq(Step), whole # <<>>
  PROVE  <<whole[1]>> \o Tail(whole) = whole
<1>1. PICK list, longer, n :
        list = Tail(whole) /\ longer = <<whole[1]>> \o list /\ n = Len(whole)
  OBVIOUS
<1>2. /\ list \in Seq(Step) /\ DOMAIN whole = 1..n /\ n \in Nat /\ n > 0
      /\ DOMAIN list = 1..(n - 1) /\ \A i \in 1..(n - 1) : list[i] = whole[i + 1]
  BY <1>1, TailElements
<1>3. whole[1] \in Step
  BY <1>2
<1>4. PICK first : first = whole[1]
  OBVIOUS
<1>5. /\ longer \in Seq(Step)
      /\ DOMAIN longer = 1..(Len(list) + 1) /\ DOMAIN list = 1..Len(list) /\ Len(list) \in Nat
      /\ longer[1] = first /\ \A i \in 1..Len(list) : longer[i + 1] = list[i]
  BY <1>1, <1>2, <1>3, <1>4, ConsElements
<1>6. Len(list) = n - 1
  BY <1>2, <1>5
<1>7. \A i \in 1..n : i = 1 \/ (i - 1 \in 1..(n - 1) /\ i = (i - 1) + 1)
  BY <1>2
<1>8. \A i \in 1..n : longer[i] = whole[i]
  BY <1>2, <1>4, <1>5, <1>6, <1>7
<1>9. Len(longer) = n
  BY <1>2, <1>5, <1>6
<1>10. longer = whole
  BY <1>1, <1>5, <1>8, <1>9, SeqEqual
<1>. QED BY <1>1, <1>10

(* There is one "resume" at most, so that a throw knows where to go.         *)
LEMMA ResumptionIs ==
  ASSUME NEW list \in Seq(Step),
         \A i, j \in DOMAIN list : list[i] = "resume" /\ list[j] = "resume" => i = j,
         NEW m \in DOMAIN list, list[m] = "resume", NEW next, next = 1 + m
  PROVE  Resumption(list) = SubSeq(list, next, Len(list))
<1>1. {i \in DOMAIN list : list[i] = "resume"} = {m}
  OBVIOUS
<1>2. PICK marks : marks = {i \in DOMAIN list : list[i] = "resume"}
  OBVIOUS
<1>3. m \in Nat /\ m <= m
  OBVIOUS
<1>4. (CHOOSE i \in marks : \A j \in marks : i <= j) = m
  <2>1. marks = {m}
    BY <1>1, <1>2
  <2>2. \A i : i \in marks /\ (\A j \in marks : i <= j) <=> i = m
    BY <1>3, <2>1
  <2>. QED BY <2>2
<1>5. marks # {}
  BY <1>1, <1>2
<1>. QED BY <1>2, <1>4, <1>5 DEF Resumption

LEMMA DropsFirst ==
  ASSUME NEW list \in Seq(Step), list # <<>>
  PROVE  SubSeq(list, 2, Len(list)) = Tail(list)
BY TailIsSubSeq

LEMMA DropsTwo ==
  ASSUME NEW list \in Seq(Step), list # <<>>, Tail(list) # <<>>
  PROVE  SubSeq(list, 3, Len(list)) = Tail(Tail(list))
<1>1. PICK n, rest, back, last :
        n = Len(list) /\ rest = Tail(list) /\ back = SubSeq(list, 3, n) /\ last = Tail(rest)
  OBVIOUS
<1>2. /\ rest \in Seq(Step) /\ DOMAIN list = 1..n /\ n \in Nat /\ n > 0
      /\ DOMAIN rest = 1..(n - 1) /\ \A i \in 1..(n - 1) : rest[i] = list[i + 1]
  BY <1>1, TailElements
<1>3. /\ last \in Seq(Step) /\ DOMAIN rest = 1..Len(rest) /\ Len(rest) \in Nat /\ Len(rest) > 0
      /\ DOMAIN last = 1..(Len(rest) - 1) /\ \A i \in 1..(Len(rest) - 1) : last[i] = rest[i + 1]
  BY <1>1, <1>2, TailElements
<1>4. Len(rest) = n - 1 /\ n >= 2
  BY <1>2, <1>3
<1>5. \A i \in 3..n : list[i] \in Step
  BY <1>2, ElementOfSeq
<1>6. /\ back \in Seq(Step) /\ Len(back) = IF 3 <= n THEN n - 3 + 1 ELSE 0
      /\ \A i \in 1..(n - 3 + 1) : back[i] = list[3 + i - 1]
  BY <1>1, <1>2, <1>5, SubSeqProperties
<1>7. Len(back) = n - 2 /\ Len(last) = n - 2
  <2>1. Len(back) = n - 2
    BY <1>2, <1>4, <1>6
  <2>2. Len(last) = Len(rest) - 1 /\ Len(rest) - 1 = n - 2
    BY <1>2, <1>3, <1>4
  <2>. QED BY <2>1, <2>2
<1>8. \A i \in 1..(n - 2) : /\ i \in 1..(n - 3 + 1) /\ 3 + i - 1 = i + 2 /\ i \in 1..(Len(rest) - 1)
                             /\ i + 1 \in 1..(n - 1) /\ i + 1 + 1 = i + 2
  BY <1>2, <1>4
<1>9. \A i \in 1..(n - 2) : back[i] = last[i]
  BY <1>2, <1>3, <1>6, <1>8
<1>10. back = last
  BY <1>3, <1>6, <1>7, <1>9, SeqEqual
<1>. QED BY <1>1, <1>10

LEMMA OwingChecks ==
  ASSUME NEW todo \in Owing, Head(todo) \in Checks, NEW check \in Checks
  PROVE  <<check>> \o Tail(todo) \in Owing /\ Resumption(Tail(todo)) \in Owing
<1>1. \/ Tail(todo) = <<"work", "resume", "drop", "each">>
      \/ Tail(todo) = <<"work", "resume", "remove", "forget", "each">>
  <2>1. /\ Head(<<"drop", "each">>) = "drop" /\ Head(<<"resume", "drop", "each">>) = "resume"
        /\ Head(<<"work", "resume", "drop", "each">>) = "work"
        /\ Head(<<"forget", "each">>) = "forget" /\ Head(<<"remove", "forget", "each">>) = "remove"
        /\ Head(<<"resume", "remove", "forget", "each">>) = "resume"
        /\ Head(<<"work", "resume", "remove", "forget", "each">>) = "work"
    OBVIOUS
  <2>2. todo \notin {<<"drop", "each">>, <<"resume", "drop", "each">>, <<"work", "resume", "drop", "each">>,
               <<"forget", "each">>, <<"remove", "forget", "each">>,
               <<"resume", "remove", "forget", "each">>, <<"work", "resume", "remove", "forget", "each">>}
    BY <2>1 DEF Checks
  <2>3. ASSUME NEW c \in Checks, todo = <<c, "work", "resume", "drop", "each">>
        PROVE  Tail(todo) = <<"work", "resume", "drop", "each">>
    BY <2>3
  <2>4. ASSUME NEW c \in Checks, todo = <<c, "work", "resume", "remove", "forget", "each">>
        PROVE  Tail(todo) = <<"work", "resume", "remove", "forget", "each">>
    BY <2>4
  <2>. QED BY <2>2, <2>3, <2>4 DEF Owing
<1>2. CASE Tail(todo) = <<"work", "resume", "drop", "each">>
  <2>1. PICK list, whole : list = <<"work", "resume", "drop", "each">>
                           /\ whole = <<check, "work", "resume", "drop", "each">>
    OBVIOUS
  <2>2. /\ list \in Seq(Step) /\ DOMAIN list = 1..4 /\ list # <<>>
        /\ list[1] = "work" /\ list[2] = "resume" /\ list[3] = "drop" /\ list[4] = "each"
    BY <2>1 DEF Step
  <2>3. whole \in Seq(Step) /\ whole # <<>> /\ whole[1] = check /\ Tail(whole) = list
    BY <2>1 DEF Step, Checks
  <2>4. <<check>> \o list = whole
    BY <2>3, ConsIs
  <2>5. whole \in Owing
    BY <2>1 DEF Owing
  <2>6. Tail(list) = <<"resume", "drop", "each">>
    BY <2>1
  <2>7. Tail(<<"resume", "drop", "each">>) = <<"drop", "each">> /\ Tail(list) # <<>>
    BY <2>6
  <2>8. /\ 2 \in DOMAIN list /\ 3 = 1 + 2
        /\ \A i, j \in DOMAIN list : list[i] = "resume" /\ list[j] = "resume" => i = j
    BY <2>2
  <2>9. Resumption(list) = SubSeq(list, 3, Len(list))
    BY <2>2, <2>8, ResumptionIs
  <2>10. Resumption(list) = <<"drop", "each">>
    BY <2>2, <2>6, <2>7, <2>9, DropsTwo
  <2>11. <<"drop", "each">> \in Owing
    BY DEF Owing
  <2>. QED BY <1>2, <2>1, <2>4, <2>5, <2>10, <2>11
<1>3. CASE Tail(todo) = <<"work", "resume", "remove", "forget", "each">>
  <2>1. PICK list, whole : list = <<"work", "resume", "remove", "forget", "each">>
                           /\ whole = <<check, "work", "resume", "remove", "forget", "each">>
    OBVIOUS
  <2>2. /\ list \in Seq(Step) /\ DOMAIN list = 1..5 /\ list # <<>>
        /\ list[1] = "work" /\ list[2] = "resume" /\ list[3] = "remove" /\ list[4] = "forget"
        /\ list[5] = "each"
    BY <2>1 DEF Step
  <2>3. whole \in Seq(Step) /\ whole # <<>> /\ whole[1] = check /\ Tail(whole) = list
    BY <2>1 DEF Step, Checks
  <2>4. <<check>> \o list = whole
    BY <2>3, ConsIs
  <2>5. whole \in Owing
    BY <2>1 DEF Owing
  <2>6. Tail(list) = <<"resume", "remove", "forget", "each">>
    BY <2>1
  <2>7. /\ Tail(<<"resume", "remove", "forget", "each">>) = <<"remove", "forget", "each">>
        /\ Tail(list) # <<>>
    BY <2>6
  <2>8. /\ 2 \in DOMAIN list /\ 3 = 1 + 2
        /\ \A i, j \in DOMAIN list : list[i] = "resume" /\ list[j] = "resume" => i = j
    BY <2>2
  <2>9. Resumption(list) = SubSeq(list, 3, Len(list))
    BY <2>2, <2>8, ResumptionIs
  <2>10. Resumption(list) = <<"remove", "forget", "each">>
    BY <2>2, <2>6, <2>7, <2>9, DropsTwo
  <2>11. <<"remove", "forget", "each">> \in Owing
    BY DEF Owing
  <2>. QED BY <1>3, <2>1, <2>4, <2>5, <2>10, <2>11
<1>. QED BY <1>1, <1>2, <1>3

(* Any throw: nothing is left, or what comes after the first "resume".       *)
LEMMA ResumptionElements ==
  ASSUME NEW list \in Seq(Step),
         \A i, j \in DOMAIN list : list[i] = "resume" /\ list[j] = "resume" => i = j
  PROVE  /\ Resumption(list) \in Seq(Step)
         /\ \A i \in DOMAIN Resumption(list) :
              \E j \in DOMAIN list : Resumption(list)[i] = list[j]
         /\ (\A j \in DOMAIN list : list[j] # "resume") => Resumption(list) = <<>>
<1>1. PICK marks : marks = {i \in DOMAIN list : list[i] = "resume"}
  OBVIOUS
<1>2. CASE marks = {}
  BY <1>1, <1>2 DEF Resumption
<1>3. CASE marks # {}
  <2>2. PICK m : m \in marks
    BY <1>3
  <2>3. PICK n : n = Len(list) /\ n \in Nat /\ DOMAIN list = 1..n
    OBVIOUS
  <2>4. m \in 1..n
    BY <1>1, <2>2, <2>3
  <2>1. m \in DOMAIN list /\ list[m] = "resume"
    BY <1>1, <2>2
  <2>5. PICK back : back = SubSeq(list, 1 + m, n) /\ back = Resumption(list)
    BY <2>1, <2>3, ResumptionIs
  <2>6. \A i \in (1 + m)..n : list[i] \in Step
    BY <2>3, <2>4, ElementOfSeq
  <2>7. PICK first : first = 1 + m
    OBVIOUS
  <2>8. /\ back \in Seq(Step) /\ Len(back) = IF first <= n THEN n - first + 1 ELSE 0
        /\ \A i \in 1..(n - first + 1) : back[i] = list[first + i - 1]
    BY <2>3, <2>4, <2>5, <2>6, <2>7, SubSeqProperties
  <2>9. \A i \in DOMAIN back : i \in 1..(n - first + 1) /\ first + i - 1 \in DOMAIN list
    BY <2>3, <2>4, <2>7, <2>8
  <2>. QED BY <1>1, <1>3, <2>5, <2>8, <2>9
<1>. QED BY <1>2, <1>3

LEMMA ScriptTail ==
  ASSUME NEW type, NEW todo \in Seq(Step), todo # <<>>, Script(type, todo)
  PROVE  Script(type, Tail(todo))
<1>1. CASE type = "adoptTab"
  <2>1. /\ Tail(<<"look">>) = <<>> /\ Tail(<<"tab", "look">>) = <<"look">>
        /\ Tail(<<"access", "tab", "look">>) = <<"tab", "look">>
        /\ Tail(<<"handler", "access", "tab", "look">>) = <<"access", "tab", "look">>
        /\ Tail(<<"access", "handler", "access", "tab", "look">>)
             = <<"handler", "access", "tab", "look">>
        /\ Tail(<<"claim", "confirm">>) = <<"confirm">> /\ Tail(<<"restore", "confirm">>) = <<"confirm">>
        /\ Tail(<<"confirm">>) = <<>> /\ Tail(<<"revoke">>) = <<>>
    OBVIOUS
  <2>2. Tail(todo) \in AdoptPlans
    BY <1>1, <2>1 DEF Script, AdoptPlans
  <2>. QED BY <1>1, <2>2 DEF Script
<1>2. CASE type = "releaseWorkspace"
  <2>1. /\ Tail(<<"each">>) = <<>> /\ Tail(<<"survey", "each">>) = <<"each">>
        /\ Tail(<<"handler", "survey", "each">>) = <<"survey", "each">>
    OBVIOUS
  <2>2. Tail(todo) \in ReleasePlans
    <3>1. CASE todo \in Owing
      BY <3>1, OwingGoesOn DEF ReleasePlans, GoesOn
    <3>2. CASE todo \notin Owing
      BY <1>2, <2>1, <3>2 DEF Script, ReleasePlans
    <3>. QED BY <3>1, <3>2
  <2>. QED BY <1>2, <2>2 DEF Script
<1>3. CASE type \notin {"adoptTab", "releaseWorkspace"}
  <2>1. PICK rest, n : rest = Tail(todo) /\ n = Len(todo)
    OBVIOUS
  <2>2. /\ rest \in Seq(Step) /\ DOMAIN todo = 1..n /\ n \in Nat
        /\ DOMAIN rest = 1..(n - 1) /\ \A i \in 1..(n - 1) : rest[i] = todo[i + 1]
    BY <2>1, TailElements
  <2>3. \A i \in DOMAIN rest : i + 1 \in DOMAIN todo
    BY <2>2
  <2>4. \A i \in DOMAIN rest : rest[i] \notin Elsewhere
    BY <1>3, <2>2, <2>3 DEF Script
  <2>. QED BY <1>3, <2>1, <2>2, <2>4 DEF Script
<1>. QED BY <1>1, <1>2, <1>3

LEMMA ScriptSkip ==
  ASSUME NEW type, NEW todo \in Seq(Step), Script(type, todo)
  PROVE  Script(type, Skip(todo))
BY ScriptTail DEF Skip

LEMMA ScriptEmpty == \A type : Script(type, <<>>)
BY DEF Script, AdoptPlans, ReleasePlans

LEMMA ScriptResumption ==
  ASSUME NEW type, NEW todo, Good(todo, {}), todo # <<>>, Script(type, todo)
  PROVE  Script(type, Resumption(Tail(todo)))
<1>1. PICK rest : rest = Tail(todo)
  OBVIOUS
<1>2. todo \in Seq(Step) /\ rest \in Seq(Step) /\ Script(type, rest)
  BY <1>1, ScriptTail, TailElements DEF Good
<1>3. Good(rest, {})
  BY <1>1, TailIsGood
<1>4. PICK back : back = Resumption(rest)
  OBVIOUS
<1>5. /\ back \in Seq(Step)
      /\ \A i \in DOMAIN back : \E j \in DOMAIN rest : back[i] = rest[j]
      /\ (\A j \in DOMAIN rest : rest[j] # "resume") => back = <<>>
  <2>1. \A i, j \in DOMAIN rest : rest[i] = "resume" /\ rest[j] = "resume" => i = j
    BY <1>3 DEF Good, Ordered
  <2>. QED BY <1>2, <1>4, <2>1, ResumptionElements
<1>6. CASE type = "adoptTab"
  <2>1. \A j \in DOMAIN rest : rest[j] # "resume"
    BY <1>2, <1>6 DEF Script, AdoptPlans
  <2>. QED BY <1>1, <1>4, <1>5, <2>1, ScriptEmpty
<1>7. CASE type = "releaseWorkspace"
  <2>1. CASE todo \in Owing /\ Head(todo) \in Checks
    BY <1>7, <2>1, OwingChecks DEF Script, ReleasePlans, Checks
  <2>2. CASE rest = <<"resume", "drop", "each">> \/ rest = <<"resume", "remove", "forget", "each">>
    <3>1. CASE rest = <<"resume", "drop", "each">>
      <4>1. /\ 1 \in DOMAIN rest /\ rest[1] = "resume" /\ rest # <<>> /\ 2 = 1 + 1
            /\ \A i, j \in DOMAIN rest : rest[i] = "resume" /\ rest[j] = "resume" => i = j
        BY <3>1
      <4>2. back = SubSeq(rest, 2, Len(rest))
        BY <1>2, <1>4, <4>1, ResumptionIs
      <4>3. Tail(rest) = <<"drop", "each">>
        BY <3>1
      <4>4. back = <<"drop", "each">>
        BY <1>2, <4>1, <4>2, <4>3, DropsFirst
      <4>. QED BY <1>1, <1>4, <1>7, <4>4 DEF Script, ReleasePlans, Owing
    <3>2. CASE rest = <<"resume", "remove", "forget", "each">>
      <4>1. /\ 1 \in DOMAIN rest /\ rest[1] = "resume" /\ rest # <<>> /\ 2 = 1 + 1
            /\ \A i, j \in DOMAIN rest : rest[i] = "resume" /\ rest[j] = "resume" => i = j
        BY <3>2
      <4>2. back = SubSeq(rest, 2, Len(rest))
        BY <1>2, <1>4, <4>1, ResumptionIs
      <4>3. Tail(rest) = <<"remove", "forget", "each">>
        BY <3>2
      <4>4. back = <<"remove", "forget", "each">>
        BY <1>2, <4>1, <4>2, <4>3, DropsFirst
      <4>. QED BY <1>1, <1>4, <1>7, <4>4 DEF Script, ReleasePlans, Owing
    <3>. QED BY <2>2, <3>1, <3>2
  <2>3. CASE \A j \in DOMAIN rest : rest[j] # "resume"
    BY <1>1, <1>4, <1>5, <2>3, ScriptEmpty
  <2>4. \/ todo \in Owing /\ Head(todo) \in Checks
        \/ rest = <<"resume", "drop", "each">> \/ rest = <<"resume", "remove", "forget", "each">>
        \/ \A j \in DOMAIN rest : rest[j] # "resume"
    <3>1. CASE \E c \in Checks : \/ todo = <<c, "work", "resume", "drop", "each">>
                                 \/ todo = <<c, "work", "resume", "remove", "forget", "each">>
      <4>1. PICK c \in Checks : \/ todo = <<c, "work", "resume", "drop", "each">>
                                \/ todo = <<c, "work", "resume", "remove", "forget", "each">>
        BY <3>1
      <4>2. Head(todo) = c
        BY <4>1
      <4>. QED BY <4>1, <4>2 DEF Owing
    <3>2. CASE todo \in {<<"work", "resume", "drop", "each">>,
                         <<"work", "resume", "remove", "forget", "each">>}
      <4>1. /\ Tail(<<"work", "resume", "drop", "each">>) = <<"resume", "drop", "each">>
            /\ Tail(<<"work", "resume", "remove", "forget", "each">>)
                 = <<"resume", "remove", "forget", "each">>
        OBVIOUS
      <4>. QED BY <1>1, <3>2, <4>1
    <3>3. CASE todo \in {<<"drop", "each">>, <<"resume", "drop", "each">>, <<"forget", "each">>,
                         <<"remove", "forget", "each">>, <<"resume", "remove", "forget", "each">>,
                         <<"each">>, <<"survey", "each">>, <<"handler", "survey", "each">>}
      <4>1. rest \in {<<"each">>, <<"drop", "each">>, <<"forget", "each">>, <<"remove", "forget", "each">>,
                      <<>>, <<"survey", "each">>}
        <5>1. /\ Tail(<<"drop", "each">>) = <<"each">> /\ Tail(<<"forget", "each">>) = <<"each">>
              /\ Tail(<<"resume", "drop", "each">>) = <<"drop", "each">>
              /\ Tail(<<"remove", "forget", "each">>) = <<"forget", "each">>
              /\ Tail(<<"resume", "remove", "forget", "each">>) = <<"remove", "forget", "each">>
              /\ Tail(<<"each">>) = <<>> /\ Tail(<<"survey", "each">>) = <<"each">>
              /\ Tail(<<"handler", "survey", "each">>) = <<"survey", "each">>
          OBVIOUS
        <5>. QED BY <1>1, <3>3, <5>1
      <4>2. \A j \in DOMAIN rest : rest[j] # "resume"
        BY <4>1
      <4>. QED BY <4>2
    <3>. QED BY <1>7, <3>1, <3>2, <3>3 DEF Script, ReleasePlans, Owing
  <2>. QED BY <2>1, <2>2, <2>3, <2>4
<1>8. CASE type \notin {"adoptTab", "releaseWorkspace"}
  <2>1. \A i \in DOMAIN back : back[i] \notin Elsewhere
    BY <1>2, <1>5, <1>8 DEF Script
  <2>. QED BY <1>1, <1>4, <1>5, <1>8, <2>1 DEF Script
<1>. QED BY <1>6, <1>7, <1>8

(* An assertion goes on with its next part.                                  *)
LEMMA ScriptCheck ==
  ASSUME NEW type, NEW todo \in Seq(Step), todo # <<>>, Script(type, todo),
         Head(todo) \in {"assert", "assertCreated", "verify", "verifyAdopted"}, NEW check \in Checks
  PROVE  Script(type, <<check>> \o Tail(todo))
<1>1. type # "adoptTab"
  BY DEF Script, AdoptPlans
<1>2. CASE type = "releaseWorkspace"
  <2>1. todo \in Owing /\ Head(todo) \in Checks
    <3>1. todo \in ReleasePlans
      BY <1>2 DEF Script
    <3>2. /\ Head(<<"each">>) = "each" /\ Head(<<"survey", "each">>) = "survey"
          /\ Head(<<"handler", "survey", "each">>) = "handler"
      OBVIOUS
    <3>3. todo \in Owing
      BY <3>1, <3>2 DEF ReleasePlans
    <3>. QED BY <3>3, OwingGoesOn DEF Checks, GoesOn
  <2>. QED BY <1>2, <2>1, OwingChecks DEF Script, ReleasePlans
<1>3. CASE type \notin {"adoptTab", "releaseWorkspace"}
  <2>1. PICK rest, n, longer : rest = Tail(todo) /\ n = Len(rest) /\ longer = <<check>> \o rest
    OBVIOUS
  <2>2. Script(type, rest) /\ rest \in Seq(Step) /\ check \in Step
    BY <2>1, ScriptTail, TailElements DEF Checks, Step
  <2>3. /\ longer \in Seq(Step) /\ DOMAIN longer = 1..(n + 1) /\ DOMAIN rest = 1..n /\ n \in Nat
        /\ longer[1] = check /\ \A i \in 1..n : longer[i + 1] = rest[i]
    BY <2>1, <2>2, ConsElements
  <2>4. \A i \in 1..(n + 1) : i = 1 \/ (i - 1 \in 1..n /\ i = (i - 1) + 1)
    BY <2>3
  <2>6. \A i \in 1..n : rest[i] \notin Elsewhere
    BY <1>3, <2>2, <2>3 DEF Script
  <2>7. check \notin Elsewhere
    BY DEF Checks, Elsewhere
  <2>5. \A i \in DOMAIN longer : longer[i] \notin Elsewhere
    <3> SUFFICES ASSUME NEW i \in DOMAIN longer
                 PROVE  longer[i] \notin Elsewhere
      OBVIOUS
    <3>1. CASE i = 1
      BY <2>3, <2>7, <3>1
    <3>2. CASE i # 1
      <4>1. PICK j \in 1..n : i = j + 1
        BY <2>3, <2>4, <3>2
      <4>. QED BY <2>3, <2>6, <4>1
    <3>. QED BY <3>1, <3>2
  <2>. QED BY <1>3, <2>1, <2>3, <2>5 DEF Script
<1>. QED BY <1>1, <1>2, <1>3

-----------------------------------------------------------------------------
(* The commands at work keep to these lists and to the gate.                 *)

Gated(op) == Busy(op) /\ cmd[op].gate

Planned(c) ==
  /\ Script(c.type, c.todo)
  /\ c.type = "releaseWorkspace" => gateScope(c.command).global
  /\ c.type = "adoptTab" => c.tab \in Tab /\ c.tab \in gateScope(c.command).resources

Apart ==
  \A op, other \in Op : op # other /\ Gated(op) /\ Gated(other) =>
    Compatible(cmd[op].command, cmd[other].command)

PlanInv == (\A op \in Op : Busy(op) => Planned(cmd[op])) /\ Apart

(* A release is alone in the gate, and no two adoptions of a tab are in it.  *)
LEMMA GateExcludes ==
  ASSUME PlanInv, NEW op \in Op, NEW other \in Op, op # other, Gated(op), Gated(other)
  PROVE  /\ cmd[op].type # "releaseWorkspace" /\ cmd[other].type # "releaseWorkspace"
         /\ cmd[op].type = "adoptTab" /\ cmd[other].type = "adoptTab" =>
              cmd[op].tab # cmd[other].tab
<1>1. Compatible(cmd[op].command, cmd[other].command)
  BY DEF PlanInv, Apart
<1>2. Planned(cmd[op]) /\ Planned(cmd[other])
  BY DEF PlanInv, Gated
<1>. QED BY <1>1, <1>2 DEF Compatible, Planned

(* What a step may make of a command.                                        *)
Follows(op) ==
  cmd'[op] # Idle =>
    /\ Busy(op)
    /\ cmd'[op].type = cmd[op].type /\ cmd'[op].session = cmd[op].session
    /\ cmd'[op].command = cmd[op].command
    /\ cmd'[op].gate => cmd[op].gate
    /\ cmd'[op].type = "adoptTab" => cmd'[op].tab = cmd[op].tab
    /\ Script(cmd'[op].type, cmd'[op].todo)

LEMMA FollowingKeeps ==
  ASSUME PlanInv, \A op \in Op : Follows(op)
  PROVE  PlanInv'
<1>1. ASSUME NEW op \in Op, Busy(op)'
      PROVE  Planned(cmd'[op])
  <2>1. Follows(op) /\ cmd'[op] # Idle
    BY <1>1 DEF Busy
  <2>2. Busy(op) /\ Planned(cmd[op])
    BY <2>1 DEF Follows, PlanInv
  <2>. QED BY <2>1, <2>2 DEF Follows, Planned
<1>2. ASSUME NEW op \in Op, NEW other \in Op, op # other, Gated(op)', Gated(other)'
      PROVE  Compatible(cmd'[op].command, cmd'[other].command)
  <2>1. Follows(op) /\ Follows(other) /\ cmd'[op] # Idle /\ cmd'[other] # Idle
        /\ cmd'[op].gate /\ cmd'[other].gate
    BY <1>2 DEF Gated, Busy
  <2>2. Gated(op) /\ Gated(other)
    BY <2>1 DEF Follows, Gated
  <2>3. Compatible(cmd[op].command, cmd[other].command)
    BY <1>2, <2>2 DEF PlanInv, Apart
  <2>. QED BY <2>1, <2>3 DEF Follows
<1>3. \A op \in Op : Busy(op)' => Planned(cmd'[op])
  BY <1>1
<1>4. \A op, other \in Op : op # other /\ Gated(op)' /\ Gated(other)' =>
        Compatible(cmd'[op].command, cmd'[other].command)
  BY <1>2
<1>. QED BY <1>3, <1>4 DEF PlanInv, Apart, Planned, Compatible

LEMMA SameFollows ==
  ASSUME PlanInv, NEW op \in Op, cmd'[op] = cmd[op]
  PROVE  Follows(op)
BY DEF Follows, PlanInv, Planned, Busy

(* Where a command gets to when it goes on as c says, or ends.               *)
Alike(c, d) ==
  /\ c.type = d.type /\ c.session = d.session /\ c.command = d.command /\ c.tab = d.tab
  /\ c.survey = d.survey /\ c.partial = d.partial /\ c.gate = d.gate

Leads(op, c, list) ==
  /\ \A o \in Op : o # op => cmd'[o] = cmd[o]
  /\ list = <<>> => cmd'[op] = Idle
  /\ list # <<>> => cmd'[op] # Idle /\ cmd'[op].todo = list /\ Alike(cmd'[op], c)

LEMMA SkipIsSteps == ASSUME NEW list \in Seq(Step) PROVE Skip(list) \in Seq(Step)
BY TailElements DEF Skip

LEMMA BecomeLeads ==
  ASSUME CmdInv, NEW op \in Op, NEW c \in Handlers, Become(op, c)
  PROVE  Leads(op, c, Skip(c.todo))
<1>1. PICK list : list = Skip(c.todo)
  OBVIOUS
<1>2. list \in Seq(Step)
  BY <1>1, SkipIsSteps DEF Handlers
<1>3. PICK d : d = [c EXCEPT !.todo = list]
  OBVIOUS
<1>4. cmd' = [cmd EXCEPT ![op] = IF list = <<>> THEN Idle ELSE d]
  BY <1>1, <1>3 DEF Become
<1>5. cmd'[op] = (IF list = <<>> THEN Idle ELSE d) /\ \A o \in Op : o # op => cmd'[o] = cmd[o]
  BY <1>4 DEF CmdInv
<1>6. d \in Handlers /\ d.todo = list /\ Alike(d, c)
  BY <1>2, <1>3 DEF Handlers, Alike
<1>7. d # Idle
  BY <1>6 DEF Handlers, Types, Idle
<1>. QED BY <1>1, <1>5, <1>6, <1>7 DEF Leads

LEMMA BusyIs ==
  ASSUME IInv, NEW op \in Op, Busy(op)
  PROVE  /\ CmdInv /\ cmd[op] \in Handlers /\ cmd[op].todo \in Seq(Step) /\ cmd[op].todo # <<>>
         /\ Good(cmd[op].todo, {}) /\ Rest(op) \in Seq(Step)
<1>1. CmdInv /\ cmd[op] \in Handlers /\ cmd[op].todo # <<>> /\ Good(cmd[op].todo, Dangers(cmd[op]))
  BY DEF IInv, CmdInv, CmdOk, Fits
<1>2. PICK list, dangers : list = cmd[op].todo /\ dangers = Dangers(cmd[op])
  OBVIOUS
<1>3. Good(list, {})
  BY <1>1, <1>2, FewerDangers
<1>4. list \in Seq(Step)
  BY <1>3 DEF Good
<1>5. Tail(list) \in Seq(Step)
  BY <1>1, <1>2, <1>4, TailElements
<1>. QED BY <1>1, <1>2, <1>3, <1>4, <1>5 DEF Rest

LEMMA GotoLeads ==
  ASSUME IInv, NEW op \in Op, Busy(op), NEW list \in Seq(Step), Goto(op, list)
  PROVE  Leads(op, cmd[op], Skip(list))
<1>1. CmdInv /\ cmd[op] \in Handlers
  BY BusyIs
<1>2. PICK d : d = [cmd[op] EXCEPT !.todo = list]
  OBVIOUS
<1>3. d \in Handlers /\ d.todo = list /\ Alike(d, cmd[op])
  BY <1>1, <1>2 DEF Handlers, Alike
<1>4. Become(op, d)
  BY <1>2 DEF Goto
<1>5. Leads(op, d, Skip(list))
  BY <1>1, <1>3, <1>4, BecomeLeads
<1>. QED BY <1>3, <1>5 DEF Leads, Alike

-----------------------------------------------------------------------------
(* A step of a command, as the other commands, the records and the sessions  *)
(* see it.                                                                   *)

(* A record is deleted, marked as released, or written for the command.      *)
Writes(op) ==
  \A t \in Tab :
    \/ owned'[t] = owned[t]
    \/ owned'[t] = NoRecord
    \/ /\ owned[t] # NoRecord /\ owned'[t] # NoRecord
       /\ owned'[t].kind = "released" /\ owned'[t].session = owned[t].session
    \/ /\ t = cmd[op].tab /\ cmd[op].type # "releaseWorkspace"
       /\ owned'[t] # NoRecord /\ owned'[t].kind # "released"
       /\ owned'[t].session = cmd[op].session /\ owned'[t].late = ~cmd[op].gate
       /\ \/ t \notin UserTab /\ owned'[t].kind # "adopted"
          \/ /\ cmd[op].type = "adoptTab"
             /\ cmd'[op] # Idle /\ cmd'[op].todo = <<"confirm">> /\ cmd'[op].tab = t
             /\ \/ cmd[op].todo = <<"claim", "confirm">>
                \/ owned[t] # NoRecord /\ owned[t].session = cmd[op].session

(* A release ends its session when it leaves the gate.                       *)
Settles(op) ==
  \/ session' = session
  \/ /\ cmd[op].type = "releaseWorkspace" /\ cmd[op].gate
     /\ cmd'[op] # Idle => ~cmd'[op].gate
     /\ owned' = owned
     /\ \E state \in {"cleanup_partial", "closed"} :
          /\ session' = [session EXCEPT ![cmd[op].session] = state]
          /\ state = "closed" =>
               ~cmd[op].partial /\ cmd[op].todo = <<"each">> /\ cmd[op].survey = {}

(* The records a release still accounts for.                                 *)
Counted(c, t) ==
  \/ c.todo = <<"survey", "each">>
  \/ \E item \in c.survey : item.tab = t
  \/ c.tab = t /\ c.todo # <<"each">>

Releases(op) ==
  cmd[op].type = "releaseWorkspace" /\ cmd'[op] # Idle /\ ~cmd'[op].partial =>
    /\ ~cmd[op].partial
    /\ \A t \in Tab :
         Counted(cmd[op], t) /\ Owns(cmd[op].session, t) =>
           owned'[t] = NoRecord \/ Counted(cmd'[op], t)

(* An adoption writes only what it found free, and is not done before it has *)
(* seen the setting once more.                                               *)
Doubtful == {<<"confirm">>, <<"revoke">>}

Adopts(op) ==
  cmd[op].type = "adoptTab" =>
    /\ cmd'[op] # Idle /\ cmd'[op].todo = <<"claim", "confirm">> =>
         cmd[op].todo = <<"claim", "confirm">> \/ owned'[cmd[op].tab] = NoRecord
    /\ cmd[op].todo \in Doubtful =>
         \/ access
         \/ owned'[cmd[op].tab] = NoRecord
         \/ cmd'[op] # Idle /\ cmd'[op].todo \in Doubtful

Stepped(op) ==
  /\ Busy(op) /\ Follows(op) /\ \A o \in Op : o # op => cmd'[o] = cmd[o]
  /\ Writes(op) /\ Settles(op) /\ Releases(op) /\ Adopts(op)
  /\ access' = access /\ update' = update /\ deaths' = deaths

(* Most steps write nothing of their own.                                    *)
Writeless(op) ==
  \A t \in Tab : \/ owned'[t] = owned[t]
                 \/ owned'[t] = NoRecord
                 \/ /\ owned[t] # NoRecord /\ owned'[t] # NoRecord
                    /\ owned'[t].kind = "released" /\ owned'[t].session = owned[t].session

LEMMA WritelessIs == ASSUME NEW op, Writeless(op) PROVE Writes(op)
BY DEF Writeless, Writes

Quietly == UNCHANGED <<session, access, update, deaths>>

-----------------------------------------------------------------------------
(* Where the lists lead.                                                     *)

LEMMA SkipOwing ==
  ASSUME NEW todo \in Owing
  PROVE  Skip(todo) \in Owing
<1>1. GoesOn(todo)
  BY OwingGoesOn
<1>2. CASE Head(todo) = "resume"
  <2>1. Tail(todo) \in Owing
    BY <1>1, <1>2 DEF GoesOn
  <2>. QED BY <1>1, <1>2, <2>1 DEF Skip, GoesOn
<1>3. CASE Head(todo) # "resume"
  <2>1. Head(todo) # "handler"
    BY <1>1 DEF GoesOn, Checks
  <2>. QED BY <1>3, <2>1 DEF Skip
<1>. QED BY <1>2, <1>3

LEMMA OwingIsOn == \A todo \in Owing : todo # <<>> /\ todo # <<"each">> /\ todo # <<"survey", "each">>
<1> SUFFICES ASSUME NEW todo \in Owing PROVE todo # <<>> /\ todo # <<"each">> /\ todo # <<"survey", "each">>
  OBVIOUS
<1>1. GoesOn(todo)
  BY OwingGoesOn
<1>2. Head(<<"each">>) = "each" /\ Head(<<"survey", "each">>) = "survey"
  OBVIOUS
<1>. QED BY <1>1, <1>2 DEF GoesOn, Checks

LEMMA HeadOfRelease ==
  ASSUME NEW todo \in ReleasePlans, todo # <<>>
  PROVE  \/ todo \in Owing /\ Head(todo) \in Checks \cup {"work", "resume", "remove", "drop", "forget"}
         \/ todo = <<"each">> /\ Head(todo) = "each"
         \/ todo = <<"survey", "each">> /\ Head(todo) = "survey"
         \/ todo = <<"handler", "survey", "each">> /\ Head(todo) = "handler"
<1>1. CASE todo \in Owing
  BY <1>1, OwingGoesOn DEF GoesOn
<1>2. CASE todo = <<"each">>
  BY <1>2
<1>3. CASE todo = <<"survey", "each">>
  BY <1>3
<1>4. CASE todo = <<"handler", "survey", "each">>
  BY <1>4
<1>. QED BY <1>1, <1>2, <1>3, <1>4 DEF ReleasePlans

LEMMA OwingInHandler ==
  ASSUME NEW op, cmd[op].todo \in Owing
  PROVE  InHandler(op)
<1>1. PICK todo : todo = cmd[op].todo
  OBVIOUS
<1>2. \A i \in DOMAIN todo : todo[i] # "handler"
  <2>1. CASE todo \in {<<"drop", "each">>, <<"resume", "drop", "each">>, <<"work", "resume", "drop", "each">>}
    BY <2>1
  <2>2. CASE todo \in {<<"forget", "each">>, <<"remove", "forget", "each">>,
              <<"resume", "remove", "forget", "each">>, <<"work", "resume", "remove", "forget", "each">>}
    BY <2>2
  <2>3. ASSUME NEW check \in Checks, todo = <<check, "work", "resume", "drop", "each">>
        PROVE  \A i \in DOMAIN todo : todo[i] # "handler"
    BY <2>3 DEF Checks
  <2>4. ASSUME NEW check \in Checks, todo = <<check, "work", "resume", "remove", "forget", "each">>
        PROVE  \A i \in DOMAIN todo : todo[i] # "handler"
    BY <2>4 DEF Checks
  <2>. QED BY <1>1, <2>1, <2>2, <2>3, <2>4 DEF Owing
<1>. QED BY <1>1, <1>2 DEF InHandler

LEMMA HeadOfAdoption ==
  ASSUME NEW todo \in AdoptPlans, todo # <<>>
  PROVE  /\ Head(todo) \in {"access", "tab", "look", "handler", "claim", "restore", "confirm", "revoke"}
         /\ Tail(todo) # <<"claim", "confirm">> /\ Skip(Tail(todo)) # <<"claim", "confirm">>
         /\ Head(todo) = "claim" => todo = <<"claim", "confirm">>
         /\ Head(todo) = "restore" => todo = <<"restore", "confirm">>
         /\ Head(todo) = "confirm" <=> todo = <<"confirm">>
         /\ Head(todo) = "revoke" <=> todo = <<"revoke">>
<1>1. CASE todo = <<"look">> \/ todo = <<"confirm">> \/ todo = <<"revoke">>
  BY <1>1 DEF Skip
<1>2. CASE todo = <<"tab", "look">>
  BY <1>2 DEF Skip
<1>3. CASE todo = <<"access", "tab", "look">>
  BY <1>3 DEF Skip
<1>4. CASE todo = <<"handler", "access", "tab", "look">>
  BY <1>4 DEF Skip
<1>5. CASE todo = <<"access", "handler", "access", "tab", "look">>
  <2>1. Tail(todo) = <<"handler", "access", "tab", "look">> /\ Head(todo) = "access"
    BY <1>5
  <2>2. Skip(<<"handler", "access", "tab", "look">>) = <<"access", "tab", "look">>
    BY DEF Skip
  <2>3. <<"handler", "access", "tab", "look">> # <<"claim", "confirm">>
        /\ <<"access", "tab", "look">> # <<"claim", "confirm">>
    OBVIOUS
  <2>4. todo # <<"confirm">> /\ todo # <<"revoke">>
    BY <1>5
  <2>. QED BY <2>1, <2>2, <2>3, <2>4
<1>6. CASE todo = <<"claim", "confirm">>
  BY <1>6 DEF Skip
<1>7. CASE todo = <<"restore", "confirm">>
  BY <1>7 DEF Skip
<1>. QED BY <1>1, <1>2, <1>3, <1>4, <1>5, <1>6, <1>7 DEF AdoptPlans

LEMMA AdoptionResumesNothing ==
  ASSUME NEW todo \in AdoptPlans, todo \in Seq(Step), todo # <<>>
  PROVE  Resumption(Tail(todo)) = <<>>
<1>1. PICK rest, marks : rest = Tail(todo) /\ marks = {i \in DOMAIN rest : rest[i] = "resume"}
  OBVIOUS
<1>2. Script("adoptTab", todo)
  BY DEF Script
<1>3. rest \in AdoptPlans
  <2>1. Script("adoptTab", Tail(todo))
    BY <1>2, ScriptTail
  <2>. QED BY <1>1, <2>1 DEF Script
<1>4. \A j \in DOMAIN rest : rest[j] # "resume"
  BY <1>3 DEF AdoptPlans
<1>5. marks = {}
  BY <1>1, <1>4
<1>. QED BY <1>1, <1>5 DEF Resumption

-----------------------------------------------------------------------------
(* A step that goes on with another list.                                    *)

(* The list of a release that was about a tab still is, or its record is     *)
(* gone.                                                                     *)
LEMMA PlainStep ==
  ASSUME IInv, PlanInv, NEW op \in Op, Busy(op), NEW c, Alike(c, cmd[op]),
         NEW list, Leads(op, c, list), Script(cmd[op].type, list), Writes(op), Quietly,
         cmd[op].type = "adoptTab" =>
           /\ list # <<"claim", "confirm">> \/ owned'[cmd[op].tab] = NoRecord
           /\ cmd[op].todo \in Doubtful =>
                access \/ owned'[cmd[op].tab] = NoRecord \/ (list # <<>> /\ list \in Doubtful),
         cmd[op].type = "releaseWorkspace" =>
           /\ cmd[op].todo \in Owing
           /\ list \in Owing \/ \A t \in Tab : t = cmd[op].tab => owned'[t] = NoRecord
  PROVE  Stepped(op)
<1>1. /\ \A o \in Op : o # op => cmd'[o] = cmd[o]
      /\ list = <<>> => cmd'[op] = Idle
      /\ list # <<>> => /\ cmd'[op] # Idle /\ cmd'[op].todo = list
                        /\ Alike(cmd'[op], cmd[op])
  BY DEF Leads, Alike
<1>2. Follows(op)
  BY <1>1 DEF Follows, Alike
<1>3. Settles(op)
  BY DEF Settles, Quietly
<1>4. Releases(op)
  <2> SUFFICES ASSUME cmd[op].type = "releaseWorkspace", cmd'[op] # Idle, ~cmd'[op].partial
               PROVE  /\ ~cmd[op].partial
                      /\ \A t \in Tab : Counted(cmd[op], t) /\ Owns(cmd[op].session, t) =>
                           owned'[t] = NoRecord \/ Counted(cmd'[op], t)
    BY DEF Releases
  <2>1. /\ list # <<>> /\ cmd'[op].todo = list /\ cmd'[op].partial = cmd[op].partial
        /\ cmd'[op].tab = cmd[op].tab /\ cmd'[op].survey = cmd[op].survey
    BY <1>1 DEF Alike
  <2>2. ASSUME NEW t \in Tab, Counted(cmd[op], t), owned'[t] # NoRecord
        PROVE  Counted(cmd'[op], t)
    <3>1. cmd[op].todo # <<"survey", "each">>
      BY OwingIsOn
    <3>2. CASE \E item \in cmd[op].survey : item.tab = t
      BY <2>1, <3>2 DEF Counted
    <3>3. CASE cmd[op].tab = t
      <4>1. list \in Owing
        BY <2>2, <3>3
      <4>2. list # <<"each">>
        BY <4>1, OwingIsOn
      <4>. QED BY <2>1, <3>3, <4>2 DEF Counted
    <3>. QED BY <2>2, <3>1, <3>2, <3>3 DEF Counted
  <2>. QED BY <2>1, <2>2
<1>5. Adopts(op)
  BY <1>1 DEF Adopts, Doubtful
<1>. QED BY <1>1, <1>2, <1>3, <1>4, <1>5 DEF Stepped, Quietly

LEMMA ScriptOf ==
  ASSUME IInv, PlanInv, NEW op \in Op, NEW step, At(op, step)
  PROVE  /\ Busy(op) /\ Script(cmd[op].type, cmd[op].todo) /\ Head(cmd[op].todo) = step
         /\ cmd[op].todo \in Seq(Step) /\ cmd[op].todo # <<>> /\ Good(cmd[op].todo, {})
         /\ cmd[op].type = "adoptTab" => cmd[op].todo \in AdoptPlans /\ cmd[op].tab \in Tab
         /\ cmd[op].type = "releaseWorkspace" => cmd[op].todo \in ReleasePlans
<1>1. Busy(op) /\ Head(cmd[op].todo) = step
  BY DEF At
<1>2. Planned(cmd[op])
  BY <1>1 DEF PlanInv
<1>3. cmd[op].todo \in Seq(Step) /\ cmd[op].todo # <<>> /\ Good(cmd[op].todo, {})
  BY <1>1, BusyIs
<1>. QED BY <1>1, <1>2, <1>3 DEF Planned, Script

LEMMA ProceedStep ==
  ASSUME IInv, PlanInv, NEW op \in Op,
         NEW step \in {"access", "tab", "work", "keep", "remember", "verify", "remove", "drop", "forget"},
         At(op, step), Proceed(op), Writes(op), Quietly,
         step \in {"drop", "forget"} => \A t \in Tab : t = cmd[op].tab => owned'[t] = NoRecord
  PROVE  Stepped(op)
<1>1. /\ Busy(op) /\ Script(cmd[op].type, cmd[op].todo) /\ Head(cmd[op].todo) = step
      /\ cmd[op].todo \in Seq(Step) /\ cmd[op].todo # <<>>
      /\ cmd[op].type = "adoptTab" => cmd[op].todo \in AdoptPlans
      /\ cmd[op].type = "releaseWorkspace" => cmd[op].todo \in ReleasePlans
  BY ScriptOf
<1>2. PICK todo, rest, list : todo = cmd[op].todo /\ rest = Rest(op) /\ list = Skip(rest)
  OBVIOUS
<1>3. rest = Tail(todo) /\ rest \in Seq(Step)
  BY <1>1, <1>2, BusyIs DEF Rest
<1>4. Leads(op, cmd[op], list)
  BY <1>1, <1>2, <1>3, GotoLeads DEF Proceed
<1>5. Script(cmd[op].type, list)
  BY <1>1, <1>2, <1>3, ScriptTail, ScriptSkip
<1>6. ASSUME cmd[op].type = "adoptTab"
      PROVE  list # <<"claim", "confirm">> /\ cmd[op].todo \notin Doubtful
  <2>1. todo \in AdoptPlans /\ todo # <<>> /\ Head(todo) = step
    BY <1>1, <1>2, <1>6
  <2>2. Skip(Tail(todo)) # <<"claim", "confirm">> /\ todo # <<"confirm">> /\ todo # <<"revoke">>
    BY <2>1, HeadOfAdoption
  <2>. QED BY <1>2, <1>3, <2>2 DEF Doubtful
<1>7. ASSUME cmd[op].type = "releaseWorkspace"
      PROVE  /\ cmd[op].todo \in Owing
             /\ list \in Owing \/ \A t \in Tab : t = cmd[op].tab => owned'[t] = NoRecord
  <2>1. todo \in ReleasePlans /\ todo # <<>> /\ Head(todo) = step
    BY <1>1, <1>2, <1>7
  <2>2. todo \in Owing
    BY <2>1, HeadOfRelease
  <2>3. step \notin {"drop", "forget"} => rest \in Owing
    BY <1>3, <2>1, <2>2, OwingGoesOn DEF GoesOn
  <2>. QED BY <1>2, <2>2, <2>3, SkipOwing
<1>8. Alike(cmd[op], cmd[op])
  BY DEF Alike
<1>. QED BY <1>1, <1>4, <1>5, <1>6, <1>7, <1>8, PlainStep

LEMMA ThrowStep ==
  ASSUME IInv, PlanInv, NEW op \in Op,
         NEW step \in {"access", "tab", "look", "assert", "assertCreated", "vanished", "revoke",
                       "restore", "remove"},
         At(op, step), Throw(op), Writes(op), Quietly,
         step = "remove" => cmd[op].type = "closeTab",
         step = "revoke" => \A t \in Tab : t = cmd[op].tab => owned'[t] = NoRecord
  PROVE  Stepped(op)
<1>1. /\ Busy(op) /\ Script(cmd[op].type, cmd[op].todo) /\ Head(cmd[op].todo) = step
      /\ cmd[op].todo \in Seq(Step) /\ cmd[op].todo # <<>> /\ Good(cmd[op].todo, {})
      /\ cmd[op].type = "adoptTab" => cmd[op].todo \in AdoptPlans /\ cmd[op].tab \in Tab
      /\ cmd[op].type = "releaseWorkspace" => cmd[op].todo \in ReleasePlans
  BY ScriptOf
<1>2. PICK todo, back, list : /\ todo = cmd[op].todo
                              /\ back = IF InHandler(op) THEN Resumption(Rest(op)) ELSE <<>>
                              /\ list = Skip(back)
  OBVIOUS
<1>3. Script(cmd[op].type, back) /\ back \in Seq(Step)
  <2>1. CASE InHandler(op)
    <3>1. back = Resumption(Tail(todo))
      BY <1>2, <2>1 DEF Rest
    <3>2. Script(cmd[op].type, back)
      BY <1>1, <1>2, <3>1, ScriptResumption
    <3>3. back \in Seq(Step)
      <4>1. PICK rest : rest = Tail(todo)
        OBVIOUS
      <4>2. Good(rest, {}) /\ rest \in Seq(Step)
        BY <1>1, <1>2, <4>1, TailIsGood DEF Good
      <4>3. \A i, j \in DOMAIN rest : rest[i] = "resume" /\ rest[j] = "resume" => i = j
        BY <4>2 DEF Good, Ordered
      <4>. QED BY <3>1, <4>1, <4>2, <4>3, ResumptionElements
    <3>. QED BY <3>2, <3>3
  <2>2. CASE ~InHandler(op)
    BY <1>2, <2>2, ScriptEmpty
  <2>. QED BY <2>1, <2>2
<1>4. Leads(op, cmd[op], list)
  BY <1>1, <1>2, <1>3, GotoLeads DEF Throw
<1>5. Script(cmd[op].type, list)
  BY <1>2, <1>3, ScriptSkip
<1>6. ASSUME cmd[op].type = "adoptTab"
      PROVE  /\ list # <<"claim", "confirm">>
             /\ cmd[op].todo \in Doubtful => owned'[cmd[op].tab] = NoRecord
  <2>1. todo \in AdoptPlans /\ todo # <<>> /\ Head(todo) = step /\ cmd[op].tab \in Tab
        /\ todo \in Seq(Step)
    BY <1>1, <1>2, <1>6
  <2>2. back = <<>>
    BY <1>2, <2>1, AdoptionResumesNothing DEF Rest
  <2>3. list = <<>>
    BY <1>2, <2>2 DEF Skip
  <2>4. todo \in Doubtful => step = "revoke"
    BY <2>1, HeadOfAdoption DEF Doubtful
  <2>5. list # <<"claim", "confirm">>
    BY <2>3
  <2>6. todo \in Doubtful => owned'[cmd[op].tab] = NoRecord
    BY <2>1, <2>4
  <2>. QED BY <1>2, <2>5, <2>6
<1>7. ASSUME cmd[op].type = "releaseWorkspace"
      PROVE  /\ cmd[op].todo \in Owing
             /\ list \in Owing \/ \A t \in Tab : t = cmd[op].tab => owned'[t] = NoRecord
  <2>1. todo \in ReleasePlans /\ todo # <<>> /\ Head(todo) = step /\ step # "remove"
    BY <1>1, <1>2, <1>7
  <2>2. todo \in Owing /\ step \in Checks
    BY <2>1, HeadOfRelease
  <2>3. InHandler(op)
    BY <1>2, <2>2, OwingInHandler
  <2>4. back \in Owing
    <3>1. back = Resumption(Tail(todo))
      BY <1>2, <2>3 DEF Rest
    <3>. QED BY <2>1, <2>2, <3>1, OwingChecks
  <2>. QED BY <1>2, <2>2, <2>4, SkipOwing
<1>8. Alike(cmd[op], cmd[op])
  BY DEF Alike
<1>. QED BY <1>1, <1>4, <1>5, <1>6, <1>7, <1>8, PlainStep

LEMMA ConsIsSteps ==
  ASSUME NEW step \in Step, NEW list \in Seq(Step)
  PROVE  <<step>> \o list \in Seq(Step)
BY ConsElements

(* An assertion that has come one await further.                             *)
LEMMA CheckStep ==
  ASSUME IInv, PlanInv, NEW op \in Op,
         NEW step \in {"assert", "assertCreated", "verify", "verifyAdopted"}, At(op, step),
         NEW check \in Checks, NEW c \in Handlers, Alike(c, cmd[op]),
         c.todo = <<check>> \o Rest(op), Become(op, c), owned' = owned, Quietly
  PROVE  Stepped(op)
<1>1. /\ Busy(op) /\ Script(cmd[op].type, cmd[op].todo) /\ Head(cmd[op].todo) = step
      /\ cmd[op].todo \in Seq(Step) /\ cmd[op].todo # <<>>
      /\ cmd[op].type = "adoptTab" => cmd[op].todo \in AdoptPlans
      /\ cmd[op].type = "releaseWorkspace" => cmd[op].todo \in ReleasePlans
  BY ScriptOf
<1>2. PICK todo, longer, list : todo = cmd[op].todo /\ longer = <<check>> \o Rest(op) /\ list = Skip(longer)
  OBVIOUS
<1>3. longer = <<check>> \o Tail(todo) /\ longer \in Seq(Step)
  <2>1. Rest(op) \in Seq(Step) /\ check \in Step
    BY <1>1, BusyIs DEF Checks, Step
  <2>2. longer \in Seq(Step)
    BY <1>2, <2>1, ConsIsSteps
  <2>. QED BY <1>2, <2>2 DEF Rest
<1>4. Leads(op, c, list)
  BY <1>1, <1>2, BecomeLeads, BusyIs
<1>5. Script(cmd[op].type, list)
  <2>1. Script(cmd[op].type, longer)
    BY <1>1, <1>2, <1>3, ScriptCheck
  <2>. QED BY <1>2, <1>3, <2>1, ScriptSkip
<1>6. cmd[op].type # "adoptTab"
  BY <1>1, HeadOfAdoption
<1>7. ASSUME cmd[op].type = "releaseWorkspace"
      PROVE  cmd[op].todo \in Owing /\ list \in Owing
  <2>1. todo \in ReleasePlans /\ todo # <<>> /\ Head(todo) = step
    BY <1>1, <1>2, <1>7
  <2>2. todo \in Owing /\ step \in Checks
    BY <2>1, HeadOfRelease
  <2>3. longer \in Owing
    BY <1>3, <2>1, <2>2, OwingChecks
  <2>. QED BY <1>2, <2>2, <2>3, SkipOwing
<1>8. Writes(op)
  BY DEF Writes
<1>. QED BY <1>1, <1>4, <1>5, <1>6, <1>7, <1>8, PlainStep

-----------------------------------------------------------------------------
(* Each step of a command is such a step.                                    *)

LEMMA SameWrites == ASSUME NEW op, owned' = owned PROVE Writes(op)
BY DEF Writes

LEMMA DeletionWrites ==
  ASSUME IInv, NEW op, Own(cmd[op].tab, NoRecord)
  PROVE  Writes(op) /\ \A t \in Tab : t = cmd[op].tab => owned'[t] = NoRecord
<1>1. \A t \in Tab : (t = cmd[op].tab => owned'[t] = NoRecord)
                     /\ (t # cmd[op].tab => owned'[t] = owned[t])
  BY DEF IInv, OwnedInv, Own
<1>. QED BY <1>1 DEF Writes

LEMMA CheckAccessSteps == ASSUME IInv, PlanInv, NEW op \in Op, CheckAccess(op) PROVE Stepped(op)
<1>1. Writes(op) /\ Quietly
  BY SameWrites DEF CheckAccess, Quietly, faultVars
<1>. QED BY <1>1, ProceedStep, ThrowStep DEF CheckAccess

LEMMA AssertSteps == ASSUME IInv, PlanInv, NEW op \in Op, Assert(op) PROVE Stepped(op)
<1>1. Writes(op) /\ Quietly /\ owned' = owned
  BY SameWrites DEF Assert, Quietly, faultVars
<1>2. PICK step \in {"assert", "assertCreated"} : At(op, step)
  BY DEF Assert
<1>3. PICK check \in Checks :
        \/ Throw(op)
        \/ Become(op, [cmd[op] EXCEPT !.todo = <<check>> \o Rest(op), !.granted = access])
  <2>1. PICK check : check = IF owned[cmd[op].tab].kind = "adopted" THEN "verifyAdopted" ELSE "verify"
    OBVIOUS
  <2>2. check \in Checks
    BY <2>1 DEF Checks
  <2>. QED BY <2>1, <2>2 DEF Assert
<1>4. CASE Throw(op)
  BY <1>1, <1>2, <1>4, ThrowStep
<1>5. CASE Become(op, [cmd[op] EXCEPT !.todo = <<check>> \o Rest(op), !.granted = access])
  <2>1. Busy(op) /\ cmd[op] \in Handlers /\ access \in BOOLEAN
    BY <1>2, BusyIs DEF At, IInv, SettingsInv
  <2>2. PICK list, now : list = <<check>> \o Rest(op) /\ now = access
    OBVIOUS
  <2>3. list \in Seq(Step)
    BY <2>1, <2>2, BusyIs, ConsIsSteps DEF Checks, Step
  <2>4. PICK c : c = [cmd[op] EXCEPT !.todo = list, !.granted = now]
    OBVIOUS
  <2>5. c \in Handlers /\ c.todo = list /\ Alike(c, cmd[op])
    BY <2>1, <2>2, <2>3, <2>4 DEF Handlers, Alike
  <2>6. Become(op, c)
    BY <1>5, <2>2, <2>4
  <2>. QED BY <1>1, <1>2, <2>2, <2>5, <2>6, CheckStep
<1>. QED BY <1>3, <1>4, <1>5

LEMMA VerifySteps == ASSUME IInv, PlanInv, NEW op \in Op, Verify(op) PROVE Stepped(op)
<1>1. Writes(op) /\ Quietly /\ owned' = owned
  BY SameWrites DEF Verify, Quietly, faultVars
<1>2. ASSUME NEW step \in {"verify", "verifyAdopted"}, At(op, step), NEW check \in Checks,
             Goto(op, <<check>> \o Rest(op))
      PROVE  Stepped(op)
  <2>1. Busy(op) /\ cmd[op] \in Handlers
    BY <1>2, BusyIs DEF At
  <2>2. PICK list : list = <<check>> \o Rest(op)
    OBVIOUS
  <2>3. list \in Seq(Step)
    BY <2>1, <2>2, BusyIs, ConsIsSteps DEF Checks, Step
  <2>4. PICK c : c = [cmd[op] EXCEPT !.todo = list]
    OBVIOUS
  <2>5. c \in Handlers /\ c.todo = list /\ Alike(c, cmd[op])
    BY <2>1, <2>3, <2>4 DEF Handlers, Alike
  <2>6. Become(op, c)
    BY <1>2, <2>2, <2>4 DEF Goto
  <2>. QED BY <1>1, <1>2, <2>2, <2>5, <2>6, CheckStep
<1>3. CASE /\ At(op, "verifyAdopted")
           /\ Goto(op, <<IF access THEN "verify" ELSE "revoke">> \o Rest(op))
  BY <1>2, <1>3 DEF Checks
<1>4. CASE /\ At(op, "verify")
           /\ Proceed(op) \/ Goto(op, <<"vanished">> \o Rest(op))
  BY <1>1, <1>2, <1>4, ProceedStep DEF Checks
<1>. QED BY <1>3, <1>4 DEF Verify

LEMMA DeleteSteps == ASSUME IInv, PlanInv, NEW op \in Op, Delete(op) PROVE Stepped(op)
<1>1. Writes(op) /\ (\A t \in Tab : t = cmd[op].tab => owned'[t] = NoRecord) /\ Quietly
  BY DeletionWrites DEF Delete, Quietly, faultVars
<1>2. CASE At(op, "revoke") \/ At(op, "vanished")
  BY <1>1, <1>2, ThrowStep DEF Delete
<1>3. CASE ~(At(op, "revoke") \/ At(op, "vanished"))
  BY <1>1, <1>3, ProceedStep DEF Delete
<1>. QED BY <1>2, <1>3

LEMMA WorkSteps == ASSUME IInv, PlanInv, NEW op \in Op, Work(op) PROVE Stepped(op)
<1>1. Writes(op) /\ Quietly
  BY SameWrites DEF Work, Quietly, faultVars
<1>. QED BY <1>1, ProceedStep DEF Work

LEMMA GetTabSteps == ASSUME IInv, PlanInv, NEW op \in Op, GetTab(op) PROVE Stepped(op)
<1>1. Writes(op) /\ Quietly
  BY SameWrites DEF GetTab, Quietly, faultVars
<1>. QED BY <1>1, ProceedStep, ThrowStep DEF GetTab

LEMMA KeepSteps == ASSUME IInv, PlanInv, NEW op \in Op, Keep(op) PROVE Stepped(op)
<1>1. Quietly /\ At(op, "keep") /\ Proceed(op)
  BY DEF Keep, Quietly, faultVars
<1>2. Writes(op)
  <2>1. PICK t, record : /\ t = cmd[op].tab
                         /\ record = [owned[t] EXCEPT !.kind = "released", !.previousKind = owned[t].kind]
    OBVIOUS
  <2>2. CASE owned' = owned
    BY <2>2, SameWrites
  <2>3. CASE owned[t] # NoRecord /\ Own(t, record)
    <3>1. \A u \in Tab : u # t => owned'[u] = owned[u]
      BY <2>3 DEF IInv, OwnedInv, Own
    <3>2. ASSUME t \in Tab
          PROVE  owned'[t] # NoRecord /\ owned'[t].kind = "released" /\ owned'[t].session = owned[t].session
      <4>1. owned[t] \in Records
        BY <2>3, <3>2 DEF IInv, OwnedInv
      <4>2. record \in Records /\ record.kind = "released" /\ record.session = owned[t].session
        BY <2>1, <4>1 DEF Records, Kinds
      <4>3. owned'[t] = record
        BY <2>3, <3>2 DEF IInv, OwnedInv, Own
      <4>. QED BY <4>2, <4>3, RecordAssumption
    <3>. QED BY <2>3, <3>1, <3>2 DEF Writes
  <2>. QED BY <2>1, <2>2, <2>3 DEF Keep
<1>. QED BY <1>1, <1>2, ProceedStep

(* What a command writes goes to the record of its tab.                      *)
LEMMA RecordWrites ==
  ASSUME IInv, NEW op \in Op, Busy(op), NEW t, t = cmd[op].tab,
         cmd[op].type # "releaseWorkspace", NEW record \in Records, Own(t, record),
         record.kind # "released", record.session = cmd[op].session, record.late = ~cmd[op].gate,
         \/ t \notin UserTab /\ record.kind # "adopted"
         \/ /\ cmd[op].type = "adoptTab"
            /\ cmd'[op] # Idle /\ cmd'[op].todo = <<"confirm">> /\ cmd'[op].tab = t
            /\ \/ cmd[op].todo = <<"claim", "confirm">>
               \/ owned[t] # NoRecord /\ owned[t].session = cmd[op].session
  PROVE  Writes(op)
<1>1. \A u \in Tab : u # t => owned'[u] = owned[u]
  BY DEF IInv, OwnedInv, Own
<1>2. t \in Tab => owned'[t] = record
  BY DEF IInv, OwnedInv, Own
<1>3. record # NoRecord
  BY RecordAssumption
<1>. QED BY <1>1, <1>2, <1>3 DEF Writes

LEMMA RememberSteps == ASSUME IInv, PlanInv, NEW op \in Op, Remember(op) PROVE Stepped(op)
<1>1. Quietly /\ At(op, "remember") /\ Proceed(op) /\ Own(cmd[op].tab, RecordOf(op, "created"))
  BY DEF Remember, Quietly, faultVars
<1>2. /\ Busy(op) /\ cmd[op].todo # <<>> /\ Head(cmd[op].todo) = "remember"
      /\ cmd[op].type = "releaseWorkspace" => cmd[op].todo \in ReleasePlans
  BY <1>1, ScriptOf
<1>3. cmd[op].type # "releaseWorkspace"
  BY <1>2, HeadOfRelease DEF Checks
<1>4. CmdInv
  BY DEF IInv
<1>5. cmd[op].tab \notin UserTab
  <2>1. "remember" \notin Dangers(cmd[op])
    BY <1>1, <1>4, HeadIsSafe
  <2>. QED BY <2>1 DEF Dangers
<1>6. PICK record : record = RecordOf(op, "created")
  OBVIOUS
<1>7. record \in Records /\ record.kind = "created"
  BY <1>2, <1>4, <1>6, RecordOfType DEF Kinds, Created
<1>8. record.session = cmd[op].session /\ record.late = ~cmd[op].gate
  BY <1>6 DEF RecordOf
<1>9. Own(cmd[op].tab, record)
  BY <1>1, <1>6
<1>10. Writes(op)
  BY <1>2, <1>3, <1>5, <1>7, <1>8, <1>9, RecordWrites
<1>. QED BY <1>1, <1>10, ProceedStep

(* The last steps of an adoption.                                            *)
LEMMA LastOfAdoption ==
  ASSUME IInv, PlanInv, NEW op \in Op, NEW step \in {"look", "claim", "restore", "confirm"}, At(op, step)
  PROVE  /\ Busy(op) /\ cmd[op].type = "adoptTab" /\ cmd[op].todo \in AdoptPlans
         /\ cmd[op].todo # <<>> /\ Head(cmd[op].todo) = step /\ cmd[op].tab \in Tab
<1>1. /\ Busy(op) /\ Script(cmd[op].type, cmd[op].todo) /\ Head(cmd[op].todo) = step
      /\ cmd[op].todo \in Seq(Step) /\ cmd[op].todo # <<>>
      /\ cmd[op].type = "adoptTab" => cmd[op].todo \in AdoptPlans /\ cmd[op].tab \in Tab
      /\ cmd[op].type = "releaseWorkspace" => cmd[op].todo \in ReleasePlans
  BY ScriptOf
<1>2. cmd[op].type # "releaseWorkspace"
  BY <1>1, HeadOfRelease DEF Checks
<1>3. cmd[op].type = "adoptTab"
  <2>1. SUFFICES ASSUME cmd[op].type # "adoptTab" PROVE FALSE
    OBVIOUS
  <2>2. PICK todo : todo = cmd[op].todo
    OBVIOUS
  <2>3. \A i \in DOMAIN todo : todo[i] \notin Elsewhere
    BY <1>1, <1>2, <2>1, <2>2 DEF Script
  <2>4. 1 \in DOMAIN todo /\ todo[1] = step
    BY <1>1, <2>2, TailElements
  <2>. QED BY <2>3, <2>4 DEF Elsewhere
<1>. QED BY <1>1, <1>3

LEMMA LookSteps == ASSUME IInv, PlanInv, NEW op \in Op, Look(op) PROVE Stepped(op)
<1>1. Writes(op) /\ Quietly /\ owned' = owned /\ At(op, "look")
  BY SameWrites DEF Look, Quietly, faultVars
<1>2. /\ Busy(op) /\ cmd[op].type = "adoptTab" /\ cmd[op].todo \in AdoptPlans
      /\ cmd[op].todo # <<>> /\ Head(cmd[op].todo) = "look" /\ cmd[op].tab \in Tab
  BY <1>1, LastOfAdoption
<1>3. cmd[op].todo \notin Doubtful
  BY <1>2, HeadOfAdoption DEF Doubtful
<1>4. PICK first, second : first = <<"claim", "confirm">> /\ second = <<"restore", "confirm">>
  OBVIOUS
<1>5. /\ first \in Seq(Step) /\ second \in Seq(Step) /\ Skip(first) = first /\ Skip(second) = second
      /\ first \in AdoptPlans /\ second \in AdoptPlans /\ second # first
  <2>1. first \in Seq(Step) /\ second \in Seq(Step)
    BY <1>4 DEF Step
  <2>2. Skip(first) = first /\ Skip(second) = second
    BY <1>4 DEF Skip
  <2>3. first \in AdoptPlans /\ second \in AdoptPlans
    BY <1>4 DEF AdoptPlans
  <2>4. second # first
    BY <1>4
  <2>. QED BY <2>1, <2>2, <2>3, <2>4
<1>6. Alike(cmd[op], cmd[op])
  BY DEF Alike
<1>7. CASE Goto(op, first) /\ owned[cmd[op].tab] = NoRecord
  <2>1. Leads(op, cmd[op], first)
    BY <1>2, <1>5, <1>7, GotoLeads
  <2>2. Script(cmd[op].type, first)
    BY <1>2, <1>5 DEF Script
  <2>. QED BY <1>1, <1>2, <1>3, <1>6, <1>7, <2>1, <2>2, PlainStep
<1>8. CASE Goto(op, second)
  <2>1. Leads(op, cmd[op], second)
    BY <1>2, <1>5, <1>8, GotoLeads
  <2>2. Script(cmd[op].type, second)
    BY <1>2, <1>5 DEF Script
  <2>3. second # <<"claim", "confirm">>
    BY <1>4, <1>5
  <2>. QED BY <1>1, <1>2, <1>3, <1>6, <2>1, <2>2, <2>3, PlainStep
<1>9. CASE Throw(op)
  BY <1>1, <1>9, ThrowStep
<1>. QED BY <1>4, <1>7, <1>8, <1>9 DEF Look

(* A claim or a restoration goes on to <<"confirm">>.                        *)
LEMMA ConfirmsNext ==
  ASSUME IInv, PlanInv, NEW op \in Op, NEW step \in {"claim", "restore"}, At(op, step),
         Proceed(op)
  PROVE  /\ Leads(op, cmd[op], <<"confirm">>) /\ Script(cmd[op].type, <<"confirm">>)
         /\ cmd'[op] # Idle /\ cmd'[op].todo = <<"confirm">> /\ cmd'[op].tab = cmd[op].tab
         /\ step = "claim" => cmd[op].todo = <<"claim", "confirm">>
         /\ cmd[op].todo \notin Doubtful
<1>1. /\ Busy(op) /\ cmd[op].type = "adoptTab" /\ cmd[op].todo \in AdoptPlans
      /\ cmd[op].todo # <<>> /\ Head(cmd[op].todo) = step
  BY LastOfAdoption
<1>2. PICK todo, rest : todo = cmd[op].todo /\ rest = Tail(todo)
  OBVIOUS
<1>3. /\ step = "claim" => todo = <<"claim", "confirm">>
      /\ step = "restore" => todo = <<"restore", "confirm">>
      /\ todo \notin Doubtful
  BY <1>1, <1>2, HeadOfAdoption DEF Doubtful
<1>4. Tail(<<"claim", "confirm">>) = <<"confirm">> /\ Tail(<<"restore", "confirm">>) = <<"confirm">>
  OBVIOUS
<1>5. rest = <<"confirm">>
  BY <1>2, <1>3, <1>4
<1>6. <<"confirm">> \in Seq(Step) /\ Skip(<<"confirm">>) = <<"confirm">> /\ <<"confirm">> # <<>>
  BY DEF Step, Skip
<1>7. Goto(op, rest)
  BY <1>2 DEF Proceed, Rest
<1>8. Leads(op, cmd[op], <<"confirm">>)
  BY <1>1, <1>5, <1>6, <1>7, GotoLeads
<1>9. Script(cmd[op].type, <<"confirm">>)
  BY <1>1 DEF Script, AdoptPlans
<1>. QED BY <1>2, <1>3, <1>6, <1>8, <1>9 DEF Leads, Alike

LEMMA AdoptionStep ==
  ASSUME IInv, PlanInv, NEW op \in Op, NEW step \in {"claim", "restore"}, At(op, step),
         Proceed(op), Writes(op), Quietly
  PROVE  Stepped(op)
<1>1. Busy(op) /\ cmd[op].type = "adoptTab"
  BY LastOfAdoption
<1>2. /\ Leads(op, cmd[op], <<"confirm">>) /\ Script(cmd[op].type, <<"confirm">>)
      /\ cmd[op].todo \notin Doubtful
  BY ConfirmsNext
<1>3. <<"confirm">> # <<"claim", "confirm">> /\ Alike(cmd[op], cmd[op])
  BY DEF Alike
<1>. QED BY <1>1, <1>2, <1>3, PlainStep

LEMMA ClaimSteps == ASSUME IInv, PlanInv, NEW op \in Op, Claim(op) PROVE Stepped(op)
<1>1. Quietly /\ At(op, "claim") /\ Proceed(op) /\ Own(cmd[op].tab, RecordOf(op, "adopted"))
  BY DEF Claim, Quietly, faultVars
<1>2. Busy(op) /\ cmd[op].type = "adoptTab"
  BY <1>1, LastOfAdoption
<1>3. /\ cmd'[op] # Idle /\ cmd'[op].todo = <<"confirm">> /\ cmd'[op].tab = cmd[op].tab
      /\ cmd[op].todo = <<"claim", "confirm">>
  BY <1>1, ConfirmsNext
<1>4. PICK record : record = RecordOf(op, "adopted")
  OBVIOUS
<1>5. record \in Records /\ record.kind = "adopted"
  BY <1>2, <1>4, RecordOfType DEF IInv, Kinds
<1>6. record.session = cmd[op].session /\ record.late = ~cmd[op].gate
  BY <1>4 DEF RecordOf
<1>7. Own(cmd[op].tab, record)
  BY <1>1, <1>4
<1>8. Writes(op)
  BY <1>2, <1>3, <1>5, <1>6, <1>7, RecordWrites
<1>. QED BY <1>1, <1>8, AdoptionStep

LEMMA RestoreSteps == ASSUME IInv, PlanInv, NEW op \in Op, Restore(op) PROVE Stepped(op)
<1>1. Quietly /\ At(op, "restore")
  BY DEF Restore, Quietly, faultVars
<1>2. Busy(op) /\ cmd[op].type = "adoptTab" /\ cmd[op].tab \in Tab
  BY <1>1, LastOfAdoption
<1>3. PICK t, kind, late :
        /\ t = cmd[op].tab /\ late = ~cmd[op].gate
        /\ kind = IF owned[t].previousKind = "none" THEN "adopted" ELSE owned[t].previousKind
  OBVIOUS
<1>4. PICK record : record = [owned[t] EXCEPT !.kind = kind, !.previousKind = "none", !.late = late]
  OBVIOUS
<1>5. CASE owned' = owned /\ Throw(op)
  BY <1>1, <1>5, SameWrites, ThrowStep
<1>6. CASE /\ owned[t] # NoRecord /\ owned[t].kind = "released" /\ owned[t].session = cmd[op].session
           /\ Own(t, record) /\ Proceed(op)
  <2>1. owned[t] \in Records
    BY <1>2, <1>3, <1>6 DEF IInv, OwnedInv
  <2>2. record.kind = kind /\ record.session = owned[t].session /\ record.late = late
    BY <1>4, <2>1 DEF Records
  <2>3. late \in BOOLEAN /\ kind \in Kinds
    BY <1>2, <1>3, <2>1, BusyIs DEF Handlers, Records, Kinds
  <2>4. record \in Records
    BY <1>4, <2>1, <2>3 DEF Records
  <2>6. cmd'[op] # Idle /\ cmd'[op].todo = <<"confirm">> /\ cmd'[op].tab = cmd[op].tab
    BY <1>1, <1>6, ConfirmsNext
  <2>5. ASSUME kind # "released" PROVE Writes(op)
    BY <1>2, <1>3, <1>6, <2>2, <2>4, <2>5, <2>6, RecordWrites
  <2>8. ASSUME kind = "released" PROVE Writes(op)
    <3>1. \A u \in Tab : u # t => owned'[u] = owned[u]
      BY <1>6 DEF IInv, OwnedInv, Own
    <3>2. owned'[t] = record
      BY <1>2, <1>3, <1>6 DEF IInv, OwnedInv, Own
    <3>. QED BY <1>6, <2>2, <2>4, <2>8, <3>1, <3>2, RecordAssumption DEF Writes
  <2>7. Writes(op)
    BY <2>5, <2>8
  <2>. QED BY <1>1, <1>6, <2>7, AdoptionStep
<1>. QED BY <1>3, <1>4, <1>5, <1>6 DEF Restore

LEMMA ConfirmSteps == ASSUME IInv, PlanInv, NEW op \in Op, Confirm(op) PROVE Stepped(op)
<1>1. Writes(op) /\ Quietly /\ At(op, "confirm")
  BY SameWrites DEF Confirm, Quietly, faultVars
<1>2. /\ Busy(op) /\ cmd[op].type = "adoptTab" /\ cmd[op].todo \in AdoptPlans
      /\ cmd[op].todo # <<>> /\ Head(cmd[op].todo) = "confirm"
  BY <1>1, LastOfAdoption
<1>3. cmd[op].todo = <<"confirm">> /\ Alike(cmd[op], cmd[op])
  BY <1>2, HeadOfAdoption DEF Alike
<1>4. CASE access /\ Proceed(op)
  <2>1. Rest(op) = <<>>
    BY <1>3 DEF Rest
  <2>2. Goto(op, <<>>) /\ Skip(<<>>) = <<>>
    BY <1>4, <2>1 DEF Proceed, Skip
  <2>6. PICK none : none = <<>> /\ none \in Seq(Step)
    BY EmptySeq
  <2>7. Leads(op, cmd[op], none)
    BY <1>2, <2>2, <2>6, GotoLeads
  <2>3. Leads(op, cmd[op], <<>>)
    BY <2>6, <2>7
  <2>4. Script(cmd[op].type, <<>>)
    BY ScriptEmpty
  <2>5. <<>> # <<"claim", "confirm">>
    OBVIOUS
  <2>. QED BY <1>1, <1>2, <1>3, <1>4, <2>3, <2>4, <2>5, PlainStep
<1>5. CASE Goto(op, <<"revoke">>)
  <2>1. <<"revoke">> \in Seq(Step) /\ Skip(<<"revoke">>) = <<"revoke">>
    BY DEF Step, Skip
  <2>2. Leads(op, cmd[op], <<"revoke">>)
    BY <1>2, <1>5, <2>1, GotoLeads
  <2>3. Script(cmd[op].type, <<"revoke">>)
    BY <1>2 DEF Script, AdoptPlans
  <2>4. <<"revoke">> # <<"claim", "confirm">> /\ <<"revoke">> # <<>> /\ <<"revoke">> \in Doubtful
    BY DEF Doubtful
  <2>. QED BY <1>1, <1>2, <1>3, <2>2, <2>3, <2>4, PlainStep
<1>. QED BY <1>4, <1>5 DEF Confirm

(* A release, and nothing else, is where it surveys or works through tabs.   *)
LEMMA StepOfRelease ==
  ASSUME IInv, PlanInv, NEW op \in Op, NEW step \in {"survey", "each"}, At(op, step)
  PROVE  /\ Busy(op) /\ cmd[op].type = "releaseWorkspace"
         /\ cmd[op].todo = IF step = "survey" THEN <<"survey", "each">> ELSE <<"each">>
<1>1. /\ Busy(op) /\ Script(cmd[op].type, cmd[op].todo) /\ Head(cmd[op].todo) = step
      /\ cmd[op].todo \in Seq(Step) /\ cmd[op].todo # <<>>
      /\ cmd[op].type = "adoptTab" => cmd[op].todo \in AdoptPlans /\ cmd[op].tab \in Tab
      /\ cmd[op].type = "releaseWorkspace" => cmd[op].todo \in ReleasePlans
  BY ScriptOf
<1>2. cmd[op].type # "adoptTab"
  BY <1>1, HeadOfAdoption
<1>3. cmd[op].type = "releaseWorkspace"
  <2>1. SUFFICES ASSUME cmd[op].type # "releaseWorkspace" PROVE FALSE
    OBVIOUS
  <2>2. PICK todo : todo = cmd[op].todo
    OBVIOUS
  <2>3. \A i \in DOMAIN todo : todo[i] \notin Elsewhere
    BY <1>1, <1>2, <2>1, <2>2 DEF Script
  <2>4. 1 \in DOMAIN todo /\ todo[1] = step
    BY <1>1, <2>2, TailElements
  <2>. QED BY <2>3, <2>4 DEF Elsewhere
<1>4. cmd[op].todo = IF step = "survey" THEN <<"survey", "each">> ELSE <<"each">>
  BY <1>1, <1>3, HeadOfRelease DEF Checks
<1>. QED BY <1>1, <1>3, <1>4

(* What a release does beside going on with its list.                        *)
LEMMA ReleaseStep ==
  ASSUME IInv, PlanInv, NEW op \in Op, Busy(op), cmd[op].type = "releaseWorkspace",
         NEW c \in Handlers, c.type = cmd[op].type, c.session = cmd[op].session,
         c.command = cmd[op].command, c.gate = cmd[op].gate,
         NEW list, Leads(op, c, list), Script(cmd[op].type, list), Writes(op), Quietly,
         ~c.partial => ~cmd[op].partial,
         \A t \in Tab : ~c.partial /\ list # <<>> /\ Counted(cmd[op], t) /\ Owns(cmd[op].session, t) =>
           \/ owned'[t] = NoRecord
           \/ \E item \in c.survey : item.tab = t
           \/ c.tab = t /\ list # <<"each">>
  PROVE  Stepped(op)
<1>1. /\ \A o \in Op : o # op => cmd'[o] = cmd[o]
      /\ list = <<>> => cmd'[op] = Idle
      /\ list # <<>> => cmd'[op] # Idle /\ cmd'[op].todo = list /\ Alike(cmd'[op], c)
  BY DEF Leads
<1>2. Follows(op)
  BY <1>1 DEF Follows, Alike
<1>3. Settles(op)
  BY DEF Settles, Quietly
<1>4. Releases(op)
  BY <1>1 DEF Releases, Counted, Alike
<1>5. Adopts(op)
  BY DEF Adopts
<1>. QED BY <1>1, <1>2, <1>3, <1>4, <1>5 DEF Stepped, Quietly

LEMMA SurveySteps == ASSUME IInv, PlanInv, NEW op \in Op, Survey(op) PROVE Stepped(op)
<1>1. Writes(op) /\ Quietly /\ At(op, "survey") /\ owned' = owned
  BY SameWrites DEF Survey, Quietly, faultVars
<1>2. Busy(op) /\ cmd[op].type = "releaseWorkspace" /\ cmd[op].todo = <<"survey", "each">>
  BY <1>1, StepOfRelease
<1>3. PICK rest, mine :
        /\ rest = <<"each">>
        /\ mine = {[tab |-> t, kind |-> owned[t].kind] :
                     t \in {u \in Tab : Owns(cmd[op].session, u)}}
  OBVIOUS
<1>4. Rest(op) = rest /\ rest \in Seq(Step) /\ Skip(rest) = rest
  <2>1. Tail(<<"survey", "each">>) = <<"each">>
    OBVIOUS
  <2>2. rest \in Seq(Step) /\ Skip(rest) = rest
    BY <1>3 DEF Step, Skip
  <2>. QED BY <1>2, <1>3, <2>1, <2>2 DEF Rest
<1>5. mine \in SUBSET [tab : Tab, kind : Kinds]
  <2>1. ASSUME NEW t \in Tab, Owns(cmd[op].session, t)
        PROVE  [tab |-> t, kind |-> owned[t].kind] \in [tab : Tab, kind : Kinds]
    <3>1. owned[t] \in Records
      BY <2>1 DEF Owns, IInv, OwnedInv
    <3>. QED BY <3>1 DEF Records
  <2>. QED BY <1>3, <2>1
<1>6. \A t \in Tab : Owns(cmd[op].session, t) => \E item \in mine : item.tab = t
  <2>1. ASSUME NEW t \in Tab, Owns(cmd[op].session, t)
        PROVE  \E item \in mine : item.tab = t
    <3>1. [tab |-> t, kind |-> owned[t].kind] \in mine
      BY <1>3, <2>1
    <3>. QED BY <3>1
  <2>. QED BY <2>1
<1>7. PICK c : c = [cmd[op] EXCEPT !.todo = rest, !.survey = mine]
  OBVIOUS
<1>8. cmd[op] \in Handlers
  BY <1>2, BusyIs
<1>9. c \in Handlers
  BY <1>4, <1>5, <1>7, <1>8 DEF Handlers
<1>10. /\ c.todo = rest /\ c.survey = mine /\ c.type = cmd[op].type /\ c.session = cmd[op].session
       /\ c.command = cmd[op].command /\ c.gate = cmd[op].gate /\ c.partial = cmd[op].partial
  BY <1>7, <1>8 DEF Handlers
<1>11. Become(op, c)
  BY <1>1, <1>3, <1>4, <1>7 DEF Survey
<1>12. Leads(op, c, rest)
  BY <1>2, <1>4, <1>9, <1>10, <1>11, BecomeLeads, BusyIs
<1>13. Script(cmd[op].type, rest)
  BY <1>2, <1>3 DEF Script, ReleasePlans
<1>. QED BY <1>1, <1>2, <1>6, <1>9, <1>10, <1>12, <1>13, ReleaseStep

LEMMA ReleaseOneOwes == \A closing : ReleaseOne(closing) \in Owing /\ ReleaseOne(closing) \in Seq(Step)
<1>1. PICK first, second : /\ first = <<"assert", "work", "resume", "remove", "forget", "each">>
                           /\ second = <<"assert", "work", "resume", "drop", "each">>
  OBVIOUS
<1>2. first \in Seq(Step) /\ second \in Seq(Step)
  BY <1>1 DEF Step
<1>3. first \in Owing /\ second \in Owing
  BY <1>1 DEF Owing, Checks
<1>. QED BY <1>1, <1>2, <1>3 DEF ReleaseOne

LEMMA ReleaseNextSteps == ASSUME IInv, PlanInv, NEW op \in Op, ReleaseNext(op) PROVE Stepped(op)
<1>1. Writes(op) /\ Quietly /\ At(op, "each") /\ owned' = owned
  BY SameWrites DEF ReleaseNext, Quietly, faultVars
<1>2. Busy(op) /\ cmd[op].type = "releaseWorkspace" /\ cmd[op].todo = <<"each">>
  BY <1>1, StepOfRelease
<1>3. PICK item \in cmd[op].survey :
        \E closing \in BOOLEAN :
          Become(op, [cmd[op] EXCEPT !.todo = ReleaseOne(closing),
                                     !.survey = cmd[op].survey \ {item}, !.tab = item.tab])
  <2>1. \A item : (cmd[op].close /\ item.kind \in Created) \in BOOLEAN
    OBVIOUS
  <2>. QED BY <2>1 DEF ReleaseNext
<1>4. PICK closing \in BOOLEAN :
          Become(op, [cmd[op] EXCEPT !.todo = ReleaseOne(closing),
                                     !.survey = cmd[op].survey \ {item}, !.tab = item.tab])
  BY <1>3
<1>5. PICK list, left, t : list = ReleaseOne(closing) /\ left = cmd[op].survey \ {item} /\ t = item.tab
  OBVIOUS
<1>6. list \in Owing /\ list \in Seq(Step)
  BY <1>5, ReleaseOneOwes
<1>7. PICK c : c = [cmd[op] EXCEPT !.todo = list, !.survey = left, !.tab = t]
  OBVIOUS
<1>8. cmd[op] \in Handlers
  BY <1>2, BusyIs
<1>9. t \in Tab /\ left \in SUBSET [tab : Tab, kind : Kinds]
  BY <1>5, <1>8 DEF Handlers
<1>10. c \in Handlers
  BY <1>6, <1>7, <1>8, <1>9 DEF Handlers
<1>11. /\ c.todo = list /\ c.survey = left /\ c.tab = t /\ c.type = cmd[op].type
       /\ c.session = cmd[op].session /\ c.command = cmd[op].command
       /\ c.gate = cmd[op].gate /\ c.partial = cmd[op].partial
  BY <1>7, <1>8 DEF Handlers
<1>12. Become(op, c)
  BY <1>4, <1>5, <1>7
<1>13. PICK next : next = Skip(list) /\ next \in Owing
  BY <1>6, SkipOwing
<1>14. Leads(op, c, next)
  BY <1>2, <1>10, <1>11, <1>12, <1>13, BecomeLeads, BusyIs
<1>15. Script(cmd[op].type, next)
  BY <1>2, <1>13 DEF Script, ReleasePlans
<1>16. ASSUME NEW u \in Tab, Counted(cmd[op], u)
       PROVE  (\E other \in c.survey : other.tab = u) \/ (c.tab = u /\ next # <<"each">>)
  <2>1. cmd[op].todo # <<"survey", "each">>
    BY <1>2
  <2>2. PICK other \in cmd[op].survey : other.tab = u
    BY <1>2, <1>16, <2>1 DEF Counted
  <2>3. other = item \/ other \in c.survey
    BY <1>5, <1>11
  <2>4. next # <<"each">>
    BY <1>13, OwingIsOn
  <2>. QED BY <1>5, <1>11, <2>2, <2>3, <2>4
<1>. QED BY <1>1, <1>2, <1>10, <1>11, <1>14, <1>15, <1>16, ReleaseStep

LEMMA DropFailsSteps == ASSUME IInv, PlanInv, NEW op \in Op, DropFails(op) PROVE Stepped(op)
<1>1. Quietly /\ At(op, "drop") /\ cmd[op].type = "releaseWorkspace"
  BY DEF DropFails, Quietly, faultVars
<1>2. Writes(op)
  BY SameWrites, DeletionWrites DEF DropFails
<1>3. /\ Busy(op) /\ Script(cmd[op].type, cmd[op].todo)
      /\ cmd[op].todo \in Seq(Step) /\ cmd[op].todo # <<>> /\ Rest(op) \in Seq(Step)
  BY <1>1, ScriptOf, BusyIs
<1>4. PICK rest, yes : rest = Rest(op) /\ yes = TRUE
  OBVIOUS
<1>5. PICK c : c = [cmd[op] EXCEPT !.todo = rest, !.partial = yes]
  OBVIOUS
<1>6. cmd[op] \in Handlers
  BY <1>3, BusyIs
<1>7. c \in Handlers
  BY <1>3, <1>4, <1>5, <1>6 DEF Handlers
<1>8. /\ c.todo = rest /\ c.partial /\ c.type = cmd[op].type /\ c.session = cmd[op].session
      /\ c.command = cmd[op].command /\ c.gate = cmd[op].gate
  BY <1>4, <1>5, <1>6 DEF Handlers
<1>9. Become(op, c)
  BY <1>4, <1>5 DEF DropFails
<1>10. Leads(op, c, Skip(rest))
  BY <1>3, <1>7, <1>8, <1>9, BecomeLeads, BusyIs
<1>11. Script(cmd[op].type, Skip(rest))
  <2>1. Script(cmd[op].type, rest)
    BY <1>3, <1>4, ScriptTail DEF Rest
  <2>. QED BY <1>3, <1>4, <2>1, ScriptSkip
<1>. QED BY <1>1, <1>2, <1>3, <1>7, <1>8, <1>10, <1>11, ReleaseStep

LEMMA RemoveTabSteps == ASSUME IInv, PlanInv, NEW op \in Op, RemoveTab(op) PROVE Stepped(op)
<1>1. Writes(op) /\ Quietly /\ At(op, "remove")
  BY SameWrites DEF RemoveTab, Quietly, faultVars
<1>2. Busy(op)
  BY <1>1 DEF At
<1>3. CASE Proceed(op)
  BY <1>1, <1>3, ProceedStep
<1>4. CASE cmd[op].type = "closeTab" /\ Throw(op)
  BY <1>1, <1>4, ThrowStep
<1>5. CASE /\ cmd[op].type = "releaseWorkspace"
           /\ Become(op, [cmd[op] EXCEPT !.todo = <<"each">>, !.partial = TRUE])
  <2>1. PICK list, yes : list = <<"each">> /\ yes = TRUE
    OBVIOUS
  <2>2. PICK c : c = [cmd[op] EXCEPT !.todo = list, !.partial = yes]
    OBVIOUS
  <2>3. cmd[op] \in Handlers /\ list \in Seq(Step) /\ Skip(list) = list
    BY <1>2, <2>1, BusyIs DEF Step, Skip
  <2>4. c \in Handlers
    BY <2>1, <2>2, <2>3 DEF Handlers
  <2>5. /\ c.todo = list /\ c.partial /\ c.type = cmd[op].type /\ c.session = cmd[op].session
        /\ c.command = cmd[op].command /\ c.gate = cmd[op].gate
    BY <2>1, <2>2, <2>3 DEF Handlers
  <2>6. Become(op, c)
    BY <1>5, <2>1, <2>2
  <2>7. Leads(op, c, list)
    BY <1>2, <2>3, <2>4, <2>5, <2>6, BecomeLeads, BusyIs
  <2>8. Script(cmd[op].type, list)
    BY <1>5, <2>1 DEF Script, ReleasePlans
  <2>. QED BY <1>1, <1>2, <1>5, <2>4, <2>5, <2>7, <2>8, ReleaseStep
<1>. QED BY <1>3, <1>4, <1>5 DEF RemoveTab

LEMMA CreateTabSteps == ASSUME IInv, PlanInv, NEW op \in Op, CreateTab(op) PROVE Stepped(op)
<1>1. Writes(op) /\ Quietly /\ At(op, "create")
  BY SameWrites DEF CreateTab, Quietly, faultVars
<1>2. /\ Busy(op) /\ Script(cmd[op].type, cmd[op].todo) /\ Head(cmd[op].todo) = "create"
      /\ cmd[op].todo \in Seq(Step) /\ cmd[op].todo # <<>>
      /\ cmd[op].type = "adoptTab" => cmd[op].todo \in AdoptPlans /\ cmd[op].tab \in Tab
      /\ cmd[op].type = "releaseWorkspace" => cmd[op].todo \in ReleasePlans
  BY <1>1, ScriptOf
<1>3. cmd[op].type \notin {"adoptTab", "releaseWorkspace"}
  BY <1>2, HeadOfAdoption, HeadOfRelease DEF Checks
<1>4. PICK t \in unborn : Become(op, [cmd[op] EXCEPT !.todo = Rest(op), !.tab = t])
  BY DEF CreateTab
<1>5. PICK rest : rest = Rest(op)
  OBVIOUS
<1>6. PICK c : c = [cmd[op] EXCEPT !.todo = rest, !.tab = t]
  OBVIOUS
<1>7. cmd[op] \in Handlers /\ rest \in Seq(Step) /\ t \in Tab
  BY <1>2, <1>5, BusyIs DEF IInv, ChromeInv
<1>8. c \in Handlers
  BY <1>6, <1>7 DEF Handlers
<1>9. /\ c.todo = rest /\ c.type = cmd[op].type /\ c.session = cmd[op].session
      /\ c.command = cmd[op].command /\ c.gate = cmd[op].gate
  BY <1>6, <1>7 DEF Handlers
<1>10. Become(op, c)
  BY <1>4, <1>5, <1>6
<1>11. PICK list : list = Skip(rest)
  OBVIOUS
<1>12. Leads(op, c, list)
  BY <1>2, <1>8, <1>9, <1>10, <1>11, BecomeLeads, BusyIs
<1>13. Script(cmd[op].type, list)
  <2>1. Script(cmd[op].type, rest)
    BY <1>2, <1>5, ScriptTail DEF Rest
  <2>. QED BY <1>7, <1>11, <2>1, ScriptSkip
<1>14. Follows(op) /\ \A o \in Op : o # op => cmd'[o] = cmd[o]
  BY <1>2, <1>3, <1>9, <1>12, <1>13 DEF Follows, Leads, Alike
<1>. QED BY <1>1, <1>2, <1>3, <1>14 DEF Stepped, Settles, Releases, Adopts, Quietly

LEMMA ReleasedSteps == ASSUME IInv, PlanInv, NEW op \in Op, Released(op) PROVE Stepped(op)
<1>1. At(op, "each") /\ cmd[op].survey = {} /\ Proceed(op) /\ owned' = owned
  BY DEF Released
<1>2. Busy(op) /\ cmd[op].type = "releaseWorkspace" /\ cmd[op].todo = <<"each">>
  BY <1>1, StepOfRelease
<1>3. PICK none : none = <<>> /\ none \in Seq(Step)
  BY EmptySeq
<1>4. Rest(op) = none /\ Skip(none) = none
  BY <1>2, <1>3 DEF Rest, Skip
<1>5. Leads(op, cmd[op], none)
  BY <1>1, <1>2, <1>3, <1>4, GotoLeads DEF Proceed
<1>6. cmd'[op] = Idle /\ \A o \in Op : o # op => cmd'[o] = cmd[o]
  BY <1>3, <1>5 DEF Leads
<1>7. Settles(op)
  <2>1. PICK state : state = IF cmd[op].partial THEN "cleanup_partial" ELSE "closed"
    OBVIOUS
  <2>2. session' = IF ~cmd[op].gate THEN session
                   ELSE [session EXCEPT ![cmd[op].session] = state]
    BY <2>1 DEF Released
  <2>. QED BY <1>1, <1>2, <1>6, <2>1, <2>2 DEF Settles
<1>8. Writes(op)
  BY <1>1, SameWrites
<1>. QED BY <1>2, <1>6, <1>7, <1>8 DEF Stepped, Follows, Releases, Adopts, Released, faultVars

LEMMA TimeoutSteps == ASSUME IInv, PlanInv, NEW op \in Op, Timeout(op) PROVE Stepped(op)
<1>1. Busy(op) /\ cmd[op].gate /\ owned' = owned /\ access' = access /\ update' = update /\ deaths' = deaths
  BY DEF Timeout
<1>2. cmd[op] \in Handlers
  BY <1>1, BusyIs
<1>3. PICK d : d = [cmd[op] EXCEPT !.gate = FALSE]
  OBVIOUS
<1>4. cmd' = [cmd EXCEPT ![op] = d]
  BY <1>3 DEF Timeout
<1>5. cmd'[op] = d /\ \A o \in Op : o # op => cmd'[o] = cmd[o]
  BY <1>4 DEF IInv, CmdInv
<1>6. ~d.gate /\ d.todo = cmd[op].todo /\ d.type = cmd[op].type /\ d.session = cmd[op].session
      /\ d.command = cmd[op].command /\ d.tab = cmd[op].tab /\ d.survey = cmd[op].survey
      /\ d.partial = cmd[op].partial
  BY <1>2, <1>3 DEF Handlers
<1>7. Planned(cmd[op])
  BY <1>1 DEF PlanInv
<1>8. Follows(op)
  BY <1>1, <1>5, <1>6, <1>7 DEF Follows, Planned
<1>9. Settles(op)
  BY <1>1, <1>5, <1>6 DEF Settles, Timeout
<1>10. Releases(op)
  BY <1>5, <1>6 DEF Releases, Counted
<1>11. d # Idle
  BY <1>2, <1>6 DEF Handlers, Types, Idle
<1>12. Adopts(op)
  BY <1>5, <1>6, <1>11 DEF Adopts
<1>13. Writes(op)
  BY <1>1, SameWrites
<1>. QED BY <1>1, <1>5, <1>8, <1>9, <1>10, <1>12, <1>13 DEF Stepped

LEMMA CommandSteps ==
  ASSUME IInv, PlanInv, NEW op \in Op, DispatchStep(op) \/ HandlerStep(op)
  PROVE  Stepped(op)
<1>1. CASE DispatchStep(op)
  BY <1>1, TimeoutSteps, CheckAccessSteps, AssertSteps, VerifySteps, DeleteSteps, DropFailsSteps
     DEF DispatchStep
<1>2. CASE HandlerStep(op)
  BY <1>2, WorkSteps, KeepSteps, CreateTabSteps, RememberSteps, GetTabSteps, LookSteps, ClaimSteps,
     RestoreSteps, ConfirmSteps, SurveySteps, ReleaseNextSteps, ReleasedSteps, RemoveTabSteps
     DEF HandlerStep
<1>. QED BY <1>1, <1>2

-----------------------------------------------------------------------------
(* A command is admitted with a list of its kind.                            *)

LEMMA ConsAvoids ==
  ASSUME NEW step \in Step \ Elsewhere, NEW list \in Seq(Step),
         \A i \in DOMAIN list : list[i] \notin Elsewhere
  PROVE  /\ <<step>> \o list \in Seq(Step)
         /\ LET longer == <<step>> \o list IN \A i \in DOMAIN longer : longer[i] \notin Elsewhere
<1>1. PICK longer, n : longer = <<step>> \o list /\ n = Len(list)
  OBVIOUS
<1>2. /\ longer \in Seq(Step) /\ DOMAIN longer = 1..(n + 1) /\ DOMAIN list = 1..n /\ n \in Nat
      /\ longer[1] = step /\ \A i \in 1..n : longer[i + 1] = list[i]
  BY <1>1, ConsElements
<1>3. ASSUME NEW i \in DOMAIN longer
      PROVE  longer[i] \notin Elsewhere
  <2>1. CASE i = 1
    BY <1>2, <2>1
  <2>2. CASE i # 1
    <3>1. i - 1 \in 1..n /\ i = (i - 1) + 1
      BY <1>2, <2>2
    <3>2. PICK j \in 1..n : i = j + 1
      BY <3>1
    <3>. QED BY <1>2, <3>2
  <2>. QED BY <2>1, <2>2
<1>. QED BY <1>1, <1>2, <1>3

LEMMA AdoptionIsScripted ==
  ASSUME NEW s
  PROVE  /\ Script("adoptTab", Skip(Dispatch("adoptTab", s)))
         /\ Skip(Dispatch("adoptTab", s)) # <<"claim", "confirm">>
<1>1. PICK inner, handler, all :
        /\ inner = <<"access", "tab", "look">> /\ handler = <<"handler", "access", "tab", "look">>
        /\ all = <<"access", "handler", "access", "tab", "look">>
  OBVIOUS
<1>2. /\ handler \in Seq(Step) /\ handler # <<>> /\ handler[1] = "handler" /\ Tail(handler) = inner
      /\ all \in Seq(Step) /\ all # <<>> /\ all[1] = "access" /\ Tail(all) = handler
  BY <1>1 DEF Step
<1>3. <<"handler">> \o inner = handler /\ <<"access">> \o handler = all
  BY <1>2, ConsIs
<1>4. Handler["adoptTab"] = inner
  BY <1>1 DEF Handler
<1>5. Dispatch("adoptTab", s) = handler \/ Dispatch("adoptTab", s) = all
  BY <1>3, <1>4 DEF Dispatch
<1>6. Skip(handler) = inner /\ Skip(all) = all
  <2>1. Head(handler) = "handler" /\ Head(all) = "access"
    BY <1>1
  <2>. QED BY <1>2, <2>1 DEF Skip
<1>7. inner \in AdoptPlans /\ all \in AdoptPlans
  BY <1>1 DEF AdoptPlans
<1>8. inner # <<"claim", "confirm">> /\ all # <<"claim", "confirm">>
  BY <1>1
<1>. QED BY <1>5, <1>6, <1>7, <1>8 DEF Script

LEMMA ReleaseIsScripted ==
  ASSUME NEW s
  PROVE  Skip(Dispatch("releaseWorkspace", s)) = <<"survey", "each">>
<1>1. PICK inner, handler :
        inner = <<"survey", "each">> /\ handler = <<"handler", "survey", "each">>
  OBVIOUS
<1>2. /\ handler \in Seq(Step) /\ handler # <<>> /\ handler[1] = "handler" /\ Tail(handler) = inner
      /\ Head(handler) = "handler"
  BY <1>1 DEF Step
<1>3. <<"handler">> \o inner = handler
  BY <1>2, ConsIs
<1>4. Handler["releaseWorkspace"] = inner
  BY <1>1 DEF Handler
<1>5. Dispatch("releaseWorkspace", s) = handler
  BY <1>3, <1>4 DEF Dispatch
<1>. QED BY <1>1, <1>2, <1>5 DEF Skip

LEMMA OthersAreScripted ==
  ASSUME NEW type \in Types \ {"adoptTab", "releaseWorkspace"}, NEW s
  PROVE  Script(type, Skip(Dispatch(type, s)))
<1>1. PICK inner : inner = Handler[type]
  OBVIOUS
<1>2. inner \in Seq(Step) /\ \A i \in DOMAIN inner : inner[i] \notin Elsewhere
  <2>1. inner \in {<<"work">>, <<"create", "remember">>, <<"assert", "work", "resume", "drop">>,
                   <<"assert", "work", "resume", "remove", "forget">>, <<"work", "keep">>}
    BY <1>1 DEF Handler, Types
  <2>2. CASE inner = <<"work">>
    BY <2>2 DEF Step, Elsewhere
  <2>5. CASE inner = <<"create", "remember">>
    BY <2>5 DEF Step, Elsewhere
  <2>6. CASE inner = <<"work", "keep">>
    BY <2>6 DEF Step, Elsewhere
  <2>3. CASE inner = <<"assert", "work", "resume", "drop">>
    BY <2>3 DEF Step, Elsewhere
  <2>4. CASE inner = <<"assert", "work", "resume", "remove", "forget">>
    BY <2>4 DEF Step, Elsewhere
  <2>. QED BY <2>1, <2>2, <2>3, <2>4, <2>5, <2>6
<1>3. PICK handler : handler = <<"handler">> \o inner
  OBVIOUS
<1>4. handler \in Seq(Step) /\ \A i \in DOMAIN handler : handler[i] \notin Elsewhere
  <2>1. "handler" \in Step \ Elsewhere
    BY DEF Step, Elsewhere
  <2>. QED BY <1>2, <1>3, <2>1, ConsAvoids
<1>5. PICK checked : checked = IF type = "openTab" THEN handler
                        ELSE <<IF type = "closeTab" THEN "assertCreated" ELSE "assert">> \o handler
  OBVIOUS
<1>6. checked \in Seq(Step) /\ \A i \in DOMAIN checked : checked[i] \notin Elsewhere
  <2>1. "assert" \in Step \ Elsewhere /\ "assertCreated" \in Step \ Elsewhere
    BY DEF Step, Elsewhere
  <2>. QED BY <1>4, <1>5, <2>1, ConsAvoids
<1>7. PICK all : all = Dispatch(type, s)
  OBVIOUS
<1>8. all = checked \/ all = <<"access">> \o checked
  BY <1>1, <1>3, <1>5, <1>7 DEF Dispatch
<1>9. all \in Seq(Step) /\ \A i \in DOMAIN all : all[i] \notin Elsewhere
  <2>1. "access" \in Step \ Elsewhere
    BY DEF Step, Elsewhere
  <2>. QED BY <1>6, <1>8, <2>1, ConsAvoids
<1>10. Script(type, all)
  BY <1>9 DEF Script
<1>. QED BY <1>7, <1>9, <1>10, ScriptSkip

(* What is admitted beside what the gate holds.                              *)
LEMMA Beginning ==
  ASSUME IInv, PlanInv, NEW op \in Op, NEW type \in Offered, NEW s \in Session,
         NEW t \in Tab \cup {NoTab}, NEW close \in BOOLEAN, Begin(op, type, s, t, close)
  PROVE  /\ \A o \in Op : o # op => cmd'[o] = cmd[o]
         /\ Planned(cmd'[op]) /\ cmd'[op] # Idle
         /\ cmd'[op].type = type /\ cmd'[op].session = s /\ cmd'[op].gate
         /\ type = "releaseWorkspace" => cmd'[op].todo = <<"survey", "each">>
         /\ type = "adoptTab" => cmd'[op].todo # <<"claim", "confirm">>
         /\ \A o \in Op : o # op /\ Gated(o) =>
              /\ Compatible(cmd'[op].command, cmd[o].command)
              /\ type # "releaseWorkspace"
<1>1. PICK list, c : list = Skip(Dispatch(type, s)) /\ c = CommandOf(type, s, t)
  OBVIOUS
<1>2. PICK d : d = [type |-> type, todo |-> list, session |-> s, tab |-> t,
                    command |-> c, close |-> close, survey |-> {},
                    partial |-> FALSE, gate |-> TRUE, granted |-> access]
  OBVIOUS
<1>3. cmd' = [cmd EXCEPT ![op] = d]
  BY <1>1, <1>2 DEF Begin
<1>4. cmd'[op] = d /\ \A o \in Op : o # op => cmd'[o] = cmd[o]
  BY <1>3 DEF IInv, CmdInv
<1>5. type \in Types
  BY OwnershipAssumption DEF Types
<1>6. Script(type, list) /\ (type = "releaseWorkspace" => list = <<"survey", "each">>)
      /\ (type = "adoptTab" => list # <<"claim", "confirm">>)
  <2>1. CASE type = "adoptTab"
    BY <1>1, <2>1, AdoptionIsScripted
  <2>2. CASE type = "releaseWorkspace"
    BY <1>1, <2>2, ReleaseIsScripted DEF Script, ReleasePlans
  <2>3. CASE type \notin {"adoptTab", "releaseWorkspace"}
    BY <1>1, <1>5, <2>3, OthersAreScripted
  <2>. QED BY <2>1, <2>2, <2>3
<1>7. type = "releaseWorkspace" => gateScope(c).global
  BY <1>1 DEF CommandOf, gateScope, MustBeExclusive
<1>8. type = "adoptTab" => t \in Tab /\ t \in gateScope(c).resources
  <2>1. SUFFICES ASSUME type = "adoptTab" PROVE t \in Tab /\ t \in gateScope(c).resources
    OBVIOUS
  <2>2. t # NoTab
    BY <2>1 DEF Begin
  <2>3. c.table = "tab" /\ c.session = s /\ c.tab = t /\ c.cleanQa = FALSE
    BY <1>1, <2>1 DEF CommandOf
  <2>4. s # NoSession
    BY LaneAssumption
  <2>5. gateScope(c) = [global |-> FALSE, resources |-> {s} \cup ({t} \ {NoTab})]
    BY <2>2, <2>3, <2>4 DEF gateScope, MustBeExclusive
  <2>. QED BY <2>2, <2>5
<1>9. /\ d.type = type /\ d.todo = list /\ d.command = c /\ d.tab = t /\ d.session = s /\ d.gate
      /\ d.gate = TRUE
  BY <1>2
<1>10. d # Idle
  BY <1>5, <1>9 DEF Types, Idle
<1>11. \A o \in Op : o # op /\ Gated(o) =>
         Compatible(c, cmd[o].command) /\ type # "releaseWorkspace"
  <2>1. ASSUME NEW o \in Op, Gated(o)
        PROVE  Compatible(c, cmd[o].command)
    BY <1>1, <2>1 DEF Begin, Gated
  <2>. QED BY <1>7, <2>1 DEF Compatible
<1>. QED BY <1>4, <1>6, <1>7, <1>8, <1>9, <1>10, <1>11 DEF Planned

LEMMA BeginKeepsPlan ==
  ASSUME IInv, PlanInv, NEW op \in Op, NEW type \in Offered, NEW s \in Session,
         NEW t \in Tab \cup {NoTab}, NEW close \in BOOLEAN, Begin(op, type, s, t, close)
  PROVE  PlanInv'
<1>1. /\ \A o \in Op : o # op => cmd'[o] = cmd[o]
      /\ Planned(cmd'[op])
      /\ \A o \in Op : o # op /\ Gated(o) => Compatible(cmd'[op].command, cmd[o].command)
  BY Beginning
<1>2. ASSUME NEW o \in Op, cmd'[o] # Idle
      PROVE  Planned(cmd'[o])
  BY <1>1, <1>2 DEF PlanInv, Busy
<1>3. ASSUME NEW o \in Op, NEW other \in Op, o # other, cmd'[o] # Idle, cmd'[o].gate,
             cmd'[other] # Idle, cmd'[other].gate
      PROVE  Compatible(cmd'[o].command, cmd'[other].command)
  <2>1. CASE o = op
    <3>1. cmd'[other] = cmd[other] /\ Gated(other)
      BY <1>1, <1>3, <2>1 DEF Gated, Busy
    <3>. QED BY <1>1, <1>3, <2>1, <3>1
  <2>2. CASE other = op
    <3>1. cmd'[o] = cmd[o] /\ Gated(o)
      BY <1>1, <1>3, <2>2 DEF Gated, Busy
    <3>2. Compatible(cmd'[op].command, cmd[o].command)
      BY <1>1, <1>3, <2>2, <3>1
    <3>. QED BY <2>2, <3>1, <3>2 DEF Compatible
  <2>3. CASE o # op /\ other # op
    <3>1. cmd'[o] = cmd[o] /\ Gated(o) /\ cmd'[other] = cmd[other] /\ Gated(other)
      BY <1>1, <1>3, <2>3 DEF Gated, Busy
    <3>. QED BY <1>3, <3>1 DEF PlanInv, Apart
  <2>. QED BY <2>1, <2>2, <2>3
<1>4. \A o \in Op : Busy(o)' => Planned(cmd'[o])
  BY <1>2 DEF Busy
<1>5. \A o, other \in Op : o # other /\ Gated(o)' /\ Gated(other)' =>
        Compatible(cmd'[o].command, cmd'[other].command)
  BY <1>3 DEF Gated, Busy
<1>. QED BY <1>4, <1>5 DEF PlanInv, Apart, Planned, Compatible

-----------------------------------------------------------------------------
(* Everything else that happens: a command goes on unharmed or dies with the *)
(* worker, a record is deleted, or written for a child tab.                  *)

Unharmed(op) == cmd'[op] # Idle => Busy(op) /\ cmd'[op].todo = cmd[op].todo /\ Alike(cmd'[op], cmd[op])

Outside ==
  /\ \A op \in Op : Unharmed(op)
  /\ \A t \in Tab :
       \/ owned'[t] = owned[t]
       \/ owned'[t] = NoRecord
       \/ /\ t \notin UserTab /\ owned'[t] # NoRecord /\ owned'[t].kind = "created-child"
          /\ owned'[t].late = (session[owned'[t].session] # "active")
  /\ \A s \in Session :
       \/ session'[s] = session[s]
       \/ session'[s] = "cleanup_partial" /\ \A op \in Op : cmd'[op] = Idle

LEMMA OutsideFollows ==
  ASSUME PlanInv, Outside
  PROVE  PlanInv'
<1>1. ASSUME NEW op \in Op PROVE Follows(op)
  BY DEF Outside, Unharmed, Alike, Follows, PlanInv, Planned
<1>. QED BY <1>1, FollowingKeeps

LEMMA SameCommands == ASSUME cmd' = cmd PROVE \A op \in Op : Unharmed(op)
BY DEF Unharmed, Alike, Busy

LEMMA ChromeIsOutside == ASSUME IInv, NEW t \in Tab, ChromeEvent(t) PROVE Outside
<1>1. cmd' = cmd /\ session' = session
  BY DEF ChromeEvent, OpenChild, ChildLooks, ChildRemembered, UserCloses, Forgotten
<1>2. CASE owned' = owned
  BY <1>1, <1>2, SameCommands DEF Outside
<1>3. CASE Forgotten(t)
  BY <1>1, <1>3, SameCommands DEF Outside, Forgotten, Own, IInv, OwnedInv
<1>4. CASE ChildRemembered(t)
  <2>1. child[t] \in [step : {"remember"}, session : Session] /\ t \notin UserTab
    BY <1>4 DEF ChildRemembered, IInv, ChromeInv, Child, NoHandler
  <2>2. PICK s, late : s = child[t].session /\ late = (session[s] # "active")
    OBVIOUS
  <2>3. PICK record : record = [session |-> s, kind |-> "created-child",
                                previousKind |-> "none", late |-> late]
    OBVIOUS
  <2>4. record \in Records /\ record.session = s /\ record.kind = "created-child" /\ record.late = late
    BY <2>1, <2>2, <2>3 DEF Records, Kinds, Created
  <2>5. Own(t, record)
    BY <1>4, <2>2, <2>3 DEF ChildRemembered
  <2>6. owned'[t] = record /\ \A u \in Tab : u # t => owned'[u] = owned[u]
    BY <2>5 DEF Own, IInv, OwnedInv
  <2>7. \A u \in Tab : \/ owned'[u] = owned[u]
                       \/ /\ u \notin UserTab /\ owned'[u] # NoRecord /\ owned'[u].kind = "created-child"
                          /\ owned'[u].late = (session[owned'[u].session] # "active")
    BY <2>1, <2>2, <2>4, <2>6, RecordAssumption
  <2>. QED BY <1>1, <2>7, SameCommands DEF Outside
<1>. QED BY <1>2, <1>3, <1>4 DEF ChromeEvent, OpenChild, ChildLooks, UserCloses

LEMMA SettingsAreOutside == ASSUME IInv, NEW u \in Updater, SettingsStep(u) PROVE Outside
<1>1. session' = session
  BY DEF SettingsStep, BeginUpdate, WriteSettings, SurveyAdopted, ReleaseAdopted
<1>2. \A t \in Tab : owned'[t] = owned[t] \/ owned'[t] = NoRecord
  BY DEF SettingsStep, BeginUpdate, WriteSettings, SurveyAdopted, ReleaseAdopted, Own, IInv, OwnedInv
<1>3. \A op \in Op : Unharmed(op)
  <2>1. CASE cmd' = cmd
    BY <2>1, SameCommands
  <2>2. CASE WriteSettings(u)
    <3> SUFFICES ASSUME NEW op \in Op PROVE Unharmed(op)
      OBVIOUS
    <3>1. cmd'[op] = IF Busy(op) /\ access' THEN [cmd[op] EXCEPT !.granted = TRUE] ELSE cmd[op]
      BY <2>2 DEF WriteSettings
    <3>2. CASE Busy(op)
      <4>1. cmd[op] \in Handlers
        BY <3>2, BusyIs
      <4>. QED BY <3>1, <3>2, <4>1 DEF Unharmed, Alike, Handlers
    <3>3. CASE ~Busy(op)
      BY <3>1, <3>3 DEF Unharmed, Busy
    <3>. QED BY <3>2, <3>3
  <2>. QED BY <2>1, <2>2 DEF SettingsStep, BeginUpdate, SurveyAdopted, ReleaseAdopted
<1>. QED BY <1>1, <1>2, <1>3 DEF Outside

LEMMA DeathIsOutside == ASSUME IInv, WorkerDies PROVE Outside
BY DEF WorkerDies, Outside, Unharmed, IInv, SessionInv

LEMMA StutterIsOutside == ASSUME UNCHANGED vars PROVE Outside
BY SameCommands DEF vars, Outside

(* Every step is one of the three.                                           *)
LEMMA EveryStep ==
  ASSUME IInv, PlanInv, [Next]_vars
  PROVE  \/ \E op \in Op, type \in Offered, s \in Session, t \in Tab \cup {NoTab}, close \in BOOLEAN :
              Begin(op, type, s, t, close)
         \/ \E op \in Op : Stepped(op)
         \/ Outside
BY CommandSteps, ChromeIsOutside, SettingsAreOutside, DeathIsOutside, StutterIsOutside DEF Next

LEMMA SteppingKeepsPlan ==
  ASSUME PlanInv, NEW op \in Op, Stepped(op)
  PROVE  PlanInv'
<1>1. ASSUME NEW o \in Op PROVE Follows(o)
  BY SameFollows DEF Stepped
<1>. QED BY <1>1, FollowingKeeps

LEMMA NextPlan == IInv /\ PlanInv /\ [Next]_vars => PlanInv'
BY EveryStep, BeginKeepsPlan, SteppingKeepsPlan, OutsideFollows

-----------------------------------------------------------------------------
(* Adoption.                                                                 *)

Live(t) == owned[t] # NoRecord /\ owned[t].kind # "released"

(* An adoption in the gate that is about to claim a tab of the user has no   *)
(* live record of another in its way, but a late one.                        *)
Alone ==
  \A op \in Op :
    /\ Gated(op) /\ cmd[op].type = "adoptTab" /\ cmd[op].todo = <<"claim", "confirm">>
    /\ cmd[op].tab \in UserTab /\ Live(cmd[op].tab)
    => owned[cmd[op].tab].late

LEMMA SteppingKeepsAlone ==
  ASSUME IInv, PlanInv, Alone, NEW op \in Op, Stepped(op)
  PROVE  Alone'
<1> SUFFICES ASSUME NEW o \in Op, Gated(o)', cmd'[o].type = "adoptTab",
                    cmd'[o].todo = <<"claim", "confirm">>, cmd'[o].tab \in UserTab,
                    Live(cmd[o].tab)'
             PROVE  owned'[cmd'[o].tab].late
  BY DEF Alone
<1>1. PICK t : t = cmd'[o].tab
  OBVIOUS
<1>2. cmd'[o] # Idle /\ cmd'[o].gate
  BY DEF Gated, Busy
<1>3. Follows(o)
  BY SameFollows DEF Stepped
<1>4. Gated(o) /\ cmd[o].type = "adoptTab" /\ cmd[o].tab = t
  BY <1>1, <1>2, <1>3 DEF Follows, Gated
<1>5. t \in Tab /\ t \in UserTab /\ owned'[t] # NoRecord /\ owned'[t].kind # "released"
  BY <1>1, OwnershipAssumption DEF Live
<1>6. CASE owned'[t] = owned[t]
  <2>1. cmd[o].todo = <<"claim", "confirm">>
    BY <1>2, <1>4, <1>5 DEF Stepped, Adopts
  <2>. QED BY <1>1, <1>4, <1>5, <1>6, <2>1 DEF Alone, Live
<1>7. CASE owned'[t] # owned[t]
  <2>1. /\ t = cmd[op].tab /\ owned'[t].late = ~cmd[op].gate /\ cmd[op].type = "adoptTab"
        /\ cmd'[op].todo = <<"confirm">>
    BY <1>5, <1>7 DEF Stepped, Writes
  <2>2. op # o
    <3>1. <<"confirm">> # <<"claim", "confirm">>
      OBVIOUS
    <3>. QED BY <2>1, <3>1
  <2>3. ~Gated(op)
    BY <1>4, <2>1, <2>2, GateExcludes
  <2>4. ~cmd[op].gate
    BY <2>3 DEF Gated, Stepped
  <2>. QED BY <1>1, <2>1, <2>4
<1>. QED BY <1>6, <1>7

LEMMA OutsideKeepsAlone == ASSUME IInv, PlanInv, Alone, Outside PROVE Alone'
<1> SUFFICES ASSUME NEW o \in Op, Gated(o)', cmd'[o].type = "adoptTab",
                    cmd'[o].todo = <<"claim", "confirm">>, cmd'[o].tab \in UserTab,
                    Live(cmd[o].tab)'
             PROVE  owned'[cmd'[o].tab].late
  BY DEF Alone
<1>1. cmd'[o] # Idle /\ cmd'[o].gate
  BY DEF Gated, Busy
<1>2. Gated(o) /\ cmd[o].type = "adoptTab" /\ cmd[o].tab = cmd'[o].tab
      /\ cmd[o].todo = <<"claim", "confirm">>
  BY <1>1 DEF Outside, Unharmed, Alike, Gated
<1>3. cmd[o].tab \in Tab /\ owned'[cmd[o].tab] = owned[cmd[o].tab]
  BY <1>2, OwnershipAssumption DEF Outside, Live
<1>. QED BY <1>2, <1>3 DEF Alone, Live

LEMMA BeginKeepsAlone ==
  ASSUME IInv, PlanInv, Alone, NEW op \in Op, NEW type \in Offered, NEW s \in Session,
         NEW t \in Tab \cup {NoTab}, NEW close \in BOOLEAN, Begin(op, type, s, t, close)
  PROVE  Alone'
<1>1. /\ \A o \in Op : o # op => cmd'[o] = cmd[o]
      /\ cmd'[op].type = type
      /\ type = "adoptTab" => cmd'[op].todo # <<"claim", "confirm">>
  BY Beginning
<1>2. owned' = owned
  BY DEF Begin
<1>. QED BY <1>1, <1>2 DEF Alone, Gated, Busy, Live

LEMMA NextAlone == IInv /\ PlanInv /\ Alone /\ [Next]_vars => Alone'
BY EveryStep, BeginKeepsAlone, SteppingKeepsAlone, OutsideKeepsAlone

LEMMA TakingIsLate ==
  ASSUME IInv, PlanInv, Alone, [Next]_vars, NEW t \in UserTab, TakesOver(t)
  PROVE  owned[t].late \/ owned'[t].late
<1>1. /\ t \in Tab /\ owned[t] # NoRecord /\ owned[t].kind # "released"
      /\ owned'[t] # NoRecord /\ owned'[t].session # owned[t].session
  BY OwnershipAssumption DEF TakesOver
<1>2. ~Outside
  BY <1>1 DEF Outside
<1>3. ASSUME NEW op \in Op, NEW type \in Offered, NEW s \in Session,
             NEW u \in Tab \cup {NoTab}, NEW close \in BOOLEAN, Begin(op, type, s, u, close)
      PROVE  FALSE
  BY <1>1, <1>3 DEF Begin
<1>4. PICK op \in Op : Stepped(op)
  BY <1>2, <1>3, EveryStep
<1>5. /\ t = cmd[op].tab /\ owned'[t].late = ~cmd[op].gate /\ cmd[op].type = "adoptTab"
      /\ cmd[op].todo = <<"claim", "confirm">>
  BY <1>1, <1>4 DEF Stepped, Writes
<1>6. CASE cmd[op].gate
  BY <1>1, <1>4, <1>5, <1>6 DEF Alone, Gated, Live, Stepped
<1>7. CASE ~cmd[op].gate
  BY <1>5, <1>7
<1>. QED BY <1>6, <1>7

-----------------------------------------------------------------------------
(* The release of a session.                                                 *)

(* The gate lets a command of a session in while the session is active, its  *)
(* release when it has begun to close.                                       *)
SessionsFit ==
  \A op \in Op : Gated(op) =>
    session[cmd[op].session] = IF cmd[op].type = "releaseWorkspace" THEN "closing" ELSE "active"

(* A release that nothing has failed in accounts for all that is left.       *)
Progress ==
  \A op \in Op : Gated(op) /\ cmd[op].type = "releaseWorkspace" /\ ~cmd[op].partial =>
    \A t \in Tab : Owns(cmd[op].session, t) /\ ~owned[t].late => Counted(cmd[op], t)

CloseInv == SessionsFit /\ Progress /\ ClosedSessionOwnsNothing

LEMMA SteppingKeepsClose ==
  ASSUME IInv, PlanInv, CloseInv, NEW op \in Op, Stepped(op)
  PROVE  CloseInv'
<1>1. \A o \in Op : Follows(o)
  BY SameFollows DEF Stepped
<1>2. ASSUME NEW o \in Op, Gated(o)'
      PROVE  /\ Gated(o) /\ cmd'[o].type = cmd[o].type /\ cmd'[o].session = cmd[o].session
             /\ cmd'[o] # Idle /\ cmd'[o].gate
  BY <1>1, <1>2 DEF Follows, Gated, Busy
<1>3. SessionsFit'
  <2> SUFFICES ASSUME NEW o \in Op, Gated(o)'
               PROVE  session'[cmd'[o].session] =
                        IF cmd'[o].type = "releaseWorkspace" THEN "closing" ELSE "active"
    BY DEF SessionsFit
  <2>1. CASE session' = session
    BY <1>2, <2>1 DEF CloseInv, SessionsFit
  <2>2. CASE /\ cmd[op].type = "releaseWorkspace" /\ cmd[op].gate
             /\ cmd'[op] # Idle => ~cmd'[op].gate
    <3>1. o # op /\ Gated(op) /\ Gated(o)
      BY <1>2, <2>2 DEF Stepped, Gated
    <3>. QED BY <2>2, <3>1, GateExcludes
  <2>. QED BY <2>1, <2>2 DEF Stepped, Settles
<1>4. Progress'
  <2> SUFFICES ASSUME NEW o \in Op, Gated(o)', cmd'[o].type = "releaseWorkspace", ~cmd'[o].partial,
                      NEW t \in Tab, Owns(cmd[o].session, t)', ~owned'[t].late
               PROVE  Counted(cmd'[o], t)
    BY DEF Progress, Owns, Counted
  <2>1. /\ Gated(o) /\ cmd[o].type = "releaseWorkspace" /\ cmd'[o].session = cmd[o].session
        /\ cmd'[o] # Idle
    BY <1>2
  <2>2. owned'[t] # NoRecord /\ owned'[t].kind # "released" /\ owned'[t].session = cmd[o].session
    BY <2>1 DEF Owns
  <2>3. owned'[t] = owned[t]
    <3>1. SUFFICES ASSUME owned'[t] # owned[t] PROVE FALSE
      OBVIOUS
    <3>2. cmd[op].type # "releaseWorkspace" /\ owned'[t].late = ~cmd[op].gate
      BY <2>2, <3>1 DEF Stepped, Writes
    <3>3. op # o /\ Gated(op)
      BY <2>1, <3>2 DEF Stepped, Gated
    <3>. QED BY <2>1, <3>3, GateExcludes
  <2>4. Owns(cmd[o].session, t) /\ ~owned[t].late
    BY <2>2, <2>3 DEF Owns
  <2>5. CASE o = op
    <3>1. ~cmd[o].partial /\ (Counted(cmd[o], t) => Counted(cmd'[o], t))
      BY <2>1, <2>2, <2>4, <2>5 DEF Stepped, Releases
    <3>. QED BY <2>1, <2>4, <3>1 DEF CloseInv, Progress
  <2>6. CASE o # op
    <3>1. cmd'[o] = cmd[o]
      BY <2>6 DEF Stepped
    <3>. QED BY <2>1, <2>4, <3>1 DEF CloseInv, Progress
  <2>. QED BY <2>5, <2>6
<1>5. ClosedSessionOwnsNothing'
  <2> SUFFICES ASSUME NEW t \in Tab, owned'[t] # NoRecord, owned'[t].kind # "released",
                      session'[owned'[t].session] = "closed"
               PROVE  owned'[t].late
    BY DEF ClosedSessionOwnsNothing
  <2>1. CASE session' = session
    <3>1. CASE owned'[t] = owned[t]
      BY <2>1, <3>1 DEF CloseInv, ClosedSessionOwnsNothing
    <3>2. CASE owned'[t] # owned[t]
      <4>1. /\ cmd[op].type # "releaseWorkspace" /\ owned'[t].late = ~cmd[op].gate
            /\ owned'[t].session = cmd[op].session
        BY <3>2 DEF Stepped, Writes
      <4>2. ~cmd[op].gate
        <5>1. SUFFICES ASSUME cmd[op].gate PROVE FALSE
          OBVIOUS
        <5>2. Gated(op)
          BY <5>1 DEF Stepped, Gated
        <5>3. session[cmd[op].session] = "active"
          BY <4>1, <5>2 DEF CloseInv, SessionsFit
        <5>. QED BY <2>1, <4>1, <5>3
      <4>. QED BY <4>1, <4>2
    <3>. QED BY <3>1, <3>2
  <2>2. CASE session' # session
    <3>1. PICK state \in {"cleanup_partial", "closed"} :
            /\ cmd[op].type = "releaseWorkspace" /\ cmd[op].gate /\ owned' = owned
            /\ session' = [session EXCEPT ![cmd[op].session] = state]
            /\ state = "closed" =>
                 ~cmd[op].partial /\ cmd[op].todo = <<"each">> /\ cmd[op].survey = {}
      BY <2>2 DEF Stepped, Settles
    <3>2. CASE owned[t].session = cmd[op].session
      <4>1. owned[t] \in Records
        BY <3>1 DEF IInv, OwnedInv
      <4>2. state = "closed"
        BY <3>1, <3>2, <4>1 DEF IInv, SessionInv, Records
      <4>3. ~Counted(cmd[op], t)
        <5>1. <<"each">> # <<"survey", "each">>
          OBVIOUS
        <5>. QED BY <3>1, <4>2, <5>1 DEF Counted
      <4>4. Gated(op)
        BY <3>1 DEF Stepped, Gated
      <4>. QED BY <3>1, <3>2, <4>2, <4>3, <4>4 DEF CloseInv, Progress, Owns
    <3>3. CASE owned[t].session # cmd[op].session
      <4>1. owned[t] \in Records
        BY <3>1 DEF IInv, OwnedInv
      <4>2. session[owned[t].session] = "closed"
        BY <3>1, <3>3, <4>1 DEF IInv, SessionInv, Records
      <4>. QED BY <3>1, <4>2 DEF CloseInv, ClosedSessionOwnsNothing
    <3>. QED BY <3>2, <3>3
  <2>. QED BY <2>1, <2>2
<1>. QED BY <1>3, <1>4, <1>5 DEF CloseInv

LEMMA OutsideKeepsClose ==
  ASSUME IInv, IInv', PlanInv, CloseInv, Outside
  PROVE  CloseInv'
<1>1. ASSUME NEW o \in Op, Gated(o)'
      PROVE  /\ Gated(o) /\ cmd[o].type = cmd'[o].type /\ cmd[o].session = cmd'[o].session
             /\ cmd[o].partial = cmd'[o].partial /\ cmd[o].survey = cmd'[o].survey
             /\ cmd[o].tab = cmd'[o].tab /\ cmd[o].todo = cmd'[o].todo
             /\ cmd'[o] # Idle /\ cmd[o].session \in Session
             /\ session'[cmd[o].session] = session[cmd[o].session]
  <2>1. cmd'[o] # Idle /\ cmd'[o].gate
    BY <1>1 DEF Gated, Busy
  <2>2. /\ Gated(o) /\ cmd[o].type = cmd'[o].type /\ cmd[o].session = cmd'[o].session
        /\ cmd[o].partial = cmd'[o].partial /\ cmd[o].survey = cmd'[o].survey
        /\ cmd[o].tab = cmd'[o].tab /\ cmd[o].todo = cmd'[o].todo
    BY <2>1 DEF Outside, Unharmed, Alike, Gated
  <2>3. cmd[o].session \in Session
    BY <2>2, BusyIs DEF Gated, Handlers
  <2>. QED BY <2>1, <2>2, <2>3 DEF Outside
<1>2. SessionsFit'
  BY <1>1 DEF CloseInv, SessionsFit
<1>3. ASSUME NEW t \in Tab, owned'[t] # NoRecord, ~owned'[t].late,
             session[owned'[t].session] # "active"
      PROVE  owned'[t] = owned[t]
  BY <1>3 DEF Outside
<1>4. Progress'
  <2> SUFFICES ASSUME NEW o \in Op, Gated(o)', cmd'[o].type = "releaseWorkspace", ~cmd'[o].partial,
                      NEW t \in Tab, Owns(cmd[o].session, t)', ~owned'[t].late
               PROVE  Counted(cmd'[o], t)
    BY DEF Progress, Owns, Counted
  <2>1. /\ Gated(o) /\ cmd[o].type = "releaseWorkspace" /\ cmd'[o].session = cmd[o].session
        /\ ~cmd[o].partial
    BY <1>1
  <2>2. owned'[t] # NoRecord /\ owned'[t].kind # "released" /\ owned'[t].session = cmd[o].session
    BY <2>1 DEF Owns
  <2>3. session[cmd[o].session] = "closing"
    BY <2>1 DEF CloseInv, SessionsFit
  <2>4. owned'[t] = owned[t]
    BY <1>3, <2>2, <2>3
  <2>5. Counted(cmd[o], t)
    BY <2>1, <2>2, <2>4 DEF CloseInv, Progress, Owns
  <2>. QED BY <1>1, <2>5 DEF Counted
<1>5. ClosedSessionOwnsNothing'
  <2> SUFFICES ASSUME NEW t \in Tab, owned'[t] # NoRecord, owned'[t].kind # "released",
                      session'[owned'[t].session] = "closed", ~owned'[t].late
               PROVE  FALSE
    BY DEF ClosedSessionOwnsNothing
  <2>1. owned'[t].session \in Session
    BY DEF IInv, OwnedInv, Records
  <2>2. session[owned'[t].session] = "closed"
    BY <2>1 DEF Outside
  <2>3. owned'[t] = owned[t]
    BY <1>3, <2>2
  <2>. QED BY <2>2, <2>3 DEF CloseInv, ClosedSessionOwnsNothing
<1>. QED BY <1>2, <1>4, <1>5 DEF CloseInv

LEMMA BeginKeepsClose ==
  ASSUME IInv, PlanInv, CloseInv, NEW op \in Op, NEW type \in Offered, NEW s \in Session,
         NEW t \in Tab \cup {NoTab}, NEW close \in BOOLEAN, Begin(op, type, s, t, close)
  PROVE  CloseInv'
<1>1. /\ \A o \in Op : o # op => cmd'[o] = cmd[o]
      /\ cmd'[op].type = type /\ cmd'[op].session = s
      /\ type = "releaseWorkspace" => cmd'[op].todo = <<"survey", "each">>
      /\ \A o \in Op : o # op /\ Gated(o) => type # "releaseWorkspace"
  BY Beginning
<1>2. /\ owned' = owned
      /\ session' = IF type = "releaseWorkspace" THEN [session EXCEPT ![s] = "closing"] ELSE session
      /\ type # "releaseWorkspace" => session[s] = "active"
  BY DEF Begin, Admissible
<1>3. ASSUME NEW o \in Op, o # op, Gated(o)'
      PROVE  Gated(o) /\ cmd'[o] = cmd[o] /\ session' = session
  BY <1>1, <1>2, <1>3 DEF Gated, Busy
<1>4. SessionsFit'
  <2> SUFFICES ASSUME NEW o \in Op, Gated(o)'
               PROVE  session'[cmd'[o].session] =
                        IF cmd'[o].type = "releaseWorkspace" THEN "closing" ELSE "active"
    BY DEF SessionsFit
  <2>1. CASE o = op
    BY <1>1, <1>2, <2>1 DEF IInv, SessionInv
  <2>2. CASE o # op
    BY <1>3, <2>2 DEF CloseInv, SessionsFit
  <2>. QED BY <2>1, <2>2
<1>5. Progress'
  <2> SUFFICES ASSUME NEW o \in Op, Gated(o)', cmd'[o].type = "releaseWorkspace", ~cmd'[o].partial,
                      NEW u \in Tab, Owns(cmd[o].session, u)', ~owned'[u].late
               PROVE  Counted(cmd'[o], u)
    BY DEF Progress, Owns, Counted
  <2>1. CASE o = op
    BY <1>1, <2>1 DEF Counted
  <2>2. CASE o # op
    BY <1>2, <1>3, <2>2 DEF CloseInv, Progress, Owns
  <2>. QED BY <2>1, <2>2
<1>6. ClosedSessionOwnsNothing'
  <2> SUFFICES ASSUME NEW u \in Tab, owned'[u] # NoRecord, owned'[u].kind # "released",
                      session'[owned'[u].session] = "closed"
               PROVE  owned'[u].late
    BY DEF ClosedSessionOwnsNothing
  <2>1. owned[u] \in Records
    BY <1>2 DEF IInv, OwnedInv
  <2>2. session[owned[u].session] = "closed"
    BY <1>2, <2>1 DEF IInv, SessionInv, Records
  <2>. QED BY <1>2, <2>2 DEF CloseInv, ClosedSessionOwnsNothing
<1>. QED BY <1>4, <1>5, <1>6 DEF CloseInv

LEMMA NextClose == IInv /\ PlanInv /\ CloseInv /\ [Next]_vars => CloseInv'
BY EveryStep, NextIInv, BeginKeepsClose, SteppingKeepsClose, OutsideKeepsClose

-----------------------------------------------------------------------------
(* Switching access off.                                                     *)

Adopted(t) == owned[t] # NoRecord /\ owned[t].kind = "adopted"

(* The switch has yet to come to the tab, or the adoption to look at access. *)
Swept(u, t) ==
  update[u].step = "survey" \/ (update[u].step = "release" /\ t \in update[u].tabs)

Awaited(op, t) ==
  Busy(op) /\ cmd[op].type = "adoptTab" /\ cmd[op].tab = t /\ cmd[op].todo \in Doubtful

Pending(t) == (\E u \in Updater : Swept(u, t)) \/ (\E op \in Op : Awaited(op, t))

(* A switch knows the setting it changes: nobody else writes it meanwhile.   *)
Informed ==
  \A u \in Updater : update[u].step = "write" =>
    update[u].current = access /\ update[u].patch \in Patches[u]

RevokedInv ==
  /\ Informed
  /\ deaths = 0 /\ ~access => \A t \in Tab : Adopted(t) => Pending(t)

LEMMA SteppingKeepsRevoked ==
  ASSUME IInv, PlanInv, RevokedInv, NEW op \in Op, Stepped(op)
  PROVE  RevokedInv'
<1>1. access' = access /\ update' = update /\ deaths' = deaths
  BY DEF Stepped
<1>2. Informed'
  BY <1>1 DEF RevokedInv, Informed
<1>3. ASSUME NEW t \in Tab, deaths = 0, ~access, Adopted(t)'
      PROVE  Pending(t)'
  <2>1. owned'[t] # NoRecord /\ owned'[t].kind = "adopted"
    BY <1>3 DEF Adopted
  <2>2. CASE owned'[t] = owned[t]
    <3>1. Pending(t)
      BY <1>3, <2>1, <2>2 DEF RevokedInv, Adopted
    <3>2. CASE \E u \in Updater : Swept(u, t)
      BY <1>1, <3>2 DEF Pending, Swept
    <3>3. ASSUME NEW o \in Op, Awaited(o, t)
          PROVE  Awaited(o, t)'
      <4>1. CASE o # op
        BY <3>3, <4>1 DEF Stepped, Awaited, Busy
      <4>2. CASE o = op
        <5>1. cmd'[op] # Idle /\ cmd'[op].todo \in Doubtful
          BY <1>3, <2>1, <3>3, <4>2 DEF Awaited, Stepped, Adopts
        <5>2. cmd'[op].type = "adoptTab" /\ cmd'[op].tab = t
          BY <3>3, <4>2, <5>1 DEF Awaited, Stepped, Follows
        <5>. QED BY <4>2, <5>1, <5>2 DEF Awaited, Busy
      <4>. QED BY <4>1, <4>2
    <3>. QED BY <3>1, <3>2, <3>3 DEF Pending
  <2>3. CASE owned'[t] # owned[t]
    <3>1. /\ cmd[op].type = "adoptTab" /\ cmd'[op] # Idle /\ cmd'[op].todo = <<"confirm">>
          /\ cmd'[op].tab = t
      BY <2>1, <2>3 DEF Stepped, Writes
    <3>2. cmd'[op].type = "adoptTab"
      BY <3>1 DEF Stepped, Follows
    <3>3. Awaited(op, t)'
      BY <3>1, <3>2 DEF Awaited, Busy, Doubtful
    <3>. QED BY <3>3 DEF Pending
  <2>. QED BY <2>2, <2>3
<1>. QED BY <1>1, <1>2, <1>3 DEF RevokedInv

LEMMA ChromeKeepsRevoked ==
  ASSUME IInv, RevokedInv, NEW u \in Tab, ChromeEvent(u)
  PROVE  RevokedInv'
<1>1. access' = access /\ update' = update /\ deaths' = deaths /\ cmd' = cmd
  BY DEF ChromeEvent, OpenChild, ChildLooks, ChildRemembered, UserCloses, Forgotten, faultVars
<1>2. Outside
  BY ChromeIsOutside
<1>3. \A t \in Tab : Adopted(t)' => Adopted(t)
  BY <1>2 DEF Outside, Adopted
<1>. QED BY <1>1, <1>3 DEF RevokedInv, Informed, Adopted, Pending, Swept, Awaited, Busy

LEMMA BeginKeepsRevoked ==
  ASSUME IInv, PlanInv, RevokedInv, NEW op \in Op, NEW type \in Offered, NEW s \in Session,
         NEW t \in Tab \cup {NoTab}, NEW close \in BOOLEAN, Begin(op, type, s, t, close)
  PROVE  RevokedInv'
<1>1. /\ access' = access /\ update' = update /\ deaths' = deaths /\ owned' = owned /\ ~Busy(op)
  BY DEF Begin, faultVars
<1>2. \A o \in Op : o # op => cmd'[o] = cmd[o]
  BY Beginning
<1>3. ASSUME NEW o \in Op, NEW v \in Tab, Awaited(o, v)
      PROVE  Awaited(o, v)'
  BY <1>1, <1>2, <1>3 DEF Awaited, Busy
<1>. QED BY <1>1, <1>3 DEF RevokedInv, Informed, Adopted, Pending, Swept

LEMMA SettingsKeepRevoked ==
  ASSUME Updater \subseteq {"popup"}, IInv, RevokedInv, NEW u \in Updater, SettingsStep(u)
  PROVE  RevokedInv'
<1>1. /\ deaths' = deaths /\ Updater = {u} /\ update \in [Updater -> Update]
      /\ owned \in [Tab -> Records \cup {NoRecord}] /\ cmd \in [Op -> Handlers \cup {Idle}]
      /\ Patches[u] = {"enable", "disable"}
  BY DEF SettingsStep, BeginUpdate, WriteSettings, SurveyAdopted, ReleaseAdopted, faultVars,
         IInv, SettingsInv, OwnedInv, CmdInv, Patches
<1>2. CASE \E patch \in Patches[u] : BeginUpdate(u, patch)
  <2>1. PICK patch \in Patches[u] : BeginUpdate(u, patch)
    BY <1>2
  <2>2. /\ update[u] = NoUpdate /\ update'[u] = [step |-> "write", patch |-> patch, current |-> access]
        /\ UNCHANGED <<owned, access, cmd>>
    BY <1>1, <2>1 DEF BeginUpdate
  <2>3. update[u].step = "none" /\ update'[u].step = "write" /\ update'[u].current = access
        /\ update'[u].patch = patch
    BY <2>2 DEF NoUpdate
  <2>. QED
    BY <1>1, <2>2, <2>3 DEF RevokedInv, Informed, Adopted, Pending, Swept, Awaited, Busy
<1>3. CASE WriteSettings(u)
  <2>1. /\ update[u].step = "write" /\ update[u].patch \in {"enable", "disable"}
        /\ update[u].current = access /\ owned' = owned
    BY <1>1, <1>3 DEF WriteSettings, RevokedInv, Informed, Update
  <2>2. access' = (update[u].patch = "enable")
    BY <1>3, <2>1 DEF WriteSettings
  <2>3. update'[u] = IF access /\ ~access' THEN [step |-> "survey"] ELSE NoUpdate
    BY <1>1, <1>3, <2>1 DEF WriteSettings
  <2>4. Informed'
    BY <1>1, <2>3 DEF Informed, NoUpdate
  <2>5. ASSUME ~access', deaths = 0, NEW t \in Tab, Adopted(t)'
        PROVE  Pending(t)'
    <3>1. CASE access
      BY <2>3, <2>5, <3>1 DEF Pending, Swept
    <3>2. CASE ~access
      <4>1. Pending(t)
        BY <2>1, <2>5, <3>2 DEF RevokedInv, Adopted
      <4>2. PICK op \in Op : Awaited(op, t)
        BY <1>1, <2>1, <4>1 DEF Pending, Swept
      <4>3. cmd'[op] = cmd[op]
        BY <1>3, <2>5 DEF WriteSettings
      <4>. QED BY <4>2, <4>3 DEF Pending, Awaited, Busy
    <3>. QED BY <3>1, <3>2
  <2>. QED BY <1>1, <2>4, <2>5 DEF RevokedInv
<1>4. CASE SurveyAdopted(u)
  <2>1. PICK found : found = {t \in Tab : owned[t] # NoRecord /\ owned[t].kind = "adopted"}
    OBVIOUS
  <2>2. update'[u] = [step |-> "release", tabs |-> found] /\ UNCHANGED <<owned, access, cmd>>
    BY <1>1, <1>4, <2>1 DEF SurveyAdopted
  <2>3. update'[u].step = "release" /\ update'[u].tabs = found
    BY <2>2
  <2>4. \A t \in Tab : Adopted(t)' => Pending(t)'
    BY <2>1, <2>2, <2>3 DEF Adopted, Pending, Swept
  <2>. QED BY <1>1, <2>3, <2>4 DEF RevokedInv, Informed
<1>5. CASE ReleaseAdopted(u)
  <2>1. update[u].step = "release" /\ access' = access /\ cmd' = cmd
    BY <1>5 DEF ReleaseAdopted
  <2>2. update[u] \in [step : {"release"}, tabs : SUBSET Tab]
    BY <1>1, <2>1 DEF Update, NoUpdate
  <2>3. CASE \E t \in update[u].tabs : Own(t, NoRecord)
                /\ update' = [update EXCEPT ![u].tabs = @ \ {t}]
    <3>1. PICK t \in update[u].tabs : Own(t, NoRecord)
                /\ update' = [update EXCEPT ![u].tabs = @ \ {t}]
      BY <2>3
    <3>2. update'[u].step = "release" /\ update'[u].tabs = update[u].tabs \ {t}
      BY <1>1, <2>2, <3>1
    <3>3. \A v \in Tab : Adopted(v)' => v # t /\ Adopted(v)
      BY <1>1, <3>1 DEF Adopted, Own
    <3>4. ASSUME NEW v \in Tab, Adopted(v)', Pending(v)
          PROVE  Pending(v)'
      BY <1>1, <2>1, <3>2, <3>3, <3>4 DEF Pending, Swept, Awaited, Busy
    <3>. QED BY <1>1, <2>1, <3>2, <3>3, <3>4 DEF RevokedInv, Informed
  <2>4. CASE update[u].tabs = {} /\ update' = [update EXCEPT ![u] = NoUpdate] /\ UNCHANGED owned
    <3>1. update'[u].step = "none" /\ owned' = owned
      BY <1>1, <2>4 DEF NoUpdate
    <3>2. ASSUME NEW v \in Tab, Pending(v)
          PROVE  Pending(v)'
      BY <1>1, <2>1, <2>4, <3>2 DEF Pending, Swept, Awaited, Busy
    <3>. QED BY <1>1, <2>1, <3>1, <3>2 DEF RevokedInv, Informed, Adopted
  <2>. QED BY <1>5, <2>3, <2>4 DEF ReleaseAdopted
<1>. QED BY <1>2, <1>3, <1>4, <1>5 DEF SettingsStep

LEMMA NextRevoked ==
  ASSUME Updater \subseteq {"popup"}
  PROVE  IInv /\ PlanInv /\ RevokedInv /\ [Next]_vars => RevokedInv'
<1> SUFFICES ASSUME IInv, PlanInv, RevokedInv, [Next]_vars PROVE RevokedInv'
  OBVIOUS
<1>1. CASE WorkerDies
  <2>1. deaths' # 0
    BY <1>1 DEF WorkerDies, IInv, FaultInv, OwnershipAssumption
  <2>2. \A u \in Updater : update'[u].step = "none"
    BY <1>1 DEF WorkerDies, NoUpdate
  <2>. QED BY <2>1, <2>2 DEF RevokedInv, Informed
<1>2. CASE UNCHANGED vars
  BY <1>2 DEF vars, RevokedInv, Informed, Adopted, Pending, Swept, Awaited, Busy
<1>. QED
  BY <1>1, <1>2, CommandSteps, SteppingKeepsRevoked, BeginKeepsRevoked, ChromeKeepsRevoked,
     SettingsKeepRevoked DEF Next

LEMMA InitPlans ==
  Init => PlanInv /\ Alone /\ CloseInv /\ RevokedInv
<1> SUFFICES ASSUME Init PROVE PlanInv /\ Alone /\ CloseInv /\ RevokedInv
  OBVIOUS
<1>1. \A op \in Op : ~Busy(op)
  BY DEF Init, Busy
<1>2. \A t \in Tab : owned[t] = NoRecord
  BY DEF Init
<1>3. PlanInv /\ Alone
  BY <1>1 DEF PlanInv, Apart, Alone, Gated
<1>4. CloseInv
  BY <1>1, <1>2 DEF CloseInv, SessionsFit, Progress, ClosedSessionOwnsNothing, Gated
<1>5. RevokedInv
  BY <1>2 DEF Init, RevokedInv, Informed, Adopted, NoUpdate
<1>. QED BY <1>3, <1>4, <1>5

(* Adoption takes a tab of the user from nobody, unless one of the two       *)
(* commands concerned outlived its deadline: the look of commandAdoptTab at  *)
(* the record and the unconditional write of rememberTab are kept together   *)
(* by the gate alone.                                                        *)
THEOREM AdoptionIsNotTheft == Spec => AdoptionTakesNothing
<1>1. IInv /\ PlanInv /\ Alone /\ [Next]_vars =>
        [\A t \in UserTab : TakesOver(t) => owned[t].late \/ owned'[t].late]_vars
  BY TakingIsLate
<1>. QED
  BY <1>1, InitPlans, NextPlan, NextAlone, Invariance, PTL DEF Spec, AdoptionTakesNothing

(* A session that is closed has no tab left, except one recorded by a        *)
(* handler that had left the gate or when the session was no longer active:  *)
(* commandReleaseWorkspace accounts for every other record it has found.     *)
THEOREM ClosedSessionsKeepNothing == Spec => []ClosedSessionOwnsNothing
<1>1. CloseInv => ClosedSessionOwnsNothing
  BY DEF CloseInv
<1>. QED
  BY <1>1, InitPlans, NextPlan, NextClose, Invariance, PTL DEF Spec

(* Where only the popup writes the settings, switching access off releases   *)
(* every adopted tab: one adopted before the switch is on its list, one      *)
(* adopted later finds access off when it looks once more.  (With the stale  *)
(* write of an approval this is false: RevocationSticks.)                    *)
THEOREM SwitchingOffReleases ==
  Updater \subseteq {"popup"} => (Spec => []RevocationReleases)
<1> SUFFICES ASSUME Updater \subseteq {"popup"} PROVE Spec => []RevocationReleases
  OBVIOUS
<1>1. RevokedInv => RevocationReleases
  <2> SUFFICES ASSUME RevokedInv, Quiet, ~access, deaths = 0, NEW t \in Tab, Adopted(t)
               PROVE  FALSE
    BY DEF RevocationReleases, Adopted
  <2>1. Pending(t)
    BY DEF RevokedInv
  <2>. QED BY <2>1 DEF Pending, Swept, Awaited, Quiet, NoUpdate
<1>2. IInv /\ PlanInv /\ RevokedInv /\ [Next]_vars => RevokedInv'
  BY NextRevoked
<1>. QED
  BY <1>1, <1>2, InitPlans, NextPlan, Invariance, PTL DEF Spec
=============================================================================
