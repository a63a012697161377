------------------------ MODULE RequestCache_proofs ------------------------
(* The bytes of the broker's request records are accounted for and stay      *)
(* within the budget, for any number of records, operations and sizes.       *)
EXTENDS RequestCache, SequenceTheorems, WellFoundedInduction, TLAPS

-----------------------------------------------------------------------------
(* Induction, with a set in the place of a predicate: the provers cannot     *)
(* take the induction theorems of the library, which have an operator for    *)
(* their parameter, but know that the natural numbers are well-founded.      *)

LEMMA Least == ASSUME NEW T \in SUBSET Nat, T # {}
               PROVE  \E x \in T : \A y \in T : x <= y
<1>1. PICK less : less = OpToRel(<, Nat)
  OBVIOUS
<1>2. IsWellFoundedOn(less, Nat)
  BY <1>1, NatLessThanWellFounded
<1>3. \A x, y \in Nat : x < y => <<x, y>> \in less
  BY <1>1 DEF OpToRel
<1>4. PICK x \in T : \A y \in T : <<y, x>> \notin less
  BY <1>2, WFMin
<1>5. ASSUME NEW y \in T PROVE x <= y
  <2>1. ~(y < x)
    BY <1>3, <1>4
  <2>. QED BY <2>1
<1>. QED BY <1>4, <1>5

LEMMA Induction == ASSUME NEW T, 0 \in T, \A n \in Nat : n \in T => n + 1 \in T
                   PROVE  \A n \in Nat : n \in T
<1>1. SUFFICES ASSUME Nat \ T # {} PROVE FALSE
  OBVIOUS
<1>2. PICK x \in Nat \ T : \A y \in Nat \ T : x <= y
  BY <1>1, Least
<1>3. x # 0 /\ x - 1 \in Nat
  BY <1>2
<1>4. x - 1 \in T
  BY <1>2, <1>3
<1>. QED BY <1>2, <1>3, <1>4

LEMMA Maximum == ASSUME NEW n \in Nat, NEW x \in SUBSET (1..n), x # {}
                 PROVE  Max(x) \in x /\ \A y \in x : y <= Max(x)
<1>1. PICK T : T = {k \in Nat : \E y \in x : k = n - y}
  OBVIOUS
<1>2. T # {} /\ T \in SUBSET Nat
  <2>1. PICK y \in x : y \in 1..n
    OBVIOUS
  <2>2. n - y \in Nat
    BY <2>1
  <2>. QED BY <1>1, <2>1, <2>2
<1>3. PICK k \in T : \A j \in T : k <= j
  BY <1>2, Least
<1>4. PICK m \in x : k = n - m
  BY <1>1, <1>3
<1>5. ASSUME NEW y \in x PROVE m >= y
  <2>1. n - y \in T /\ y \in 1..n /\ m \in 1..n
    BY <1>1
  <2>. QED BY <1>3, <1>4, <2>1
<1>. QED BY <1>4, <1>5 DEF Max

LEMMA MaximumIs == ASSUME NEW n \in Nat, NEW x \in SUBSET (1..n), NEW m \in x, \A y \in x : y <= m
                   PROVE  Max(x) = m
<1>1. Max(x) \in x /\ m <= Max(x)
  BY Maximum
<1>2. Max(x) <= m
  BY <1>1
<1>3. \A y \in x : y \in Int
  OBVIOUS
<1>4. Max(x) \in Int /\ m \in Int
  BY <1>1, <1>3
<1>. QED BY <1>1, <1>2, <1>4

(* What a fold from the left is made of: for each of the first positions,    *)
(* the step from the fold of those below it.                                 *)
Steps(n, V) == [(1..n) \X V -> V]
IsFold(n, V, base, step, iter) ==
  /\ iter \in [SUBSET (1..n) -> V]
  /\ \A x \in SUBSET (1..n) :
       iter[x] = IF x = {} THEN base ELSE step[<<Max(x), iter[x \ {Max(x)}]>>]

(* The function a fold is made of exists.                                    *)
LEMMA FoldExists ==
  ASSUME NEW n \in Nat, NEW V, NEW base \in V, NEW step \in Steps(n, V)
  PROVE  \E iter : IsFold(n, V, base, step, iter)
<1>1. PICK T : T = {k \in Nat : \E iter \in [SUBSET (1..n) -> V] : \A x \in SUBSET (1..n) :
                      x \subseteq 1..k =>
                        iter[x] = IF x = {} THEN base ELSE step[<<Max(x), iter[x \ {Max(x)}]>>]}
  OBVIOUS
<1>2. 0 \in T
  <2>1. PICK iter : iter = [x \in SUBSET (1..n) |-> base]
    OBVIOUS
  <2>2. iter \in [SUBSET (1..n) -> V]
    BY <2>1
  <2>3. \A x \in SUBSET (1..n) : x \subseteq 1..0 => x = {} /\ iter[x] = base
    BY <2>1
  <2>. QED BY <1>1, <2>2, <2>3
<1>3. ASSUME NEW k \in Nat, k \in T PROVE k + 1 \in T
  <2>1. PICK f \in [SUBSET (1..n) -> V] : \A x \in SUBSET (1..n) :
          x \subseteq 1..k =>
            f[x] = IF x = {} THEN base ELSE step[<<Max(x), f[x \ {Max(x)}]>>]
    BY <1>1, <1>3
  <2>2. PICK g : g = [x \in SUBSET (1..n) |->
                        IF k + 1 \in x THEN step[<<k + 1, f[x \ {k + 1}]>>] ELSE f[x]]
    OBVIOUS
  <2>3. g \in [SUBSET (1..n) -> V]
    <3>0. step \in [(1..n) \X V -> V]
      BY DEF Steps
    <3>1. ASSUME NEW x \in SUBSET (1..n), k + 1 \in x
          PROVE  step[<<k + 1, f[x \ {k + 1}]>>] \in V
      <4>1. x \ {k + 1} \in SUBSET (1..n) /\ k + 1 \in 1..n
        BY <3>1
      <4>2. f[x \ {k + 1}] \in V
        BY <4>1
      <4>3. <<k + 1, f[x \ {k + 1}]>> \in (1..n) \X V
        BY <4>1, <4>2
      <4>. QED BY <3>0, <4>3
    <3>. QED BY <2>2, <3>1
  <2>4. ASSUME NEW x \in SUBSET (1..n), x \subseteq 1..(k + 1)
        PROVE  g[x] = IF x = {} THEN base ELSE step[<<Max(x), g[x \ {Max(x)}]>>]
    <3>1. CASE k + 1 \in x
      <4>1. \A y \in x : y <= k + 1
        BY <2>4
      <4>2. Max(x) = k + 1
        BY <3>1, <4>1, MaximumIs
      <4>3. g[x \ {k + 1}] = f[x \ {k + 1}] /\ x # {}
        BY <2>2, <3>1
      <4>. QED BY <2>2, <3>1, <4>2, <4>3
    <3>2. CASE k + 1 \notin x
      <4>1. x \subseteq 1..k
        BY <2>4, <3>2
      <4>2. g[x] = f[x] /\ g[x \ {Max(x)}] = f[x \ {Max(x)}]
        BY <2>2, <3>2
      <4>. QED BY <2>1, <4>1, <4>2
    <3>. QED BY <3>1, <3>2
  <2>5. \A x \in SUBSET (1..n) :
          x \subseteq 1..(k + 1) =>
            g[x] = IF x = {} THEN base ELSE step[<<Max(x), g[x \ {Max(x)}]>>]
    BY <2>4
  <2>6. k + 1 \in Nat
    OBVIOUS
  <2>. QED BY <1>1, <2>3, <2>5, <2>6
<1>4. n \in T
  BY <1>2, <1>3, Induction
<1>5. PICK iter \in [SUBSET (1..n) -> V] : \A x \in SUBSET (1..n) :
        x \subseteq 1..n =>
          iter[x] = IF x = {} THEN base ELSE step[<<Max(x), iter[x \ {Max(x)}]>>]
  BY <1>1, <1>4
<1>. QED BY <1>5 DEF IsFold

LEMMA Upto == ASSUME NEW i \in Nat, i > 0
              PROVE  1..i # {} /\ Max(1..i) = i /\ (1..i) \ {i} = 1..(i - 1)
<1>1. i \in 1..i /\ \A y \in 1..i : y <= i
  OBVIOUS
<1>2. Max(1..i) = i
  BY <1>1, MaximumIs
<1>3. (1..i) \ {i} = 1..(i - 1)
  OBVIOUS
<1>. QED BY <1>1, <1>2, <1>3

LEMMA FootprintType == ASSUME RequestCacheAssumption, NEW r \in Record PROVE Footprint(r) \in Nat
<1>1. \A x \in Size \cup {0} : x \in Nat
  BY DEF RequestCacheAssumption
<1>2. r.reserved \in Size /\ r.actual \in Size \cup {0}
  BY DEF Record
<1>3. PICK a, b : a = r.reserved /\ b = r.actual
  OBVIOUS
<1>4. a \in Nat /\ b \in Nat
  BY <1>1, <1>2, <1>3
<1>. QED BY <1>3, <1>4 DEF Footprint, Larger

(* The bytes of a cache are the last of the sums of its first records.       *)
Sums(s, sum) ==
  /\ sum \in [0..Len(s) -> Nat] /\ sum[0] = 0
  /\ \A i \in 1..Len(s) : sum[i] = sum[i - 1] + Footprint(s[i])

LEMMA TotalFold ==
  ASSUME RequestCacheAssumption, NEW s \in Seq(Record)
  PROVE  \E sum : Sums(s, sum) /\ Total(s) = sum[Len(s)]
<1>1. PICK n \in Nat : n = Len(s) /\ DOMAIN s = 1..n
  OBVIOUS
<1>2. PICK F : F = [i \in 1..n |-> Footprint(s[i])]
  OBVIOUS
<1>3. F \in [1..n -> Nat]
  BY <1>1, <1>2, FootprintType
<1>4. PICK step : step = [p \in (1..n) \X Nat |-> p[2] + F[p[1]]]
  OBVIOUS
<1>5. step \in Steps(n, Nat)
  BY <1>3, <1>4 DEF Steps
<1>6. PICK g : IsFold(n, Nat, 0, step, g)
  BY <1>5, FoldExists
<1>7. ASSUME NEW x \in SUBSET (1..n), x # {}
      PROVE  g[x] = g[x \ {Max(x)}] + Footprint(s[Max(x)])
  <2>1. Max(x) \in 1..n
    BY <1>7, Maximum
  <2>2. g[x \ {Max(x)}] \in Nat
    BY <1>6 DEF IsFold
  <2>3. step[<<Max(x), g[x \ {Max(x)}]>>] = g[x \ {Max(x)}] + F[Max(x)]
    BY <1>4, <2>1, <2>2
  <2>4. g[x] = step[<<Max(x), g[x \ {Max(x)}]>>]
    BY <1>6, <1>7 DEF IsFold
  <2>. QED BY <1>2, <2>1, <2>3, <2>4
<1>8. g = [x \in SUBSET DOMAIN s |->
             IF x = {} THEN 0 ELSE g[x \ {Max(x)}] + Footprint(s[Max(x)])]
  BY <1>1, <1>6, <1>7 DEF IsFold
<1>9. Total(s) = (CHOOSE it : it = [x \in SUBSET DOMAIN s |->
             IF x = {} THEN 0 ELSE it[x \ {Max(x)}] + Footprint(s[Max(x)])])[DOMAIN s]
  BY DEF Total, FoldLeft, MapThenFoldSet
<1>10. PICK it : /\ it = [x \in SUBSET DOMAIN s |->
                       IF x = {} THEN 0 ELSE it[x \ {Max(x)}] + Footprint(s[Max(x)])]
                 /\ Total(s) = it[1..n]
  BY <1>1, <1>8, <1>9
<1>11. PICK sum : sum = [i \in 0..n |-> it[1..i]]
  OBVIOUS
<1>12. sum[0] = 0
  <2>1. 1..0 = {} /\ {} \in SUBSET DOMAIN s
    OBVIOUS
  <2>. QED BY <1>10, <1>11, <2>1
<1>13. ASSUME NEW i \in 1..n PROVE sum[i] = sum[i - 1] + Footprint(s[i])
  <2>1. (1..i) \in SUBSET DOMAIN s
    BY <1>1
  <2>2. 1..i # {} /\ Max(1..i) = i /\ (1..i) \ {i} = 1..(i - 1)
    BY Upto
  <2>3. it[1..i] = it[(1..i) \ {i}] + Footprint(s[i])
    BY <1>10, <2>1, <2>2
  <2>4. sum[i] = it[1..i] /\ sum[i - 1] = it[1..(i - 1)]
    BY <1>11
  <2>. QED BY <2>2, <2>3, <2>4
<1>14. sum \in [0..n -> Nat]
  <2>1. PICK T : T = {k \in Nat : k <= n => sum[k] \in Nat}
    OBVIOUS
  <2>2. 0 \in T
    BY <1>12, <2>1
  <2>3. ASSUME NEW k \in Nat, k \in T PROVE k + 1 \in T
    <3>1. CASE k + 1 <= n
      <4>1. sum[k] \in Nat /\ k + 1 \in 1..n
        BY <2>1, <2>3, <3>1
      <4>2. Footprint(s[k + 1]) \in Nat
        BY <1>1, <4>1, FootprintType
      <4>3. sum[k + 1] = sum[k] + Footprint(s[k + 1])
        BY <1>13, <4>1
      <4>. QED BY <2>1, <4>1, <4>2, <4>3
    <3>2. CASE ~(k + 1 <= n)
      BY <2>1, <3>2
    <3>. QED BY <3>1, <3>2
  <2>4. \A k \in Nat : k \in T
    BY <2>2, <2>3, Induction
  <2>5. \A k \in 0..n : sum[k] \in Nat
    BY <2>1, <2>4
  <2>. QED BY <1>11, <2>5
<1>15. Total(s) = sum[n]
  BY <1>10, <1>11
<1>. QED BY <1>1, <1>12, <1>13, <1>14, <1>15 DEF Sums

Caches == [requests : Seq(Record), bytes : Nat]

LEMMA CacheFields == ASSUME NEW s, NEW b
                     PROVE  Cache(s, b).requests = s /\ Cache(s, b).bytes = b
BY DEF Cache

LEMMA CacheType == ASSUME NEW s \in Seq(Record), NEW b \in Nat PROVE Cache(s, b) \in Caches
BY DEF Cache, Caches

(* What one record makes of a cache from which ids are removed, and the      *)
(* caches after the first records.                                           *)
Passed(d, r, ids) ==
  IF r.id \in ids THEN Cache(d.requests, Larger(0, d.bytes - Footprint(r)))
  ELSE Cache(Append(d.requests, r), d.bytes)

Removal(c, ids, d) ==
  /\ d \in [0..Len(c.requests) -> Caches]
  /\ d[0] = Cache(<<>>, c.bytes)
  /\ \A i \in 1..Len(c.requests) : d[i] = Passed(d[i - 1], c.requests[i], ids)

LEMMA PassedType == ASSUME RequestCacheAssumption, NEW d \in Caches, NEW r \in Record, NEW ids
                    PROVE  Passed(d, r, ids) \in Caches
<1>1. d.requests \in Seq(Record) /\ d.bytes \in Nat
  BY DEF Caches
<1>2. PICK f \in Nat : f = Footprint(r)
  BY FootprintType
<1>3. PICK b \in Nat : b = d.bytes
  BY <1>1
<1>4. Larger(0, b - f) \in Nat
  BY DEF Larger
<1>5. Append(d.requests, r) \in Seq(Record)
  BY <1>1, AppendProperties
<1>6. CASE r.id \in ids
  <2>1. Passed(d, r, ids) = Cache(d.requests, Larger(0, b - f))
    BY <1>2, <1>3, <1>6 DEF Passed
  <2>. QED BY <1>1, <1>4, <2>1, CacheType
<1>7. CASE r.id \notin ids
  <2>1. Passed(d, r, ids) = Cache(Append(d.requests, r), d.bytes)
    BY <1>7 DEF Passed
  <2>. QED BY <1>1, <1>5, <2>1, CacheType
<1>. QED BY <1>6, <1>7

LEMMA RemovalFold ==
  ASSUME RequestCacheAssumption, NEW c \in Caches, NEW ids
  PROVE  \E d : Removal(c, ids, d) /\ removeRequests(c, ids) = d[Len(c.requests)]
<1>0. PICK s \in Seq(Record) : s = c.requests
  BY DEF Caches
<1>1. PICK n \in Nat : n = Len(s) /\ DOMAIN s = 1..n
  OBVIOUS
<1>2. PICK base \in Caches : base = Cache(<<>>, c.bytes)
  <2>1. <<>> \in Seq(Record) /\ c.bytes \in Nat
    BY EmptySeq DEF Caches
  <2>. QED BY <2>1, CacheType
<1>4. PICK step : step = [p \in (1..n) \X Caches |-> Passed(p[2], s[p[1]], ids)]
  OBVIOUS
<1>5. step \in Steps(n, Caches)
  BY <1>1, <1>4, PassedType DEF Steps
<1>6. PICK g : IsFold(n, Caches, base, step, g)
  BY <1>5, FoldExists
<1>7. ASSUME NEW x \in SUBSET (1..n), x # {}
      PROVE  g[x] = Passed(g[x \ {Max(x)}], s[Max(x)], ids)
  <2>1. Max(x) \in 1..n
    BY <1>7, Maximum
  <2>2. g[x \ {Max(x)}] \in Caches
    BY <1>6 DEF IsFold
  <2>3. step[<<Max(x), g[x \ {Max(x)}]>>] = Passed(g[x \ {Max(x)}], s[Max(x)], ids)
    BY <1>4, <2>1, <2>2
  <2>4. g[x] = step[<<Max(x), g[x \ {Max(x)}]>>]
    BY <1>6, <1>7 DEF IsFold
  <2>. QED BY <2>3, <2>4
<1>8. g = [x \in SUBSET DOMAIN s |->
             IF x = {} THEN base ELSE Passed(g[x \ {Max(x)}], s[Max(x)], ids)]
  BY <1>1, <1>6, <1>7 DEF IsFold
<1>9. removeRequests(c, ids) = (CHOOSE it : it = [x \in SUBSET DOMAIN s |->
        IF x = {} THEN base ELSE Passed(it[x \ {Max(x)}], s[Max(x)], ids)])[DOMAIN s]
  BY <1>0, <1>2 DEF removeRequests, FoldLeft, MapThenFoldSet, Passed
<1>10. PICK it : /\ it = [x \in SUBSET DOMAIN s |->
                       IF x = {} THEN base ELSE Passed(it[x \ {Max(x)}], s[Max(x)], ids)]
                 /\ removeRequests(c, ids) = it[1..n]
  BY <1>1, <1>8, <1>9
<1>11. PICK d : d = [i \in 0..n |-> it[1..i]]
  OBVIOUS
<1>12. d[0] = base
  <2>1. 1..0 = {} /\ {} \in SUBSET DOMAIN s
    OBVIOUS
  <2>. QED BY <1>10, <1>11, <2>1
<1>13. ASSUME NEW i \in 1..n PROVE d[i] = Passed(d[i - 1], s[i], ids)
  <2>1. (1..i) \in SUBSET DOMAIN s
    BY <1>1
  <2>2. 1..i # {} /\ Max(1..i) = i /\ (1..i) \ {i} = 1..(i - 1)
    BY Upto
  <2>3. it[1..i] = Passed(it[(1..i) \ {i}], s[i], ids)
    BY <1>10, <2>1, <2>2
  <2>4. d[i] = it[1..i] /\ d[i - 1] = it[1..(i - 1)]
    BY <1>11
  <2>. QED BY <2>2, <2>3, <2>4
<1>14. d \in [0..n -> Caches]
  <2>1. PICK T : T = {k \in Nat : k <= n => d[k] \in Caches}
    OBVIOUS
  <2>2. 0 \in T
    BY <1>12, <2>1
  <2>3. ASSUME NEW k \in Nat, k \in T PROVE k + 1 \in T
    <3>1. CASE k + 1 <= n
      <4>1. d[k] \in Caches /\ k + 1 \in 1..n
        BY <2>1, <2>3, <3>1
      <4>2. d[k + 1] = Passed(d[k], s[k + 1], ids) /\ s[k + 1] \in Record
        BY <1>1, <1>13, <4>1
      <4>3. d[k + 1] \in Caches
        BY <4>1, <4>2, PassedType
      <4>. QED BY <2>1, <4>3
    <3>2. CASE ~(k + 1 <= n)
      BY <2>1, <3>2
    <3>. QED BY <3>1, <3>2
  <2>4. \A k \in Nat : k \in T
    BY <2>2, <2>3, Induction
  <2>5. \A k \in 0..n : d[k] \in Caches
    BY <2>1, <2>4
  <2>. QED BY <1>11, <2>5
<1>15. removeRequests(c, ids) = d[n]
  BY <1>10, <1>11
<1>. QED BY <1>0, <1>1, <1>2, <1>12, <1>13, <1>14, <1>15 DEF Removal

(* Over a stretch of records none of which takes less than its counterpart.  *)
LEMMA SumsBelow ==
  ASSUME RequestCacheAssumption, NEW s \in Seq(Record), NEW t \in Seq(Record),
         NEW f, Sums(s, f), NEW g, Sums(t, g),
         NEW a \in Nat, NEW b \in Nat, NEW m \in Nat, a + m <= Len(s), b + m <= Len(t),
         \A j \in 1..m : Footprint(s[a + j]) <= Footprint(t[b + j])
  PROVE  f[a + m] - f[a] <= g[b + m] - g[b]
<1>1. PICK T : T = {k \in Nat : k <= m => f[a + k] - f[a] <= g[b + k] - g[b]}
  OBVIOUS
<1>2. /\ \A i \in 0..Len(s) : f[i] \in Nat
      /\ \A i \in 0..Len(t) : g[i] \in Nat
  BY DEF Sums
<1>3. 0 \in T
  BY <1>1, <1>2
<1>4. ASSUME NEW k \in Nat, k \in T PROVE k + 1 \in T
  <2>1. CASE k + 1 <= m
    <3>1. PICK i \in 1..Len(s) : i = a + (k + 1) /\ i - 1 = a + k
      BY <2>1
    <3>2. PICK j \in 1..Len(t) : j = b + (k + 1) /\ j - 1 = b + k
      BY <2>1
    <3>3. f[i] = f[i - 1] + Footprint(s[i]) /\ g[j] = g[j - 1] + Footprint(t[j])
      BY DEF Sums
    <3>4. Footprint(s[i]) <= Footprint(t[j])
      <4>1. k + 1 \in 1..m
        BY <2>1
      <4>2. Footprint(s[a + (k + 1)]) <= Footprint(t[b + (k + 1)])
        BY <4>1
      <4>. QED BY <3>1, <3>2, <4>2
    <3>5. f[i - 1] - f[a] <= g[j - 1] - g[b]
      BY <1>1, <1>4, <2>1, <3>1, <3>2
    <3>6. s[i] \in Record /\ t[j] \in Record
      OBVIOUS
    <3>7. PICK x \in Nat, y \in Nat : x = Footprint(s[i]) /\ y = Footprint(t[j])
      BY <3>6, FootprintType
    <3>8. f[i - 1] \in Nat /\ g[j - 1] \in Nat /\ f[a] \in Nat /\ g[b] \in Nat
      BY <1>2
    <3>9. f[i] - f[a] <= g[j] - g[b]
      <4>1. x <= y /\ f[i] = f[i - 1] + x /\ g[j] = g[j - 1] + y
        BY <3>3, <3>4, <3>7
      <4>2. PICK u \in Nat, v \in Nat, w \in Nat, z \in Nat :
              u = f[i - 1] /\ v = f[a] /\ w = g[j - 1] /\ z = g[b]
        BY <3>8
      <4>3. u - v <= w - z
        BY <3>5, <4>2
      <4>4. (u + x) - v <= (w + y) - z
        BY <4>1, <4>3
      <4>. QED BY <4>1, <4>2, <4>4
    <3>. QED BY <1>1, <3>1, <3>2, <3>9
  <2>2. CASE ~(k + 1 <= m)
    BY <1>1, <2>2
  <2>. QED BY <2>1, <2>2
<1>5. m \in T
  BY <1>3, <1>4, Induction
<1>. QED BY <1>1, <1>5

SameStretch(s, a, t, b, m) ==
  a + m <= Len(s) /\ b + m <= Len(t) /\ \A j \in 1..m : s[a + j] = t[b + j]

LEMMA SumsEqual ==
  ASSUME RequestCacheAssumption, NEW s \in Seq(Record), NEW t \in Seq(Record),
         NEW f, Sums(s, f), NEW g, Sums(t, g),
         NEW a \in Nat, NEW b \in Nat, NEW m \in Nat, SameStretch(s, a, t, b, m)
  PROVE  f[a + m] - f[a] = g[b + m] - g[b]
<1>1. \A j \in 1..m : s[a + j] \in Record /\ t[b + j] \in Record
  BY DEF SameStretch
<1>2. \A j \in 1..m : Footprint(s[a + j]) \in Nat /\ Footprint(t[b + j]) = Footprint(s[a + j])
  BY <1>1, FootprintType DEF SameStretch
<1>3. f[a + m] - f[a] <= g[b + m] - g[b]
  <2>1. \A j \in 1..m : Footprint(s[a + j]) <= Footprint(t[b + j])
    BY <1>2
  <2>. QED BY <2>1, SumsBelow DEF SameStretch
<1>4. g[b + m] - g[b] <= f[a + m] - f[a]
  <2>1. \A j \in 1..m : Footprint(t[b + j]) <= Footprint(s[a + j])
    BY <1>2
  <2>. QED BY <2>1, SumsBelow DEF SameStretch
<1>5. f[a + m] \in Nat /\ f[a] \in Nat /\ g[b + m] \in Nat /\ g[b] \in Nat
  <2>1. {a + m, a} \subseteq 0..Len(s) /\ {b + m, b} \subseteq 0..Len(t)
    BY DEF SameStretch
  <2>. QED BY <2>1 DEF Sums
<1>. QED BY <1>3, <1>4, <1>5

LEMMA TotalIsSum ==
  ASSUME RequestCacheAssumption, NEW s \in Seq(Record), NEW f, Sums(s, f)
  PROVE  Total(s) = f[Len(s)] /\ Total(s) \in Nat
<1>1. PICK g : Sums(s, g) /\ Total(s) = g[Len(s)]
  BY TotalFold
<1>2. PICK n \in Nat : n = Len(s)
  OBVIOUS
<1>3. f[0 + n] - f[0] = g[0 + n] - g[0]
  <2>1. SameStretch(s, 0, s, 0, n)
    BY <1>2 DEF SameStretch
  <2>. QED BY <1>1, <2>1, SumsEqual
<1>4. f[0] = 0 /\ g[0] = 0 /\ f[n] \in Nat /\ g[n] \in Nat
  BY <1>1, <1>2 DEF Sums
<1>5. f[n] = g[n]
  BY <1>3, <1>4
<1>. QED BY <1>1, <1>2, <1>4, <1>5

LEMMA TotalBelow ==
  ASSUME RequestCacheAssumption, NEW s \in Seq(Record), NEW t \in Seq(Record), Len(s) = Len(t),
         \A j \in 1..Len(s) : Footprint(s[j]) <= Footprint(t[j])
  PROVE  Total(s) <= Total(t)
<1>1. PICK f : Sums(s, f) /\ Total(s) = f[Len(s)]
  BY TotalFold
<1>2. PICK g : Sums(t, g) /\ Total(t) = g[Len(t)]
  BY TotalFold
<1>3. PICK n \in Nat : n = Len(s)
  OBVIOUS
<1>4. f[0 + n] - f[0] <= g[0 + n] - g[0]
  <2>1. 0 \in Nat /\ 0 + n <= Len(s) /\ 0 + n <= Len(t)
    BY <1>3
  <2>2. \A j \in 1..n : Footprint(s[0 + j]) <= Footprint(t[0 + j])
    BY <1>3
  <2>. QED BY <1>1, <1>2, <2>1, <2>2, SumsBelow
<1>5. f[0] = 0 /\ g[0] = 0 /\ f[n] \in Nat /\ g[n] \in Nat
  BY <1>1, <1>2, <1>3 DEF Sums
<1>6. f[n] <= g[n]
  BY <1>4, <1>5
<1>. QED BY <1>1, <1>2, <1>3, <1>6

LEMMA TotalEmpty == ASSUME RequestCacheAssumption PROVE Total(<<>>) = 0
<1>1. <<>> \in Seq(Record) /\ Len(<<>>) = 0
  BY EmptySeq
<1>2. PICK f : Sums(<<>>, f) /\ Total(<<>>) = f[Len(<<>>)]
  BY <1>1, TotalFold
<1>. QED BY <1>1, <1>2 DEF Sums

LEMMA TotalAppend ==
  ASSUME RequestCacheAssumption, NEW s \in Seq(Record), NEW r \in Record
  PROVE  Total(Append(s, r)) = Total(s) + Footprint(r)
<1>1. PICK n \in Nat : n = Len(s)
  OBVIOUS
<1>2. PICK t \in Seq(Record) : t = Append(s, r)
  BY AppendProperties
<1>3. Len(t) = n + 1 /\ t[n + 1] = r /\ \A j \in 1..n : t[j] = s[j]
  BY <1>1, <1>2, AppendProperties
<1>4. PICK f : Sums(s, f) /\ Total(s) = f[n]
  BY <1>1, TotalFold
<1>5. PICK g : Sums(t, g) /\ Total(t) = g[n + 1]
  BY <1>3, TotalFold
<1>6. f[0 + n] - f[0] = g[0 + n] - g[0]
  <2>1. SameStretch(s, 0, t, 0, n)
    BY <1>1, <1>3 DEF SameStretch
  <2>. QED BY <1>4, <1>5, <2>1, SumsEqual
<1>7. f[0] = 0 /\ g[0] = 0 /\ f[n] \in Nat /\ g[n] \in Nat
  BY <1>1, <1>3, <1>4, <1>5 DEF Sums
<1>8. g[n + 1] = g[n] + Footprint(r)
  <2>1. n + 1 \in 1..Len(t)
    BY <1>3
  <2>2. g[n + 1] = g[(n + 1) - 1] + Footprint(t[n + 1])
    BY <1>5, <2>1 DEF Sums
  <2>. QED BY <1>3, <2>2
<1>9. g[n] = f[n]
  BY <1>6, <1>7
<1>. QED BY <1>2, <1>4, <1>5, <1>8, <1>9

LEMMA RemoveAtProperties ==
  ASSUME NEW S, NEW list \in Seq(S), NEW i \in 1..Len(list)
  PROVE  /\ RemoveAt(list, i) \in Seq(S)
         /\ Len(RemoveAt(list, i)) = Len(list) - 1
         /\ \A j \in 1..(Len(list) - 1) :
              RemoveAt(list, i)[j] = IF j < i THEN list[j] ELSE list[j + 1]
<1> DEFINE before == SubSeq(list, 1, i - 1)
           after == SubSeq(list, i + 1, Len(list))
<1>1. /\ before \in Seq(S)
      /\ Len(before) = i - 1
      /\ \A j \in 1..(i - 1) : before[j] = list[j]
  <2>1. \A j \in 1..(i - 1) : list[j] \in S
    BY ElementOfSeq
  <2>2. QED
    BY <2>1, SubSeqProperties
<1>2. /\ after \in Seq(S)
      /\ Len(after) = Len(list) - i
      /\ \A j \in 1..(Len(list) - i) : after[j] = list[i + j]
  <2>1. \A j \in (i + 1)..Len(list) : list[j] \in S
    BY ElementOfSeq
  <2>2. /\ after \in Seq(S)
        /\ Len(after) = IF i + 1 <= Len(list) THEN Len(list) - (i + 1) + 1 ELSE 0
        /\ \A j \in 1..(Len(list) - (i + 1) + 1) : after[j] = list[i + 1 + j - 1]
    BY <2>1, SubSeqProperties
  <2>3. QED
    BY <2>2
<1>3. RemoveAt(list, i) = before \o after
  BY DEF RemoveAt
<1> HIDE DEF before, after
<1>4. /\ before \o after \in Seq(S)
      /\ Len(before \o after) = Len(before) + Len(after)
      /\ \A j \in 1..(Len(before) + Len(after)) :
           (before \o after)[j] = IF j <= Len(before) THEN before[j] ELSE after[j - Len(before)]
  BY <1>1, <1>2, ConcatProperties
<1>5. Len(list) \in Nat /\ i \in Nat
  BY LenProperties
<1>6. ASSUME NEW j \in 1..(Len(list) - 1)
      PROVE  (before \o after)[j] = IF j < i THEN list[j] ELSE list[j + 1]
  <2>1. CASE j < i
    BY <2>1, <1>1, <1>2, <1>4, <1>5
  <2>2. CASE j >= i
    <3>1. (before \o after)[j] = after[j - (i - 1)]
      BY <2>2, <1>1, <1>2, <1>4, <1>5
    <3>2. j - (i - 1) \in 1..(Len(list) - i) /\ i + (j - (i - 1)) = j + 1
      BY <2>2, <1>5
    <3>3. QED
      BY <2>2, <3>1, <3>2, <1>2, <1>5
  <2>3. j < i \/ j >= i
    BY <1>5
  <2>4. QED
    BY <2>1, <2>2, <2>3
<1>7. QED
  BY <1>1, <1>2, <1>3, <1>4, <1>5, <1>6

-----------------------------------------------------------------------------

LEMMA TotalReplaced ==
  ASSUME RequestCacheAssumption, NEW s \in Seq(Record), NEW i \in 1..Len(s), NEW r \in Record
  PROVE  Total([s EXCEPT ![i] = r]) = Total(s) - Footprint(s[i]) + Footprint(r)
<1>1. PICK n \in Nat : n = Len(s) /\ i \in 1..n
  OBVIOUS
<1>2. PICK t : t = [s EXCEPT ![i] = r]
  OBVIOUS
<1>3. /\ t \in Seq(Record) /\ Len(t) = n /\ t[i] = r
      /\ \A j \in 1..n : j # i => t[j] = s[j]
  BY <1>1, <1>2, ExceptSeq
<1>4. PICK f : Sums(s, f) /\ Total(s) = f[n]
  BY <1>1, TotalFold
<1>5. PICK g : Sums(t, g) /\ Total(t) = g[n]
  BY <1>3, TotalFold
<1>6. f[0 + (i - 1)] - f[0] = g[0 + (i - 1)] - g[0]
  <2>1. SameStretch(s, 0, t, 0, i - 1) /\ i - 1 \in Nat
    BY <1>1, <1>3 DEF SameStretch
  <2>. QED BY <1>3, <1>4, <1>5, <2>1, SumsEqual
<1>7. f[i + (n - i)] - f[i] = g[i + (n - i)] - g[i]
  <2>1. SameStretch(s, i, t, i, n - i) /\ n - i \in Nat /\ i \in Nat
    BY <1>1, <1>3 DEF SameStretch
  <2>. QED BY <1>3, <1>4, <1>5, <2>1, SumsEqual
<1>8. f[0] = 0 /\ g[0] = 0
  BY <1>4, <1>5 DEF Sums
<1>9. f[i] = f[i - 1] + Footprint(s[i]) /\ g[i] = g[i - 1] + Footprint(r)
  BY <1>1, <1>3, <1>4, <1>5 DEF Sums
<1>10. PICK a, b, c, d, e, h, x, y : /\ a = f[i - 1] /\ b = f[i] /\ c = f[n]
                                     /\ d = g[i - 1] /\ e = g[i] /\ h = g[n]
                                     /\ x = Footprint(s[i]) /\ y = Footprint(r)
  OBVIOUS
<1>11. /\ a \in Nat /\ b \in Nat /\ c \in Nat /\ d \in Nat
       /\ e \in Nat /\ h \in Nat /\ x \in Nat /\ y \in Nat
  <2>1. {i - 1, i, n} \subseteq 0..n
    BY <1>1
  <2>2. f \in [0..n -> Nat] /\ g \in [0..n -> Nat]
    BY <1>1, <1>3, <1>4, <1>5 DEF Sums
  <2>3. a \in Nat /\ b \in Nat /\ c \in Nat /\ d \in Nat /\ e \in Nat /\ h \in Nat
    BY <1>10, <2>1, <2>2
  <2>4. x \in Nat /\ y \in Nat
    BY <1>10, FootprintType
  <2>. QED BY <2>3, <2>4
<1>12. a = d /\ c - b = h - e /\ b = a + x /\ e = d + y
  <2>1. 0 + (i - 1) = i - 1 /\ i + (n - i) = n
    BY <1>1
  <2>2. a - 0 = d - 0 /\ c - b = h - e
    BY <1>6, <1>7, <1>8, <1>10, <2>1
  <2>3. b = a + x /\ e = d + y
    BY <1>9, <1>10
  <2>4. a = d
    BY <1>11, <2>2
  <2>. QED BY <2>2, <2>3, <2>4
<1>13. h = (c - x) + y
  BY <1>11, <1>12
<1>. QED BY <1>2, <1>4, <1>5, <1>10, <1>13

LEMMA TotalRemoveAt ==
  ASSUME RequestCacheAssumption, NEW s \in Seq(Record), NEW i \in 1..Len(s)
  PROVE  Total(RemoveAt(s, i)) = Total(s) - Footprint(s[i])
<1>1. PICK n \in Nat : n = Len(s) /\ i \in 1..n
  OBVIOUS
<1>2. PICK t \in Seq(Record) : t = RemoveAt(s, i)
  BY RemoveAtProperties
<1>3. /\ Len(t) = n - 1 /\ n - 1 \in Nat
      /\ \A j \in 1..(n - 1) : t[j] = IF j < i THEN s[j] ELSE s[j + 1]
  <2>1. /\ Len(t) = Len(s) - 1
        /\ \A j \in 1..(Len(s) - 1) : t[j] = IF j < i THEN s[j] ELSE s[j + 1]
    BY <1>2, RemoveAtProperties
  <2>. QED BY <1>1, <2>1
<1>4. PICK f : Sums(s, f) /\ Total(s) = f[n]
  BY <1>1, TotalFold
<1>5. PICK g : Sums(t, g) /\ Total(t) = g[n - 1]
  BY <1>3, TotalFold
<1>6. f[0 + (i - 1)] - f[0] = g[0 + (i - 1)] - g[0]
  <2>1. SameStretch(s, 0, t, 0, i - 1) /\ i - 1 \in Nat
    BY <1>1, <1>3 DEF SameStretch
  <2>. QED BY <1>4, <1>5, <2>1, SumsEqual
<1>7. f[i + (n - i)] - f[i] = g[(i - 1) + (n - i)] - g[i - 1]
  <2>1. ASSUME NEW j \in 1..(n - i) PROVE s[i + j] = t[(i - 1) + j]
    <3>1. PICK k \in 1..(n - 1) : k = (i - 1) + j /\ ~(k < i) /\ k + 1 = i + j
      BY <1>1
    <3>. QED BY <1>3, <3>1
  <2>2. SameStretch(s, i, t, i - 1, n - i) /\ n - i \in Nat /\ i \in Nat /\ i - 1 \in Nat
    BY <1>1, <1>3, <2>1 DEF SameStretch
  <2>. QED BY <1>4, <1>5, <2>2, SumsEqual
<1>8. f[0] = 0 /\ g[0] = 0
  BY <1>4, <1>5 DEF Sums
<1>9. f[i] = f[i - 1] + Footprint(s[i])
  BY <1>1, <1>4 DEF Sums
<1>10. PICK a, b, c, d, h, x : /\ a = f[i - 1] /\ b = f[i] /\ c = f[n]
                               /\ d = g[i - 1] /\ h = g[n - 1] /\ x = Footprint(s[i])
  OBVIOUS
<1>11. /\ a \in Nat /\ b \in Nat /\ c \in Nat
       /\ d \in Nat /\ h \in Nat /\ x \in Nat
  <2>1. {i - 1, i, n} \subseteq 0..n /\ {i - 1, n - 1} \subseteq 0..(n - 1)
    BY <1>1
  <2>2. f \in [0..n -> Nat] /\ g \in [0..(n - 1) -> Nat]
    BY <1>1, <1>3, <1>4, <1>5 DEF Sums
  <2>3. a \in Nat /\ b \in Nat /\ c \in Nat /\ d \in Nat /\ h \in Nat
    BY <1>10, <2>1, <2>2
  <2>4. x \in Nat
    BY <1>10, FootprintType
  <2>. QED BY <2>3, <2>4
<1>12. a = d /\ c - b = h - d /\ b = a + x
  <2>1. 0 + (i - 1) = i - 1 /\ i + (n - i) = n /\ (i - 1) + (n - i) = n - 1
    BY <1>1
  <2>2. a - 0 = d - 0 /\ c - b = h - d
    BY <1>6, <1>7, <1>8, <1>10, <2>1
  <2>. QED BY <1>9, <1>10, <1>11, <2>2
<1>13. h = c - x
  BY <1>11, <1>12
<1>. QED BY <1>2, <1>4, <1>5, <1>10, <1>13

Elements(s) == {s[i] : i \in 1..Len(s)}
Distinct(s) == \A i, j \in 1..Len(s) : s[i].id = s[j].id => i = j

LEMMA ElementsAppend ==
  ASSUME NEW s \in Seq(Record), NEW r \in Record
  PROVE  Elements(Append(s, r)) = Elements(s) \cup {r}
<1>1. PICK n \in Nat : n = Len(s)
  OBVIOUS
<1>2. PICK t : t = Append(s, r)
  OBVIOUS
<1>3. Len(t) = n + 1 /\ t[n + 1] = r /\ \A j \in 1..n : t[j] = s[j]
  BY <1>1, <1>2, AppendProperties
<1>4. 1..(n + 1) = (1..n) \cup {n + 1}
  OBVIOUS
<1>5. Elements(t) = {t[i] : i \in 1..n} \cup {r}
  BY <1>3, <1>4 DEF Elements
<1>6. {t[i] : i \in 1..n} = {s[i] : i \in 1..n}
  BY <1>3
<1>. QED BY <1>1, <1>2, <1>5, <1>6 DEF Elements

LEMMA DistinctAppend ==
  ASSUME NEW s \in Seq(Record), NEW r \in Record, Distinct(s), \A x \in Elements(s) : x.id # r.id
  PROVE  Distinct(Append(s, r))
<1>1. PICK n \in Nat : n = Len(s)
  OBVIOUS
<1>2. PICK t : t = Append(s, r)
  OBVIOUS
<1>3. Len(t) = n + 1 /\ t[n + 1] = r /\ \A j \in 1..n : t[j] = s[j]
  BY <1>1, <1>2, AppendProperties
<1>4. \A j \in 1..n : t[j].id # r.id
  BY <1>1, <1>3 DEF Elements
<1>5. ASSUME NEW i \in 1..(n + 1), NEW j \in 1..(n + 1), t[i].id = t[j].id PROVE i = j
  <2>1. CASE i = n + 1 /\ j = n + 1
    BY <2>1
  <2>2. CASE i = n + 1 /\ j # n + 1
    <3>1. j \in 1..n
      BY <2>2
    <3>. QED BY <1>3, <1>4, <1>5, <2>2, <3>1
  <2>3. CASE i # n + 1 /\ j = n + 1
    <3>1. i \in 1..n
      BY <2>3
    <3>. QED BY <1>3, <1>4, <1>5, <2>3, <3>1
  <2>4. CASE i # n + 1 /\ j # n + 1
    <3>1. i \in 1..n /\ j \in 1..n
      BY <2>4
    <3>. QED BY <1>1, <1>3, <1>5, <3>1 DEF Distinct
  <2>. QED BY <2>1, <2>2, <2>3, <2>4
<1>. QED BY <1>2, <1>3, <1>5 DEF Distinct

LEMMA EmptyCache == Elements(<<>>) = {} /\ Distinct(<<>>)
<1>1. Len(<<>>) = 0 /\ 1..0 = {}
  OBVIOUS
<1>. QED BY <1>1 DEF Elements, Distinct

LEMMA SumsGrow ==
  ASSUME RequestCacheAssumption, NEW s \in Seq(Record), NEW f, Sums(s, f),
         NEW i \in 0..Len(s)
  PROVE  f[i] <= f[Len(s)]
<1>1. PICK n \in Nat : n = Len(s) /\ f \in [0..n -> Nat]
  BY DEF Sums
<1>2. PICK T : T = {m \in Nat : m <= n => f[n - m] <= f[n]}
  OBVIOUS
<1>3. 0 \in T
  BY <1>1, <1>2
<1>4. ASSUME NEW m \in Nat, m \in T PROVE m + 1 \in T
  <2>1. CASE m + 1 <= n
    <3>1. PICK j \in 1..n : j = n - m /\ j - 1 = n - (m + 1)
      BY <2>1
    <3>2. f[j] = f[j - 1] + Footprint(s[j])
      BY <1>1 DEF Sums
    <3>3. PICK x \in Nat : x = Footprint(s[j])
      BY <1>1, FootprintType
    <3>4. PICK u \in Nat, v \in Nat, w \in Nat : u = f[j] /\ v = f[j - 1] /\ w = f[n]
      BY <1>1
    <3>5. u <= w /\ u = v + x
      BY <1>2, <1>4, <2>1, <3>1, <3>2, <3>3, <3>4
    <3>6. v <= w
      BY <3>5
    <3>. QED BY <1>2, <3>1, <3>4, <3>6
  <2>2. CASE ~(m + 1 <= n)
    BY <1>2, <2>2
  <2>. QED BY <2>1, <2>2
<1>5. PICK m \in Nat : m = n - i /\ n - m = i
  <2>1. n - i \in Nat /\ n - (n - i) = i
    BY <1>1
  <2>. QED BY <2>1
<1>6. m \in T /\ m <= n
  BY <1>1, <1>3, <1>4, <1>5, Induction
<1>. QED BY <1>1, <1>2, <1>5, <1>6

(* The bytes of the records that are still to come.                          *)
Remaining(s, rest) ==
  /\ rest \in [0..Len(s) -> Nat]
  /\ rest[0] = Total(s) /\ rest[Len(s)] = 0
  /\ \A i \in 1..Len(s) : rest[i - 1] = rest[i] + Footprint(s[i])

LEMMA RemainingExists ==
  ASSUME RequestCacheAssumption, NEW s \in Seq(Record)
  PROVE  \E rest : Remaining(s, rest)
<1>1. PICK f : Sums(s, f) /\ Total(s) = f[Len(s)]
  BY TotalFold
<1>2. PICK n \in Nat : n = Len(s) /\ f \in [0..n -> Nat]
  <2>1. f \in [0..Len(s) -> Nat]
    BY <1>1 DEF Sums
  <2>. QED BY <2>1
<1>3. PICK rest : rest = [i \in 0..n |-> f[n] - f[i]]
  OBVIOUS
<1>4. rest \in [0..n -> Nat]
  <2>1. \A i \in 0..n : f[i] <= f[n] /\ f[i] \in Nat /\ f[n] \in Nat
    BY <1>1, <1>2, SumsGrow
  <2>2. \A i \in 0..n : f[n] - f[i] \in Nat
    BY <2>1
  <2>. QED BY <1>3, <2>2
<1>5. rest[0] = Total(s) /\ rest[n] = 0
  BY <1>1, <1>2, <1>3 DEF Sums
<1>6. ASSUME NEW i \in 1..n PROVE rest[i - 1] = rest[i] + Footprint(s[i])
  <2>1. PICK u \in Nat, v \in Nat, w \in Nat : u = f[n] /\ v = f[i - 1] /\ w = f[i]
    BY <1>2
  <2>2. PICK x \in Nat : x = Footprint(s[i])
    BY <1>2, FootprintType
  <2>3. w = v + x
    BY <1>1, <1>2, <2>1, <2>2 DEF Sums
  <2>4. rest[i - 1] = u - v /\ rest[i] = u - w
    BY <1>3, <2>1
  <2>5. u - v = (u - w) + x
    BY <2>3
  <2>. QED BY <2>2, <2>4, <2>5
<1>. QED BY <1>2, <1>4, <1>5, <1>6 DEF Remaining

(* What remains of the first records of a cache from which ids are removed,  *)
(* and the bytes it counts then.                                             *)
Kept(s, ids, k) == {s[j] : j \in {x \in 1..k : s[x].id \notin ids}}

LEMMA KeptNext ==
  ASSUME NEW s, NEW ids, NEW k \in Nat
  PROVE  /\ s[k + 1].id \in ids => Kept(s, ids, k + 1) = Kept(s, ids, k)
         /\ s[k + 1].id \notin ids => Kept(s, ids, k + 1) = Kept(s, ids, k) \cup {s[k + 1]}
<1>1. 1..(k + 1) = (1..k) \cup {k + 1}
  OBVIOUS
<1>2. CASE s[k + 1].id \in ids
  <2>1. {x \in 1..(k + 1) : s[x].id \notin ids} = {x \in 1..k : s[x].id \notin ids}
    BY <1>1, <1>2
  <2>. QED BY <1>2, <2>1 DEF Kept
<1>3. CASE s[k + 1].id \notin ids
  <2>1. {x \in 1..(k + 1) : s[x].id \notin ids} = {x \in 1..k : s[x].id \notin ids} \cup {k + 1}
    BY <1>1, <1>3
  <2>. QED BY <1>3, <2>1 DEF Kept
<1>. QED BY <1>2, <1>3

Partly(s, ids, e, rest, k) ==
  /\ Distinct(e.requests) /\ Len(e.requests) <= k
  /\ Elements(e.requests) = Kept(s, ids, k)
  /\ e.bytes = Total(e.requests) + rest[k]

LEMMA PartlyNext ==
  ASSUME RequestCacheAssumption, NEW s \in Seq(Record), NEW ids, NEW e \in Caches,
         NEW rest, Remaining(s, rest), NEW k \in Nat, k + 1 <= Len(s),
         Distinct(s), Partly(s, ids, e, rest, k)
  PROVE  Partly(s, ids, Passed(e, s[k + 1], ids), rest, k + 1)
<1>1. PICK i \in 1..Len(s) : i = k + 1 /\ i - 1 = k
  OBVIOUS
<1>2. PICK r \in Record : r = s[i]
  OBVIOUS
<1>3. PICK f \in Nat : f = Footprint(r)
  BY FootprintType
<1>4. PICK p \in Seq(Record), b \in Nat : p = e.requests /\ b = e.bytes
  BY DEF Caches
<1>5. PICK t \in Nat : t = Total(p)
  BY TotalFold, TotalIsSum
<1>6. PICK u \in Nat, v \in Nat : u = rest[i - 1] /\ v = rest[i]
  <2>1. {i - 1, i} \subseteq 0..Len(s)
    OBVIOUS
  <2>2. rest[i - 1] \in Nat /\ rest[i] \in Nat
    BY <2>1 DEF Remaining
  <2>. QED BY <2>2
<1>7. u = v + f
  BY <1>2, <1>3, <1>6 DEF Remaining
<1>8. Distinct(p) /\ Len(p) <= k /\ Elements(p) = Kept(s, ids, k) /\ b = t + u
  BY <1>1, <1>4, <1>5, <1>6 DEF Partly
<1>9. CASE r.id \in ids
  <2>1. Passed(e, r, ids) = Cache(p, Larger(0, b - f))
    BY <1>3, <1>4, <1>9 DEF Passed
  <2>2. Larger(0, b - f) = t + v
    BY <1>7, <1>8 DEF Larger
  <2>3. Kept(s, ids, k + 1) = Kept(s, ids, k) /\ Len(p) <= k + 1
    BY <1>1, <1>2, <1>8, <1>9, KeptNext
  <2>4. PICK g : g = Passed(e, r, ids) /\ g.requests = p /\ g.bytes = t + v
    BY <2>1, <2>2, CacheFields
  <2>5. Partly(s, ids, g, rest, k + 1)
    BY <1>1, <1>5, <1>6, <1>8, <2>3, <2>4 DEF Partly
  <2>. QED BY <1>1, <1>2, <2>4, <2>5
<1>10. CASE r.id \notin ids
  <2>1. Passed(e, r, ids) = Cache(Append(p, r), b)
    BY <1>4, <1>10 DEF Passed
  <2>2. Total(Append(p, r)) = t + f
    BY <1>3, <1>5, TotalAppend
  <2>3. b = (t + f) + v
    BY <1>7, <1>8
  <2>4. Elements(Append(p, r)) = Kept(s, ids, k + 1)
    <3>1. Kept(s, ids, k + 1) = Kept(s, ids, k) \cup {r}
      BY <1>1, <1>2, <1>10, KeptNext
    <3>. QED BY <1>8, <3>1, ElementsAppend
  <2>5. \A x \in Elements(p) : x.id # r.id
    <3>1. \A x \in 1..k : s[x].id # s[i].id
      BY <1>1 DEF Distinct
    <3>. QED BY <1>2, <1>8, <3>1 DEF Kept
  <2>6. Distinct(Append(p, r)) /\ Len(Append(p, r)) <= k + 1
    BY <1>8, <2>5, DistinctAppend, AppendProperties
  <2>7. PICK g : g = Passed(e, r, ids) /\ g.requests = Append(p, r) /\ g.bytes = b
    BY <2>1 DEF Cache
  <2>8. Partly(s, ids, g, rest, k + 1)
    BY <1>1, <1>6, <2>2, <2>3, <2>4, <2>6, <2>7 DEF Partly
  <2>. QED BY <1>1, <1>2, <2>7, <2>8
<1>. QED BY <1>9, <1>10

LEMMA Removed ==
  ASSUME RequestCacheAssumption, NEW c \in Caches, NEW ids,
         Distinct(c.requests), c.bytes = Total(c.requests)
  PROVE  /\ removeRequests(c, ids) \in Caches
         /\ Distinct(removeRequests(c, ids).requests)
         /\ removeRequests(c, ids).bytes = Total(removeRequests(c, ids).requests)
         /\ Len(removeRequests(c, ids).requests) <= Len(c.requests)
         /\ Elements(removeRequests(c, ids).requests)
              = {r \in Elements(c.requests) : r.id \notin ids}
<1>1. PICK s \in Seq(Record) : s = c.requests
  BY DEF Caches
<1>2. PICK n \in Nat : n = Len(s)
  OBVIOUS
<1>3. PICK d : Removal(c, ids, d) /\ removeRequests(c, ids) = d[n]
  BY <1>1, <1>2, RemovalFold
<1>4. PICK rest : Remaining(s, rest)
  BY RemainingExists
<1>5. d \in [0..n -> Caches] /\ d[0] = Cache(<<>>, c.bytes)
  BY <1>1, <1>2, <1>3 DEF Removal
<1>6. PICK T : T = {i \in Nat : i <= n => Partly(s, ids, d[i], rest, i)}
  OBVIOUS
<1>7. 0 \in T
  <2>1. d[0].requests = <<>> /\ d[0].bytes = c.bytes
    BY <1>5, CacheFields
  <2>2. Len(<<>>) <= 0 /\ Total(<<>>) = 0 /\ Distinct(<<>>) /\ Elements(<<>>) = {}
    BY EmptyCache, TotalEmpty
  <2>3. Kept(s, ids, 0) = {}
    BY DEF Kept
  <2>4. PICK x \in Nat : x = c.bytes
    BY DEF Caches
  <2>5. x = 0 + rest[0]
    BY <1>1, <1>2, <1>4, <2>4 DEF Remaining
  <2>6. Partly(s, ids, d[0], rest, 0)
    BY <2>1, <2>2, <2>3, <2>4, <2>5 DEF Partly
  <2>. QED BY <1>6, <2>6
<1>8. ASSUME NEW k \in Nat, k \in T PROVE k + 1 \in T
  <2>1. CASE k + 1 <= n
    <3>1. d[k] \in Caches /\ Partly(s, ids, d[k], rest, k)
      BY <1>5, <1>6, <1>8, <2>1
    <3>2. Partly(s, ids, Passed(d[k], s[k + 1], ids), rest, k + 1)
      BY <1>1, <1>2, <1>4, <2>1, <3>1, PartlyNext
    <3>3. k + 1 \in 1..n /\ (k + 1) - 1 = k
      BY <2>1
    <3>4. d[k + 1] = Passed(d[k], s[k + 1], ids)
      BY <1>1, <1>2, <1>3, <3>3 DEF Removal
    <3>. QED BY <1>6, <3>2, <3>4
  <2>2. CASE ~(k + 1 <= n)
    BY <1>6, <2>2
  <2>. QED BY <2>1, <2>2
<1>9. Partly(s, ids, d[n], rest, n)
  <2>1. n \in T
    BY <1>7, <1>8, Induction
  <2>. QED BY <1>6, <2>1
<1>10. d[n].bytes = Total(d[n].requests) /\ d[n] \in Caches
  <2>1. d[n] \in Caches /\ d[n].requests \in Seq(Record) /\ d[n].bytes \in Nat
    BY <1>5 DEF Caches
  <2>2. PICK t \in Nat : t = Total(d[n].requests)
    BY <2>1, TotalFold, TotalIsSum
  <2>3. rest[n] = 0
    BY <1>2, <1>4 DEF Remaining
  <2>4. d[n].bytes = t + 0
    BY <1>9, <2>2, <2>3 DEF Partly
  <2>. QED BY <2>1, <2>2, <2>4
<1>11. Kept(s, ids, n) = {r \in Elements(s) : r.id \notin ids}
  BY <1>2 DEF Elements, Kept
<1>. QED BY <1>1, <1>2, <1>3, <1>9, <1>10, <1>11 DEF Partly

(* What remains takes no more than records that take as much as it in its    *)
(* places.                                                                   *)
LEMMA RemovedBelow ==
  ASSUME RequestCacheAssumption, NEW c \in Caches, NEW ids,
         NEW q \in Seq(Record), Len(q) = Len(c.requests),
         \A j \in 1..Len(q) : c.requests[j].id \notin ids
                                => Footprint(c.requests[j]) <= Footprint(q[j])
  PROVE  Total(removeRequests(c, ids).requests) <= Total(q)
<1>1. PICK s \in Seq(Record) : s = c.requests
  BY DEF Caches
<1>2. PICK n \in Nat : n = Len(s)
  OBVIOUS
<1>3. PICK d : Removal(c, ids, d) /\ removeRequests(c, ids) = d[n]
  BY <1>1, <1>2, RemovalFold
<1>4. PICK g : Sums(q, g) /\ Total(q) = g[n]
  BY <1>1, <1>2, TotalFold
<1>5. d \in [0..n -> Caches] /\ d[0] = Cache(<<>>, c.bytes)
  BY <1>1, <1>2, <1>3 DEF Removal
<1>6. g \in [0..n -> Nat] /\ g[0] = 0
  BY <1>1, <1>2, <1>4 DEF Sums
<1>7. PICK T : T = {i \in Nat : i <= n => Total(d[i].requests) <= g[i]}
  OBVIOUS
<1>8. 0 \in T
  <2>1. d[0].requests = <<>>
    BY <1>5, CacheFields
  <2>. QED BY <1>6, <1>7, <2>1, TotalEmpty
<1>9. ASSUME NEW k \in Nat, k \in T PROVE k + 1 \in T
  <2>1. CASE k + 1 <= n
    <3>1. PICK i \in 1..n : i = k + 1 /\ i - 1 = k
      BY <2>1
    <3>2. PICK r \in Record, x \in Record : r = s[i] /\ x = q[i]
      BY <1>1, <1>2
    <3>3. PICK p \in Seq(Record) : p = d[k].requests
      <4>1. d[k] \in Caches
        BY <1>5, <3>1
      <4>. QED BY <4>1 DEF Caches
    <3>4. d[i] = Passed(d[k], r, ids)
      BY <1>1, <1>2, <1>3, <3>1, <3>2 DEF Removal
    <3>5. g[i] = g[k] + Footprint(x)
      BY <1>1, <1>2, <1>4, <3>1, <3>2 DEF Sums
    <3>6. PICK t \in Nat, u \in Nat, v \in Nat, w \in Nat :
            t = Total(p) /\ u = g[k] /\ v = Footprint(r) /\ w = Footprint(x)
      <4>1. Total(p) \in Nat
        BY TotalFold, TotalIsSum
      <4>2. g[k] \in Nat
        BY <1>6, <3>1
      <4>3. Footprint(r) \in Nat /\ Footprint(x) \in Nat
        BY FootprintType
      <4>. QED BY <4>1, <4>2, <4>3
    <3>7. t <= u
      BY <1>7, <1>9, <2>1, <3>3, <3>6
    <3>8. CASE r.id \in ids
      <4>1. d[i].requests = p
        BY <3>3, <3>4, <3>8 DEF Passed, Cache
      <4>2. t <= u + w
        BY <3>7
      <4>. QED BY <1>7, <3>1, <3>5, <3>6, <4>1, <4>2
    <3>9. CASE r.id \notin ids
      <4>1. d[i].requests = Append(p, r)
        BY <3>3, <3>4, <3>9 DEF Passed, Cache
      <4>2. Total(Append(p, r)) = t + v
        BY <3>6, TotalAppend
      <4>3. v <= w
        BY <1>1, <1>2, <3>2, <3>6, <3>9
      <4>4. t + v <= u + w
        BY <3>7, <4>3
      <4>5. Total(d[i].requests) = t + v /\ g[i] = u + w
        BY <3>5, <3>6, <4>1, <4>2
      <4>6. Total(d[i].requests) <= g[i]
        BY <4>4, <4>5
      <4>. QED BY <1>7, <3>1, <4>6
    <3>. QED BY <3>8, <3>9
  <2>2. CASE ~(k + 1 <= n)
    BY <1>7, <2>2
  <2>. QED BY <2>1, <2>2
<1>10. n \in T
  BY <1>8, <1>9, Induction
<1>. QED BY <1>3, <1>4, <1>7, <1>10

-----------------------------------------------------------------------------
(* What keeps a cache accounted for: one record of an operation, the bytes   *)
(* those of the records, and no answer yet where none has come.              *)
Pending(s) == {r \in Elements(s) : ~Settled(r)}

Sound(c) ==
  /\ c \in Caches
  /\ Distinct(c.requests)
  /\ c.bytes = Total(c.requests)
  /\ \A r \in Pending(c.requests) : r.actual = 0

LEMMA RemovedSettled ==
  ASSUME RequestCacheAssumption, NEW c, Sound(c), NEW n \in 0..Len(c.requests)
  PROVE  LET e == removeRequests(c, SettledAmong(c.requests, n))
         IN /\ Sound(e)
            /\ Elements(e.requests) \subseteq Elements(c.requests)
            /\ Pending(e.requests) = Pending(c.requests)
            /\ Len(e.requests) <= Len(c.requests)
            /\ e.bytes <= c.bytes
<1>1. PICK ids : ids = SettledAmong(c.requests, n)
  OBVIOUS
<1>2. PICK e : e = removeRequests(c, ids)
  OBVIOUS
<1>3. c \in Caches /\ Distinct(c.requests) /\ c.bytes = Total(c.requests)
  BY DEF Sound
<1>4. PICK s \in Seq(Record) : s = c.requests
  BY <1>3 DEF Caches
<1>5. /\ e \in Caches /\ Distinct(e.requests) /\ e.bytes = Total(e.requests)
      /\ Len(e.requests) <= Len(s)
      /\ Elements(e.requests) = {r \in Elements(s) : r.id \notin ids}
  BY <1>2, <1>3, <1>4, Removed
<1>6. ASSUME NEW r \in Pending(s) PROVE r.id \notin ids
  <2>1. PICK i \in 1..Len(s) : r = s[i] /\ ~Settled(r)
    BY DEF Pending, Elements
  <2>2. ASSUME r.id \in ids PROVE FALSE
    <3>1. PICK j \in 1..n : s[j].id = r.id /\ Settled(s[j])
      BY <1>1, <1>4, <2>2 DEF SettledAmong
    <3>2. j \in 1..Len(s)
      BY <1>4
    <3>3. i = j
      BY <1>3, <1>4, <2>1, <3>1, <3>2 DEF Distinct
    <3>. QED BY <2>1, <3>1, <3>3
  <2>. QED BY <2>2
<1>7. Pending(e.requests) = Pending(s)
  BY <1>5, <1>6 DEF Pending
<1>8. e.bytes <= c.bytes
  <2>1. \A j \in 1..Len(s) : Footprint(s[j]) <= Footprint(s[j])
    <3>1. \A j \in 1..Len(s) : Footprint(s[j]) \in Nat
      BY FootprintType
    <3>. QED BY <3>1
  <2>2. Total(e.requests) <= Total(s)
    BY <1>2, <1>3, <1>4, <2>1, RemovedBelow
  <2>. QED BY <1>3, <1>4, <1>5, <2>2
<1>9. \A r \in Pending(e.requests) : r.actual = 0
  BY <1>4, <1>7 DEF Sound
<1>10. Sound(e)
  BY <1>5, <1>9 DEF Sound
<1>. QED BY <1>1, <1>2, <1>4, <1>5, <1>7, <1>8, <1>10

LEMMA Minimum == ASSUME NEW T \in SUBSET Nat, T # {} PROVE Min(T) \in T
BY Least DEF Min

(* Evicting leaves what is under way; there is room then, or nothing but     *)
(* what is under way.                                                        *)
LEMMA Evicted ==
  ASSUME RequestCacheAssumption, NEW c, Sound(c), NEW required \in Nat
  PROVE  LET e == evictSettled(c, required)
         IN /\ Sound(e)
            /\ Elements(e.requests) \subseteq Elements(c.requests)
            /\ Pending(e.requests) = Pending(c.requests)
            /\ Len(e.requests) <= Len(c.requests)
            /\ e.bytes <= c.bytes
            /\ \A q \in Seq(Record) :
                 (/\ Len(q) = Len(c.requests)
                  /\ \A j \in 1..Len(q) : ~Settled(c.requests[j])
                                            => Footprint(c.requests[j]) <= Footprint(q[j]))
                 => (e.bytes + required <= MaxBytes \/ e.bytes <= Total(q))
<1>1. PICK s \in Seq(Record) : s = c.requests /\ c \in Caches
  BY DEF Sound, Caches
<1>2. PICK n \in Nat : n = Len(s)
  OBVIOUS
<1>3. PICK W : W = [k \in 0..n |-> removeRequests(c, SettledAmong(s, k))]
  OBVIOUS
<1>4. PICK enough : enough = {k \in 0..n : Len(W[k].requests) < MaxRequests
                                          /\ W[k].bytes + required <= MaxBytes}
  OBVIOUS
<1>5. PICK k : k = IF enough = {} THEN n ELSE Min(enough)
  OBVIOUS
<1>6. k \in 0..n /\ (enough # {} => k \in enough)
  <2>1. enough # {} => Min(enough) \in enough
    <3>1. enough \subseteq Nat
      BY <1>4
    <3>. QED BY <3>1, Minimum
  <2>. QED BY <1>4, <1>5, <2>1
<1>7. evictSettled(c, required) = W[k]
  <2>1. enough = {m \in 0..n : Len(removeRequests(c, SettledAmong(s, m)).requests) < MaxRequests
                     /\ removeRequests(c, SettledAmong(s, m)).bytes + required <= MaxBytes}
    BY <1>3, <1>4
  <2>2. evictSettled(c, required)
          = removeRequests(c, SettledAmong(s, IF enough = {} THEN n ELSE Min(enough)))
    BY <1>1, <1>2, <2>1 DEF evictSettled
  <2>. QED BY <1>3, <1>5, <1>6, <2>2
<1>8. W[k] = removeRequests(c, SettledAmong(s, k))
  BY <1>3, <1>6
<1>9. /\ Sound(W[k])
      /\ Elements(W[k].requests) \subseteq Elements(s)
      /\ Pending(W[k].requests) = Pending(s)
      /\ Len(W[k].requests) <= Len(s)
      /\ W[k].bytes <= c.bytes
  BY <1>1, <1>2, <1>6, <1>8, RemovedSettled
<1>10. ASSUME NEW q \in Seq(Record), Len(q) = n,
              \A j \in 1..n : ~Settled(s[j]) => Footprint(s[j]) <= Footprint(q[j])
       PROVE  W[k].bytes + required <= MaxBytes \/ W[k].bytes <= Total(q)
  <2>1. CASE enough # {}
    BY <1>4, <1>6, <2>1
  <2>2. CASE enough = {}
    <3>1. k = n
      BY <1>5, <2>2
    <3>2. PICK ids : ids = SettledAmong(s, n)
      OBVIOUS
    <3>3. \A j \in 1..n : s[j].id \notin ids => ~Settled(s[j])
      BY <3>2 DEF SettledAmong
    <3>4. \A j \in 1..Len(q) : c.requests[j].id \notin ids
                                 => Footprint(c.requests[j]) <= Footprint(q[j])
      BY <1>1, <1>10, <3>3
    <3>5. Total(removeRequests(c, ids).requests) <= Total(q)
      BY <1>1, <1>2, <1>10, <3>4, RemovedBelow
    <3>6. W[k].bytes = Total(W[k].requests)
      BY <1>9 DEF Sound
    <3>. QED BY <1>8, <3>1, <3>2, <3>5, <3>6
  <2>. QED BY <2>1, <2>2
<1>. QED BY <1>1, <1>2, <1>7, <1>9, <1>10

(* The invariant of a cache: it is accounted for, within the budget, and     *)
(* what is under way is what has a record without an outcome.                *)
PendingIds(s) == {r.id : r \in Pending(s)}
Good(c, ids) ==
  /\ Sound(c)
  /\ c.bytes <= MaxBytes
  /\ Len(c.requests) <= MaxRequests
  /\ ids = PendingIds(c.requests)

LEMMA SoundTypes ==
  ASSUME NEW c, Sound(c)
  PROVE  /\ c.requests \in Seq(Record) /\ c.bytes \in Nat
         /\ Distinct(c.requests) /\ c.bytes = Total(c.requests)
BY DEF Sound, Caches

LEMMA EvictedGood ==
  ASSUME RequestCacheAssumption, NEW c, NEW ids, Good(c, ids), NEW required \in Nat
  PROVE  /\ Good(evictSettled(c, required), ids)
         /\ Elements(evictSettled(c, required).requests) \subseteq Elements(c.requests)
<1>1. PICK e : e = evictSettled(c, required)
  OBVIOUS
<1>2. /\ Sound(e) /\ Elements(e.requests) \subseteq Elements(c.requests)
      /\ Pending(e.requests) = Pending(c.requests)
      /\ Len(e.requests) <= Len(c.requests) /\ e.bytes <= c.bytes
  <2>1. Sound(c)
    BY DEF Good
  <2>. QED BY <1>1, <2>1, Evicted
<1>3. MaxBytes \in Nat /\ MaxRequests \in Nat
  BY DEF RequestCacheAssumption
<1>4. e.bytes <= MaxBytes
  <2>1. e.bytes \in Nat /\ c.bytes \in Nat /\ c.bytes <= MaxBytes
    BY <1>2, SoundTypes DEF Good
  <2>. QED BY <1>2, <1>3, <2>1
<1>5. Len(e.requests) <= MaxRequests
  <2>1. e.requests \in Seq(Record) /\ c.requests \in Seq(Record) /\ Len(c.requests) <= MaxRequests
    BY <1>2, SoundTypes DEF Good
  <2>2. Len(e.requests) \in Nat /\ Len(c.requests) \in Nat
    BY <2>1
  <2>. QED BY <1>2, <1>3, <2>1, <2>2
<1>. QED BY <1>1, <1>2, <1>4, <1>5 DEF Good, PendingIds

LEMMA PrunedGood ==
  ASSUME RequestCacheAssumption, NEW ids, Good(Cache(requests, bytes), ids),
         NEW age \in 0..Len(requests)
  PROVE  Good(pruneRequests(age), ids)
<1>1. PICK c : c = Cache(requests, bytes) /\ c.requests = requests
  BY CacheFields
<1>2. PICK e : e = pruneRequests(age)
  OBVIOUS
<1>3. /\ Sound(e) /\ Pending(e.requests) = Pending(c.requests)
      /\ Len(e.requests) <= Len(c.requests) /\ e.bytes <= c.bytes
  <2>1. Sound(c) /\ e = removeRequests(c, SettledAmong(c.requests, age))
    BY <1>1, <1>2 DEF Good, pruneRequests
  <2>. QED BY <1>1, <2>1, RemovedSettled
<1>4. MaxBytes \in Nat /\ MaxRequests \in Nat
  BY DEF RequestCacheAssumption
<1>5. e.bytes <= MaxBytes
  <2>1. e.bytes \in Nat /\ c.bytes \in Nat /\ c.bytes <= MaxBytes
    BY <1>1, <1>3, SoundTypes DEF Good
  <2>. QED BY <1>3, <1>4, <2>1
<1>6. Len(e.requests) <= MaxRequests
  <2>1. e.requests \in Seq(Record) /\ c.requests \in Seq(Record) /\ Len(c.requests) <= MaxRequests
    BY <1>1, <1>3, SoundTypes DEF Good
  <2>2. Len(e.requests) \in Nat /\ Len(c.requests) \in Nat
    BY <2>1
  <2>. QED BY <1>3, <1>4, <2>1, <2>2
<1>. QED BY <1>1, <1>2, <1>3, <1>5, <1>6 DEF Good, PendingIds

(* A record is added where there is room for it.                             *)
LEMMA AddedGood ==
  ASSUME RequestCacheAssumption, NEW c, NEW ids, Good(c, ids), NEW r \in Record,
         Admits(c, Footprint(r)), \A x \in Elements(c.requests) : x.id # r.id,
         ~Settled(r) => r.actual = 0
  PROVE  Good(Cache(Append(c.requests, r), c.bytes + Footprint(r)),
              IF Settled(r) THEN ids ELSE ids \cup {r.id})
<1>1. /\ Sound(c) /\ c.requests \in Seq(Record) /\ c.bytes \in Nat
      /\ Distinct(c.requests) /\ c.bytes = Total(c.requests)
  BY SoundTypes DEF Good
<1>2. PICK s \in Seq(Record) : s = c.requests
  BY <1>1
<1>3. PICK f \in Nat : f = Footprint(r)
  BY FootprintType
<1>4. PICK t \in Seq(Record) : t = Append(s, r)
  BY AppendProperties
<1>5. PICK m : m = Cache(t, c.bytes + f) /\ m.requests = t /\ m.bytes = c.bytes + f /\ m \in Caches
  <2>1. c.bytes + f \in Nat
    BY <1>1, <1>3
  <2>. QED BY <2>1, CacheFields, CacheType
<1>6. Total(t) = c.bytes + f
  BY <1>1, <1>2, <1>3, <1>4, TotalAppend
<1>7. Distinct(t) /\ Elements(t) = Elements(s) \cup {r} /\ Len(t) = Len(s) + 1
  BY <1>1, <1>2, <1>4, DistinctAppend, ElementsAppend, AppendProperties
<1>8. Pending(t) = IF Settled(r) THEN Pending(s) ELSE Pending(s) \cup {r}
  BY <1>7 DEF Pending
<1>9. \A x \in Pending(t) : x.actual = 0
  BY <1>1, <1>2, <1>8 DEF Sound
<1>10. Sound(m)
  BY <1>5, <1>6, <1>7, <1>9 DEF Sound
<1>11. m.bytes <= MaxBytes /\ Len(t) <= MaxRequests
  <2>1. c.bytes + f <= MaxBytes /\ Len(s) < MaxRequests
    BY <1>2, <1>3 DEF Admits
  <2>2. MaxRequests \in Nat /\ Len(s) \in Nat
    BY DEF RequestCacheAssumption
  <2>. QED BY <1>5, <1>7, <2>1, <2>2
<1>12. ids = PendingIds(s)
  BY <1>2 DEF Good
<1>13. PendingIds(t) = IF Settled(r) THEN ids ELSE ids \cup {r.id}
  BY <1>8, <1>12 DEF PendingIds
<1>. QED BY <1>2, <1>3, <1>4, <1>5, <1>10, <1>11, <1>13 DEF Good

(* Evicting for what has grown in one place, when nothing has elsewhere.     *)
LEMMA GrownGood ==
  ASSUME RequestCacheAssumption, NEW m, Sound(m), NEW ids, ids = PendingIds(m.requests),
         Len(m.requests) <= MaxRequests,
         NEW q \in Seq(Record), Len(q) = Len(m.requests), Total(q) <= MaxBytes,
         \A j \in 1..Len(q) : ~Settled(m.requests[j])
                                => Footprint(m.requests[j]) <= Footprint(q[j])
  PROVE  Good(evictSettled(m, 0), ids)
<1>1. PICK e : e = evictSettled(m, 0)
  OBVIOUS
<1>2. PICK zero \in Nat : zero = 0
  OBVIOUS
<1>3. /\ Sound(e) /\ Pending(e.requests) = Pending(m.requests)
      /\ Len(e.requests) <= Len(m.requests)
      /\ e.bytes + zero <= MaxBytes \/ e.bytes <= Total(q)
  BY <1>1, <1>2, Evicted
<1>4. MaxBytes \in Nat /\ MaxRequests \in Nat
  BY DEF RequestCacheAssumption
<1>5. e.bytes <= MaxBytes
  <2>1. e.bytes \in Nat /\ Total(q) \in Nat
    BY <1>3, SoundTypes, TotalFold, TotalIsSum
  <2>. QED BY <1>2, <1>3, <1>4, <2>1
<1>6. Len(e.requests) <= MaxRequests
  <2>1. e.requests \in Seq(Record) /\ m.requests \in Seq(Record)
    BY <1>3, SoundTypes
  <2>2. Len(e.requests) \in Nat /\ Len(m.requests) \in Nat
    BY <2>1
  <2>. QED BY <1>3, <1>4, <2>2
<1>. QED BY <1>1, <1>3, <1>5, <1>6 DEF Good, PendingIds

(* What was under way settles, with an answer of any size.                   *)
LEMMA SettledGood ==
  ASSUME RequestCacheAssumption, NEW c, NEW ids, Good(c, ids), NEW i \in 1..Len(c.requests),
         ~Settled(c.requests[i]), NEW r \in Record, Settled(r),
         r.id = c.requests[i].id, r.reserved = c.requests[i].reserved
  PROVE  Good(evictSettled(Cache([c.requests EXCEPT ![i] = r], c.bytes + Difference(r)), 0),
              ids \ {r.id})
<1>1. /\ Sound(c) /\ c.requests \in Seq(Record) /\ c.bytes \in Nat
      /\ Distinct(c.requests) /\ c.bytes = Total(c.requests)
  BY SoundTypes DEF Good
<1>2. PICK s \in Seq(Record) : s = c.requests /\ i \in 1..Len(s)
  BY <1>1
<1>3. PICK n \in Nat : n = Len(s) /\ i \in 1..n
  BY <1>2
<1>4. PICK t \in Seq(Record) : /\ t = [s EXCEPT ![i] = r] /\ Len(t) = n /\ t[i] = r
                               /\ \A j \in 1..n : j # i => t[j] = s[j]
  <2>1. PICK t : t = [s EXCEPT ![i] = r]
    OBVIOUS
  <2>2. /\ t \in Seq(Record) /\ Len(t) = n /\ t[i] = r
        /\ \A j \in 1..n : j # i => t[j] = s[j]
    BY <1>3, <2>1, ExceptSeq
  <2>. QED BY <2>1, <2>2
<1>5. s[i] \in Record /\ s[i] \in Elements(s)
  BY <1>3 DEF Elements
<1>6. PICK f \in Nat, g \in Nat : f = Footprint(r) /\ g = Footprint(s[i])
  BY <1>5, FootprintType
<1>7. s[i] \in Pending(s)
  BY <1>2, <1>5 DEF Pending
<1>8. r.reserved = g
  <2>1. s[i].actual = 0
    BY <1>1, <1>2, <1>7 DEF Sound
  <2>2. s[i].reserved \in Size
    BY <1>5 DEF Record
  <2>3. s[i].reserved \in Nat
    BY <2>2 DEF RequestCacheAssumption
  <2>. QED BY <1>2, <1>6, <2>1, <2>3 DEF Footprint, Larger
<1>9. PICK u \in Nat : u = c.bytes
  BY <1>1
<1>10. Total(t) = u - g + f /\ Total(t) \in Nat
  <2>1. Total(t) = u - g + f
    BY <1>1, <1>2, <1>4, <1>6, <1>9, TotalReplaced
  <2>2. Total(t) \in Nat
    BY TotalFold, TotalIsSum
  <2>. QED BY <2>1, <2>2
<1>11. c.bytes + Difference(r) = Total(t)
  BY <1>6, <1>8, <1>9, <1>10 DEF Difference
<1>12. PICK m : m = Cache(t, Total(t)) /\ m.requests = t /\ m.bytes = Total(t) /\ m \in Caches
  BY <1>10, CacheFields, CacheType
<1>13. Distinct(t)
  <2>1. \A j \in 1..n : t[j].id = s[j].id
    BY <1>2, <1>4
  <2>. QED BY <1>1, <1>2, <1>3, <1>4, <2>1 DEF Distinct
<1>14. Pending(t) \subseteq Pending(s)
  <2>1. ASSUME NEW x \in Pending(t) PROVE x \in Pending(s)
    <3>1. PICK j \in 1..n : x = t[j] /\ ~Settled(t[j])
      BY <1>4 DEF Pending, Elements
    <3>2. j # i
      BY <1>4, <3>1
    <3>. QED BY <1>3, <1>4, <3>1, <3>2 DEF Pending, Elements
  <2>. QED BY <2>1
<1>15. Sound(m)
  BY <1>1, <1>2, <1>12, <1>13, <1>14 DEF Sound
<1>16. PendingIds(t) = ids \ {r.id}
  <2>1. ids = PendingIds(s)
    BY <1>2 DEF Good
  <2>2. ASSUME NEW x \in Pending(t) PROVE x.id \in ids \ {r.id}
    <3>1. PICK j \in 1..n : x = t[j] /\ ~Settled(t[j])
      BY <1>4 DEF Pending, Elements
    <3>2. j # i /\ x = s[j]
      BY <1>4, <3>1
    <3>3. x.id # s[i].id
      BY <1>1, <1>2, <1>3, <3>2 DEF Distinct
    <3>. QED BY <1>2, <1>14, <2>1, <3>3 DEF PendingIds
  <2>3. ASSUME NEW x \in Pending(s), x.id # r.id PROVE x \in Pending(t)
    <3>1. PICK j \in 1..n : x = s[j] /\ ~Settled(s[j])
      BY <1>3 DEF Pending, Elements
    <3>2. x = t[j]
      BY <1>2, <1>4, <2>3, <3>1
    <3>. QED BY <1>4, <3>1, <3>2 DEF Pending, Elements
  <2>. QED BY <2>1, <2>2, <2>3 DEF PendingIds
<1>17. ASSUME NEW j \in 1..n, ~Settled(t[j]) PROVE Footprint(t[j]) <= Footprint(s[j])
  <2>1. t[j] = s[j] /\ s[j] \in Record
    BY <1>3, <1>4, <1>17
  <2>2. Footprint(s[j]) \in Nat
    BY <2>1, FootprintType
  <2>. QED BY <2>1, <2>2
<1>18. Total(s) <= MaxBytes /\ Len(t) <= MaxRequests
  BY <1>1, <1>2, <1>3, <1>4 DEF Good
<1>19. Good(evictSettled(m, 0), ids \ {r.id})
  <2>1. /\ Sound(m) /\ ids \ {r.id} = PendingIds(m.requests) /\ Len(m.requests) <= MaxRequests
        /\ Len(s) = Len(m.requests) /\ Total(s) <= MaxBytes
    BY <1>3, <1>4, <1>12, <1>15, <1>16, <1>18
  <2>2. \A j \in 1..Len(s) : ~Settled(m.requests[j])
                               => Footprint(m.requests[j]) <= Footprint(s[j])
    BY <1>3, <1>12, <1>17
  <2>. QED BY <2>1, <2>2, GrownGood
<1>. QED BY <1>2, <1>4, <1>11, <1>12, <1>19

LEMMA ElementsRemoveAt ==
  ASSUME NEW s \in Seq(Record), NEW i \in 1..Len(s)
  PROVE  /\ Elements(RemoveAt(s, i)) = {s[j] : j \in (1..Len(s)) \ {i}}
         /\ Distinct(s) => Distinct(RemoveAt(s, i))
<1>1. PICK n \in Nat : n = Len(s) /\ i \in 1..n
  OBVIOUS
<1>2. PICK t \in Seq(Record) : t = RemoveAt(s, i)
  BY RemoveAtProperties
<1>3. /\ Len(t) = n - 1 /\ n - 1 \in Nat
      /\ \A j \in 1..(n - 1) : t[j] = IF j < i THEN s[j] ELSE s[j + 1]
  <2>1. /\ Len(t) = Len(s) - 1
        /\ \A j \in 1..(Len(s) - 1) : t[j] = IF j < i THEN s[j] ELSE s[j + 1]
    BY <1>2, RemoveAtProperties
  <2>. QED BY <1>1, <2>1
<1>4. PICK at : at = [j \in 1..(n - 1) |-> IF j < i THEN j ELSE j + 1]
  OBVIOUS
<1>5. ASSUME NEW j \in 1..(n - 1) PROVE t[j] = s[at[j]] /\ at[j] \in (1..n) \ {i}
  BY <1>1, <1>3, <1>4
<1>6. ASSUME NEW k \in (1..n) \ {i} PROVE \E j \in 1..(n - 1) : at[j] = k
  <2>1. CASE k < i
    <3>1. k \in 1..(n - 1) /\ at[k] = k
      BY <1>1, <1>4, <2>1
    <3>. QED BY <3>1
  <2>2. CASE k > i
    <3>1. PICK j \in 1..(n - 1) : j + 1 = k /\ ~(j < i)
      <4>1. k - 1 \in 1..(n - 1) /\ (k - 1) + 1 = k /\ ~(k - 1 < i)
        BY <1>1, <2>2
      <4>. QED BY <4>1
    <3>2. at[j] = k
      BY <1>4, <3>1
    <3>. QED BY <3>2
  <2>. QED BY <1>1, <2>1, <2>2
<1>7. \A j, k \in 1..(n - 1) : at[j] = at[k] => j = k
  BY <1>1, <1>4
<1>8. Elements(t) = {s[j] : j \in (1..n) \ {i}}
  <2>1. ASSUME NEW x \in Elements(t) PROVE x \in {s[j] : j \in (1..n) \ {i}}
    <3>1. PICK j \in 1..(n - 1) : x = t[j]
      BY <1>3 DEF Elements
    <3>. QED BY <1>5, <3>1
  <2>2. ASSUME NEW k \in (1..n) \ {i} PROVE s[k] \in Elements(t)
    <3>1. PICK j \in 1..(n - 1) : at[j] = k
      BY <1>6
    <3>2. t[j] = s[k]
      BY <1>5, <3>1
    <3>. QED BY <1>3, <3>2 DEF Elements
  <2>. QED BY <2>1, <2>2
<1>9. ASSUME Distinct(s) PROVE Distinct(t)
  <2>1. ASSUME NEW j \in 1..(n - 1), NEW k \in 1..(n - 1), t[j].id = t[k].id PROVE j = k
    <3>1. at[j] = at[k]
      <4>1. PICK a \in 1..n, b \in 1..n : a = at[j] /\ b = at[k] /\ t[j] = s[a] /\ t[k] = s[b]
        BY <1>5
      <4>2. s[a].id = s[b].id
        BY <2>1, <4>1
      <4>3. a = b
        BY <1>1, <1>9, <4>2 DEF Distinct
      <4>. QED BY <4>1, <4>3
    <3>. QED BY <1>7, <3>1
  <2>. QED BY <1>3, <2>1 DEF Distinct
<1>. QED BY <1>1, <1>2, <1>8, <1>9

(* What the extension kept takes the place of an outcome that was unknown.   *)
LEMMA ReplacedGood ==
  ASSUME RequestCacheAssumption, NEW c, NEW ids, Good(c, ids), NEW i \in 1..Len(c.requests),
         Settled(c.requests[i]), NEW r \in Record, Settled(r), r.id = c.requests[i].id
  PROVE  Good(evictSettled(Cache(Append(RemoveAt(c.requests, i), r),
                                 c.bytes + Footprint(r) - Footprint(c.requests[i])), 0), ids)
<1>1. /\ Sound(c) /\ c.requests \in Seq(Record) /\ c.bytes \in Nat
      /\ Distinct(c.requests) /\ c.bytes = Total(c.requests)
  BY SoundTypes DEF Good
<1>2. PICK s \in Seq(Record) : s = c.requests /\ i \in 1..Len(s)
  BY <1>1
<1>3. PICK n \in Nat : n = Len(s) /\ i \in 1..n
  BY <1>2
<1>4. PICK p \in Seq(Record) : p = RemoveAt(s, i)
  BY <1>2, RemoveAtProperties
<1>5. /\ Elements(p) = {s[j] : j \in (1..n) \ {i}} /\ Distinct(p) /\ Len(p) = n - 1
      /\ Total(p) = Total(s) - Footprint(s[i])
  <2>1. Elements(p) = {s[j] : j \in (1..n) \ {i}} /\ Distinct(p)
    BY <1>1, <1>2, <1>3, <1>4, ElementsRemoveAt
  <2>2. Len(p) = n - 1
    BY <1>2, <1>3, <1>4, RemoveAtProperties
  <2>3. Total(p) = Total(s) - Footprint(s[i])
    BY <1>2, <1>4, TotalRemoveAt
  <2>. QED BY <2>1, <2>2, <2>3
<1>6. PICK old \in Record : old = s[i]
  BY <1>3
<1>7. PICK t \in Seq(Record) : t = Append(p, r)
  BY AppendProperties
<1>8. PICK q \in Seq(Record) : q = Append(p, old)
  BY AppendProperties
<1>9. PICK f \in Nat, g \in Nat, u \in Nat, v \in Nat :
        f = Footprint(r) /\ g = Footprint(old) /\ u = Total(s) /\ v = Total(p)
  <2>1. Footprint(r) \in Nat /\ Footprint(old) \in Nat
    BY FootprintType
  <2>2. Total(s) \in Nat /\ Total(p) \in Nat
    BY TotalFold, TotalIsSum
  <2>. QED BY <2>1, <2>2
<1>10. v = u - g /\ Total(t) = v + f /\ Total(q) = v + g
  <2>1. Total(t) = v + f /\ Total(q) = v + g
    BY <1>7, <1>8, <1>9, TotalAppend
  <2>. QED BY <1>5, <1>6, <1>9, <2>1
<1>11. c.bytes + f - g = Total(t) /\ Total(t) \in Nat /\ Total(q) = c.bytes
  <2>1. c.bytes = u
    BY <1>1, <1>2, <1>9
  <2>2. u + f - g = v + f /\ v + f \in Nat /\ v + g = u
    BY <1>10
  <2>. QED BY <1>10, <2>1, <2>2
<1>12. PICK m : m = Cache(t, Total(t)) /\ m.requests = t /\ m.bytes = Total(t) /\ m \in Caches
  BY <1>11, CacheFields, CacheType
<1>13. \A x \in Elements(p) : x.id # r.id
  <2>1. \A j \in (1..n) \ {i} : s[j].id # s[i].id
    BY <1>1, <1>2, <1>3 DEF Distinct
  <2>. QED BY <1>2, <1>5, <2>1
<1>14. Distinct(t) /\ Elements(t) = Elements(p) \cup {r}
  BY <1>5, <1>7, <1>13, DistinctAppend, ElementsAppend
<1>15. Pending(t) = Pending(s)
  <2>1. Elements(s) = Elements(p) \cup {s[i]}
    BY <1>3, <1>5 DEF Elements
  <2>2. ~(s[i] \in Pending(s)) /\ r \notin Pending(t)
    BY <1>2 DEF Pending
  <2>3. \A x : x \in Pending(t) <=> x \in Elements(p) /\ ~Settled(x)
    BY <1>14 DEF Pending
  <2>4. \A x : x \in Pending(s) <=> x \in Elements(p) /\ ~Settled(x)
    BY <2>1, <2>2 DEF Pending
  <2>. QED BY <2>3, <2>4
<1>16. Sound(m)
  BY <1>1, <1>2, <1>12, <1>14, <1>15 DEF Sound
<1>17. /\ Len(t) = n /\ Len(q) = n /\ t[n] = r
       /\ \A j \in 1..n : j # n => t[j] = q[j]
  <2>1. Len(t) = n /\ Len(q) = n /\ t[n] = r
    BY <1>3, <1>5, <1>7, <1>8, AppendProperties
  <2>2. \A j \in 1..(n - 1) : t[j] = p[j] /\ q[j] = p[j]
    BY <1>3, <1>5, <1>7, <1>8, AppendProperties
  <2>3. \A j \in 1..n : j # n => j \in 1..(n - 1)
    OBVIOUS
  <2>. QED BY <2>1, <2>2, <2>3
<1>18. Good(evictSettled(m, 0), ids)
  <2>1. /\ Sound(m) /\ ids = PendingIds(m.requests) /\ Len(m.requests) <= MaxRequests
        /\ Len(q) = Len(m.requests) /\ Total(q) <= MaxBytes
    BY <1>2, <1>3, <1>11, <1>12, <1>15, <1>16, <1>17 DEF Good, PendingIds
  <2>2. ASSUME NEW j \in 1..Len(q), ~Settled(m.requests[j])
        PROVE  Footprint(m.requests[j]) <= Footprint(q[j])
    <3>1. j \in 1..n /\ j # n /\ m.requests[j] = q[j]
      BY <1>12, <1>17, <2>2
    <3>2. Footprint(q[j]) \in Nat
      BY FootprintType
    <3>. QED BY <3>1, <3>2
  <2>. QED BY <2>1, <2>2, GrownGood
<1>. QED BY <1>2, <1>6, <1>7, <1>4, <1>9, <1>11, <1>12, <1>18

ConfirmedType ==
  confirmed \in [Operation -> {NoResult} \cup [content : {{x} : x \in Content}, size : Size]]
IInv == Good(Cache(requests, bytes), flying) /\ ConfirmedType

LEMMA InitIInv == ASSUME RequestCacheAssumption, Init PROVE IInv
<1>1. PICK c : c = Cache(<<>>, 0) /\ c.requests = <<>> /\ c.bytes = 0 /\ c \in Caches
  <2>1. <<>> \in Seq(Record) /\ 0 \in Nat
    BY EmptySeq
  <2>. QED BY <2>1, CacheFields, CacheType
<1>2. Elements(<<>>) = {} /\ Distinct(<<>>) /\ Total(<<>>) = 0 /\ Len(<<>>) = 0
  BY EmptyCache, TotalEmpty
<1>3. Pending(<<>>) = {}
  BY <1>2 DEF Pending
<1>4. Sound(c)
  BY <1>1, <1>2, <1>3 DEF Sound
<1>5. MaxBytes \in Nat /\ MaxRequests \in Nat
  BY DEF RequestCacheAssumption
<1>6. Good(c, {})
  BY <1>1, <1>2, <1>3, <1>4, <1>5 DEF Good, PendingIds
<1>7. ConfirmedType
  BY DEF Init, ConfirmedType
<1>. QED BY <1>1, <1>6, <1>7 DEF Init, IInv

LEMMA KeepsGood ==
  ASSUME NEW c, Keeps(c), Good(c, flying')
  PROVE  Good(Cache(requests, bytes), flying)'
<1>1. c \in Caches
  BY DEF Good, Sound
<1>2. c = [requests |-> c.requests, bytes |-> c.bytes]
  BY <1>1 DEF Caches
<1>3. Cache(requests', bytes') = c
  BY <1>2 DEF Keeps, Cache
<1>. QED BY <1>3

LEMMA Confirmed ==
  ASSUME ConfirmedType, NEW id \in Operation, NEW content, Confirms(id, content)
  PROVE  confirmed[id].size \in Size
<1>1. confirmed[id] \in {NoResult} \cup [content : {{x} : x \in Content}, size : Size]
  BY DEF ConfirmedType
<1>2. confirmed[id] # NoResult
  <2>1. confirmed[id].content # {}
    BY DEF Confirms
  <2>. QED BY <2>1 DEF NoResult
<1>. QED BY <1>1, <1>2

LEMMA DiscardType ==
  ASSUME ConfirmedType, NEW id \in Operation, discardConfirmedResult(id)
  PROVE  ConfirmedType'
BY DEF ConfirmedType, discardConfirmedResult

LEMMA Indexed ==
  ASSUME NEW s \in Seq(Record), NEW id, \E i \in DOMAIN s : s[i].id = id
  PROVE  Of(s, id) \in 1..Len(s) /\ s[Of(s, id)].id = id
BY DEF Of

LEMMA RequestStep ==
  ASSUME RequestCacheAssumption, IInv, NEW id \in Operation, NEW content \in Content,
         Request(id, content)
  PROVE  IInv'
<1>1. PICK age \in 0..Len(requests) :
        LET c == pruneRequests(age)
        IN IF \E i \in DOMAIN c.requests : c.requests[i].id = id
             THEN Join(id, content, c) \/ Replace(id, content, c)
             ELSE Recover(id, content, c) \/ Admit(id, content, c) \/ OtherContent(id, content, c)
  BY DEF Request
<1>2. PICK c : c = pruneRequests(age)
  OBVIOUS
<1>3. PICK ids : ids = flying
  OBVIOUS
<1>4. Good(c, ids)
  BY <1>2, <1>3, PrunedGood DEF IInv
<1>5. PICK s \in Seq(Record) : s = c.requests
  BY <1>4, SoundTypes DEF Good
<1>6. ConfirmedType
  BY DEF IInv
<1>7. 0 \in Nat /\ Size \subseteq Nat
  BY DEF RequestCacheAssumption
<1>8. ASSUME \E i \in DOMAIN s : s[i].id = id, Replace(id, content, c) PROVE IInv'
  <2>1. PICK i \in 1..Len(s) : i = Of(s, id) /\ s[i].id = id
    BY <1>8, Indexed
  <2>2. PICK r : r = [s[i] EXCEPT !.actual = confirmed[id].size, !.outcome = "completed"]
    OBVIOUS
  <2>3. /\ s[i].outcome = "effect_unknown" /\ Confirms(id, content)
        /\ Keeps(evictSettled(Cache(Append(RemoveAt(s, i), r),
                                    c.bytes + Footprint(r) - Footprint(s[i])), 0))
        /\ discardConfirmedResult(id) /\ UNCHANGED flying
    BY <1>5, <1>8, <2>1, <2>2 DEF Replace
  <2>4. s[i] \in Record /\ confirmed[id].size \in Size
    BY <1>6, <2>3, Confirmed
  <2>5. r \in Record /\ r.id = s[i].id /\ r.outcome = "completed"
    <3>1. s[i] \in [id : Operation, content : Content, reserved : Size, actual : Size \cup {0},
                    outcome : Outcome]
      BY <2>4 DEF Record
    <3>2. "completed" \in Outcome
      BY DEF Outcome
    <3>3. r \in [id : Operation, content : Content, reserved : Size, actual : Size \cup {0},
                 outcome : Outcome] /\ r.id = s[i].id /\ r.outcome = "completed"
      BY <2>2, <2>4, <3>1, <3>2
    <3>. QED BY <3>3 DEF Record
  <2>6. Settled(r) /\ Settled(s[i])
    BY <2>3, <2>5 DEF Settled
  <2>7. Good(evictSettled(Cache(Append(RemoveAt(s, i), r),
                                c.bytes + Footprint(r) - Footprint(s[i])), 0), ids)
    BY <1>4, <1>5, <2>5, <2>6, ReplacedGood
  <2>8. Good(Cache(requests, bytes), flying)'
    BY <1>3, <2>3, <2>7, KeepsGood
  <2>9. ConfirmedType'
    BY <1>6, <2>3, DiscardType
  <2>. QED BY <2>8, <2>9 DEF IInv
<1>9. ASSUME ~ \E i \in DOMAIN s : s[i].id = id, Recover(id, content, c) PROVE IInv'
  <2>1. PICK size : size = confirmed[id].size
    OBVIOUS
  <2>2. PICK room : room = evictSettled(c, size)
    OBVIOUS
  <2>3. /\ Confirms(id, content) /\ UNCHANGED flying
        /\ IF Admits(room, size)
             THEN /\ Adds(room, [id |-> id, content |-> content, reserved |-> size,
                                 actual |-> size, outcome |-> "completed"])
                  /\ discardConfirmedResult(id)
             ELSE Keeps(room) /\ UNCHANGED confirmed
    BY <1>9, <2>1, <2>2 DEF Recover
  <2>4. size \in Size /\ size \in Nat
    BY <1>6, <1>7, <2>1, <2>3, Confirmed
  <2>5. Good(room, ids) /\ Elements(room.requests) \subseteq Elements(c.requests)
    BY <1>4, <2>2, <2>4, EvictedGood
  <2>6. CASE Admits(room, size)
    <3>1. PICK r : r = [id |-> id, content |-> content, reserved |-> size, actual |-> size,
                        outcome |-> "completed"]
      OBVIOUS
    <3>2. r \in Record /\ r.id = id /\ Settled(r) /\ r.reserved = size /\ r.actual = size
      BY <2>4, <3>1 DEF Record, Outcome, Settled
    <3>3. Footprint(r) = size
      BY <2>4, <3>2 DEF Footprint, Larger
    <3>4. \A x \in Elements(room.requests) : x.id # r.id
      <4>1. \A i \in 1..Len(s) : s[i].id # id
        BY <1>9
      <4>2. \A x \in Elements(s) : x.id # id
        BY <4>1 DEF Elements
      <4>. QED BY <1>5, <2>5, <3>2, <4>2
    <3>5. Good(Cache(Append(room.requests, r), room.bytes + Footprint(r)), ids)
      BY <2>5, <2>6, <3>2, <3>3, <3>4, AddedGood
    <3>6. Keeps(Cache(Append(room.requests, r), room.bytes + Footprint(r)))
      BY <2>3, <2>6, <3>1 DEF Adds
    <3>7. Good(Cache(requests, bytes), flying)'
      BY <1>3, <2>3, <3>5, <3>6, KeepsGood
    <3>8. ConfirmedType'
      BY <1>6, <2>3, <2>6, DiscardType
    <3>. QED BY <3>7, <3>8 DEF IInv
  <2>7. CASE ~Admits(room, size)
    <3>1. Good(Cache(requests, bytes), flying)'
      BY <1>3, <2>3, <2>5, <2>7, KeepsGood
    <3>2. ConfirmedType'
      BY <1>6, <2>3, <2>7 DEF ConfirmedType
    <3>. QED BY <3>1, <3>2 DEF IInv
  <2>. QED BY <2>6, <2>7
<1>10. ASSUME ~ \E i \in DOMAIN s : s[i].id = id, Admit(id, content, c) PROVE IInv'
  <2>1. ConfirmedType'
    BY <1>6, <1>10 DEF Admit, ConfirmedType
  <2>2. CASE Keeps(c) /\ UNCHANGED flying
    <3>1. Good(Cache(requests, bytes), flying)'
      BY <1>3, <1>4, <2>2, KeepsGood
    <3>. QED BY <2>1, <3>1 DEF IInv
  <2>3. CASE ~(Keeps(c) /\ UNCHANGED flying)
    <3>1. PICK reserved \in Size :
            LET room == evictSettled(c, reserved)
            IN IF Admits(room, reserved)
                 THEN /\ Adds(room, [id |-> id, content |-> content, reserved |-> reserved,
                                     actual |-> 0, outcome |-> "pending"])
                      /\ flying' = flying \cup {id}
                 ELSE Keeps(room) /\ UNCHANGED flying
      BY <1>10, <2>3 DEF Admit
    <3>2. PICK room : room = evictSettled(c, reserved)
      OBVIOUS
    <3>3. Good(room, ids) /\ Elements(room.requests) \subseteq Elements(c.requests)
      BY <1>4, <1>7, <3>2, EvictedGood
    <3>4. CASE Admits(room, reserved)
      <4>1. PICK r : r = [id |-> id, content |-> content, reserved |-> reserved, actual |-> 0,
                          outcome |-> "pending"]
        OBVIOUS
      <4>2. /\ r \in Record /\ r.id = id /\ ~Settled(r)
            /\ r.reserved = reserved /\ r.actual = 0
        BY <4>1 DEF Record, Outcome, Settled
      <4>3. Footprint(r) = reserved
        BY <1>7, <4>2 DEF Footprint, Larger
      <4>4. \A x \in Elements(room.requests) : x.id # r.id
        <5>1. \A i \in 1..Len(s) : s[i].id # id
          BY <1>10
        <5>2. \A x \in Elements(s) : x.id # id
          BY <5>1 DEF Elements
        <5>. QED BY <1>5, <3>3, <4>2, <5>2
      <4>5. Good(Cache(Append(room.requests, r), room.bytes + Footprint(r)), ids \cup {id})
        BY <3>3, <3>4, <4>2, <4>3, <4>4, AddedGood
      <4>6. /\ Keeps(Cache(Append(room.requests, r), room.bytes + Footprint(r)))
            /\ flying' = ids \cup {id}
        BY <1>3, <3>1, <3>2, <3>4, <4>1 DEF Adds
      <4>7. Good(Cache(requests, bytes), flying)'
        BY <4>5, <4>6, KeepsGood
      <4>. QED BY <2>1, <4>7 DEF IInv
    <3>5. CASE ~Admits(room, reserved)
      <4>1. Keeps(room) /\ flying' = ids
        BY <1>3, <3>1, <3>2, <3>5
      <4>2. Good(Cache(requests, bytes), flying)'
        BY <3>3, <4>1, KeepsGood
      <4>. QED BY <2>1, <4>2 DEF IInv
    <3>. QED BY <3>4, <3>5
  <2>. QED BY <2>2, <2>3
<1>11. ASSUME Keeps(c), UNCHANGED <<confirmed, flying>> PROVE IInv'
  <2>1. Good(Cache(requests, bytes), flying)'
    BY <1>3, <1>4, <1>11, KeepsGood
  <2>2. ConfirmedType'
    BY <1>6, <1>11 DEF ConfirmedType
  <2>. QED BY <2>1, <2>2 DEF IInv
<1>12. CASE \E i \in DOMAIN s : s[i].id = id
  <2>1. Join(id, content, c) \/ Replace(id, content, c)
    BY <1>1, <1>2, <1>5, <1>12
  <2>2. Join(id, content, c) => Keeps(c) /\ UNCHANGED <<confirmed, flying>>
    BY DEF Join
  <2>. QED BY <1>8, <1>11, <1>12, <2>1, <2>2
<1>13. CASE ~ \E i \in DOMAIN s : s[i].id = id
  <2>1. Recover(id, content, c) \/ Admit(id, content, c) \/ OtherContent(id, content, c)
    BY <1>1, <1>2, <1>5, <1>13
  <2>2. OtherContent(id, content, c) => Keeps(c) /\ UNCHANGED <<confirmed, flying>>
    BY DEF OtherContent
  <2>. QED BY <1>9, <1>10, <1>11, <1>13, <2>1, <2>2
<1>. QED BY <1>12, <1>13

LEMMA SettleStep ==
  ASSUME RequestCacheAssumption, IInv, NEW id \in Operation, Settle(id)
  PROVE  IInv'
<1>1. PICK c : c = Cache(requests, bytes) /\ c.requests = requests /\ c.bytes = bytes
  BY CacheFields
<1>2. PICK ids : ids = flying
  OBVIOUS
<1>3. Good(c, ids)
  BY <1>1, <1>2 DEF IInv
<1>4. PICK s \in Seq(Record) : s = requests /\ s = c.requests
  BY <1>1, <1>3, SoundTypes DEF Good
<1>5. Distinct(s)
  BY <1>3, <1>4, SoundTypes DEF Good
<1>6. PICK i \in 1..Len(s) : i = Of(s, id) /\ s[i].id = id /\ ~Settled(s[i])
  <2>1. id \in PendingIds(s)
    BY <1>2, <1>3, <1>4 DEF Good, Settle
  <2>2. PICK j \in 1..Len(s) : s[j].id = id /\ ~Settled(s[j])
    BY <2>1 DEF PendingIds, Pending, Elements
  <2>3. Of(s, id) \in 1..Len(s) /\ s[Of(s, id)].id = id
    BY <2>2, Indexed
  <2>4. Of(s, id) = j
    BY <1>5, <2>2, <2>3 DEF Distinct
  <2>. QED BY <2>2, <2>3, <2>4
<1>7. PICK outcome \in {"completed", "effect_unknown"}, size \in Size \cup {0} :
        LET r == [s[i] EXCEPT !.outcome = outcome, !.actual = size]
        IN Keeps(evictSettled(Cache([s EXCEPT ![i] = r], bytes + Difference(r)), 0))
  BY <1>4, <1>6 DEF Settle
<1>8. PICK r : r = [s[i] EXCEPT !.outcome = outcome, !.actual = size]
  OBVIOUS
<1>9. r \in Record /\ r.id = s[i].id /\ r.reserved = s[i].reserved /\ r.outcome = outcome
  <2>1. s[i] \in [id : Operation, content : Content, reserved : Size, actual : Size \cup {0},
                  outcome : Outcome]
    <3>1. s[i] \in Record
      OBVIOUS
    <3>. QED BY <3>1 DEF Record
  <2>2. outcome \in Outcome
    BY DEF Outcome
  <2>3. /\ r \in [id : Operation, content : Content, reserved : Size, actual : Size \cup {0},
                  outcome : Outcome]
        /\ r.id = s[i].id /\ r.reserved = s[i].reserved /\ r.outcome = outcome
    BY <1>8, <2>1, <2>2
  <2>. QED BY <2>3 DEF Record
<1>10. Settled(r)
  BY <1>9 DEF Settled
<1>11. Good(evictSettled(Cache([s EXCEPT ![i] = r], c.bytes + Difference(r)), 0), ids \ {id})
  <2>1. Good(evictSettled(Cache([s EXCEPT ![i] = r], c.bytes + Difference(r)), 0), ids \ {r.id})
    BY <1>3, <1>4, <1>6, <1>9, <1>10, SettledGood
  <2>. QED BY <1>6, <1>9, <2>1
<1>12. Good(Cache(requests, bytes), flying)'
  <2>1. Keeps(evictSettled(Cache([s EXCEPT ![i] = r], c.bytes + Difference(r)), 0))
    BY <1>1, <1>7, <1>8
  <2>2. flying' = ids \ {id}
    BY <1>2 DEF Settle
  <2>. QED BY <1>11, <2>1, <2>2, KeepsGood
<1>13. ConfirmedType'
  BY DEF Settle, IInv, ConfirmedType
<1>. QED BY <1>12, <1>13 DEF IInv

LEMMA RecoveredStep ==
  ASSUME IInv, NEW id \in Operation, ResultRecovered(id)
  PROVE  IInv'
<1>1. ConfirmedType'
  BY DEF ResultRecovered, IInv, ConfirmedType
<1>2. Good(Cache(requests, bytes), flying)'
  BY DEF ResultRecovered, IInv
<1>. QED BY <1>1, <1>2 DEF IInv

LEMMA NextIInv ==
  ASSUME RequestCacheAssumption, IInv, [Next]_vars
  PROVE  IInv'
<1>1. CASE Next
  BY <1>1, RequestStep, SettleStep, RecoveredStep DEF Next
<1>2. CASE UNCHANGED vars
  <2>1. Good(Cache(requests, bytes), flying)' /\ ConfirmedType'
    BY <1>2 DEF vars, IInv, ConfirmedType
  <2>. QED BY <2>1 DEF IInv
<1>. QED BY <1>1, <1>2

LEMMA RequestBudget ==
  ASSUME IInv
  PROVE  CacheWithinBudget /\ TypeOK
<1>1. PICK c : c = Cache(requests, bytes) /\ c.requests = requests /\ c.bytes = bytes
  BY CacheFields
<1>2. Good(c, flying) /\ ConfirmedType
  BY <1>1 DEF IInv
<1>3. requests \in Seq(Record) /\ bytes \in Nat /\ bytes = Total(requests)
  BY <1>1, <1>2, SoundTypes DEF Good
<1>4. flying = PendingIds(requests)
  BY <1>1, <1>2 DEF Good
<1>5. flying = {requests[i].id : i \in {j \in DOMAIN requests : ~Settled(requests[j])}}
  BY <1>3, <1>4 DEF PendingIds, Pending, Elements
<1>6. flying \subseteq Operation
  <2>1. \A i \in 1..Len(requests) : requests[i] \in Record
    BY <1>3
  <2>2. \A r \in Record : r.id \in Operation
    BY DEF Record
  <2>3. \A i \in 1..Len(requests) : requests[i].id \in Operation
    BY <2>1, <2>2
  <2>. QED BY <1>3, <1>5, <2>3
<1>7. CacheWithinBudget
  BY <1>1, <1>2, <1>3, <1>5 DEF Good, CacheWithinBudget
<1>8. TypeOK
  BY <1>2, <1>3, <1>6 DEF ConfirmedType, TypeOK
<1>. QED BY <1>7, <1>8

(* However requests are admitted, settle larger than reserved, are replaced, *)
(* pruned and evicted, the byte counter is the sum of what is recorded,      *)
(* within the budget; and what is under way keeps its record                 *)
(* (broker-server.ts, "requestCacheBytes").                                  *)
THEOREM CacheStaysWithinBudget ==
  ASSUME RequestCacheAssumption
  PROVE  Spec => []CacheWithinBudget
<1>1. Init => IInv
  BY InitIInv
<1>2. IInv /\ [Next]_vars => IInv'
  BY NextIInv
<1>3. IInv => CacheWithinBudget
  BY RequestBudget
<1>. QED BY <1>1, <1>2, <1>3, PTL DEF Spec

=============================================================================
