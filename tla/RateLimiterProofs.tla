------------------------- MODULE RateLimiterProofs -------------------------
(***************************************************************************)
(* Proofs about RateLimiter: how far concurrent requests can overshoot the *)
(* daily limit, who leaves the RPM counter without expiry, that the books  *)
(* of days and months balance, and how many requests a window admits.      *)
(***************************************************************************)
EXTENDS RateLimiter, FiniteSetTheorems, WellFoundedInduction, TLAPS

-----------------------------------------------------------------------------
(* The types. *)

LEMMA DatesAndMonths ==
    /\ \A d \in Dates : MonthOf(d) \in Months
    /\ 0 \in Dates
    /\ Window \in 1 .. Forever /\ Forever \in 1 .. Forever
  BY LimiterAssumption DEF Dates, Months, Forever

LEMMA InitType == Init => TypeOK
  BY LimiterAssumption, DatesAndMonths DEF Init, TypeOK, Stage

LEMMA GotoType ==
    ASSUME TypeOK, NEW r \in Requests, NEW stage \in Stage, Goto(r, stage)
    PROVE  pc' \in [Requests -> Stage]
  BY DEF TypeOK, Goto

LEMMA VerdictType ==
    ASSUME TypeOK, NEW r \in Requests, NEW count \in Int, RpmVerdict(r, count)
    PROVE  pc' \in [Requests -> Stage]
  BY GotoType DEF RpmVerdict, Stage

\* The expiry of a key or of a window keeps the counter's type.
LEMMA StepType == TypeOK /\ [Next]_vars => TypeOK'
<1> SUFFICES ASSUME TypeOK, [Next]_vars PROVE TypeOK'
  OBVIOUS
<1> USE LimiterAssumption, DatesAndMonths
<1> DEFINE Rpm == [count : 0 .. RpmLimit + 2, ttl : 1 .. Forever]
<1>t. /\ rpm \in Rpm /\ rpm.count \in 0 .. RpmLimit + 2 /\ rpm.ttl \in 1 .. Forever
      /\ rpm = [count |-> rpm.count, ttl |-> rpm.ttl]
  BY DEF TypeOK
<1>m. \A c \in 0 .. RpmLimit + 2, t \in 1 .. Forever :
         /\ [rpm EXCEPT !.count = c] \in Rpm
         /\ [rpm EXCEPT !.ttl = t] \in Rpm
         /\ [count |-> c, ttl |-> t] \in Rpm
  BY <1>t
<1>1. ASSUME NEW r \in Requests, Incr(r) PROVE TypeOK'
  <2> DEFINE count == IF rpm.count <= RpmLimit + 1 THEN rpm.count + 1 ELSE rpm.count
  <2>1. count \in 0 .. RpmLimit + 2
    BY <1>t
  <2>2. rpm' \in Rpm
    BY <1>1, <1>m, <2>1 DEF Incr
  <2>3. pc' \in [Requests -> Stage]
    BY <1>1, <2>1, GotoType, VerdictType DEF Incr, Stage
  <2>4. recent' \in [0 .. Window - 1 -> Nat]
    <3>1. 0 \in 0 .. Window - 1 /\ recent \in [0 .. Window - 1 -> Nat]
      BY DEF TypeOK
    <3>2. [recent EXCEPT ![0] = @ + 1] \in [0 .. Window - 1 -> Nat]
      BY <3>1
    <3>3. recent' = recent \/ recent' = [recent EXCEPT ![0] = @ + 1]
      BY <1>1 DEF Incr
    <3>4. QED  BY <3>1, <3>2, <3>3
  <2>5. QED  BY <1>1, <2>2, <2>3, <2>4 DEF Incr, TypeOK
<1>2. ASSUME NEW r \in Requests, Expire(r) PROVE TypeOK'
  <2>1. rpm' \in Rpm
    <3>1. rpm' = [rpm EXCEPT !.ttl = Window] /\ Window \in 1 .. Forever
      BY <1>2 DEF Expire
    <3>2. rpm.count \in 0 .. RpmLimit + 2
      BY <1>t
    <3>3. rpm' = [count |-> rpm.count, ttl |-> Window]
      BY <1>t, <3>1
    <3>4. QED  BY <1>m, <3>1, <3>2, <3>3
  <2>2. pc' \in [Requests -> Stage]
    BY <1>2, VerdictType DEF Expire
  <2>3. QED  BY <1>2, <2>1, <2>2 DEF Expire, TypeOK
<1>3. ASSUME NEW r \in Requests, CheckDailyTokens(r) PROVE TypeOK'
  BY <1>3, GotoType DEF CheckDailyTokens, TypeOK, Stage
<1>4. ASSUME NEW r \in Requests, CheckMonthlyTokens(r) PROVE TypeOK'
  BY <1>4, GotoType DEF CheckMonthlyTokens, TypeOK, Stage
<1>5. ASSUME NEW r \in Requests, ConsumeDaily(r) PROVE TypeOK'
  <2>1. pc' \in [Requests -> Stage]
    BY <1>5, GotoType DEF ConsumeDaily, Stage
  <2>2. PICK tokens \in 0 .. MaxTokens :
          /\ daily' = [daily EXCEPT ![day] = @ + tokens]
          /\ owed' = [owed EXCEPT ![r] = tokens]
    BY <1>5 DEF ConsumeDaily
  <2>3. daily' \in [Dates -> Nat] /\ owed' \in [Requests -> 0 .. MaxTokens]
    BY <2>2 DEF TypeOK
  <2>4. QED  BY <1>5, <2>1, <2>3 DEF ConsumeDaily, TypeOK
<1>6. ASSUME NEW r \in Requests, ConsumeMonthly(r) PROVE TypeOK'
  <2>1. pc' \in [Requests -> Stage]
    BY <1>6, GotoType DEF ConsumeMonthly, Stage
  <2>2. monthly' \in [Months -> Nat] /\ owed' \in [Requests -> 0 .. MaxTokens]
    BY <1>6 DEF ConsumeMonthly, TypeOK
  <2>3. QED  BY <1>6, <2>1, <2>2 DEF ConsumeMonthly, TypeOK
<1>7. ASSUME NEW r \in Requests, Unserved(r) PROVE TypeOK'
  BY <1>7, GotoType DEF Unserved, TypeOK, Stage
<1>8. ASSUME NEW r \in Requests, Fault(r) PROVE TypeOK'
  <2>1. pc' \in [Requests -> Stage]
    BY <1>8, GotoType DEF Fault, Stage
  <2>2. owed' \in [Requests -> 0 .. MaxTokens]
    BY <1>8 DEF Fault, TypeOK
  <2>3. died' \subseteq Stage
    BY <1>8 DEF Fault, TypeOK
  <2>4. QED  BY <1>8, <2>1, <2>2, <2>3 DEF Fault, TypeOK
<1>9. CASE Second
  <2>1. rpm' \in Rpm
    <3>1. rpm.ttl # Forever /\ rpm.ttl # 1 => rpm.ttl - 1 \in 1 .. Forever
      BY <1>t
    <3>2. QED  BY <1>9, <1>t, <1>m, <3>1 DEF Second
  <2>2. recent' \in [0 .. Window - 1 -> Nat]
    <3>1. \A a \in 0 .. Window - 1 : a # 0 => a - 1 \in 0 .. Window - 1
      OBVIOUS
    <3>2. recent \in [0 .. Window - 1 -> Nat]
      BY DEF TypeOK
    <3>3. \A a \in 0 .. Window - 1 : (IF a = 0 THEN 0 ELSE recent[a - 1]) \in Nat
      BY <3>1, <3>2
    <3>4. QED  BY <1>9, <3>3 DEF Second
  <2>3. QED  BY <1>9, <2>1, <2>2 DEF Second, TypeOK
<1>10. CASE Midnight
  <2>1. day' \in Dates
    BY <1>10 DEF Midnight, TypeOK, Dates
  <2>2. QED  BY <1>10, <2>1 DEF Midnight, TypeOK
<1>11. CASE UNCHANGED vars
  BY <1>11 DEF vars, TypeOK
<1>12. QED
  BY <1>1, <1>2, <1>3, <1>4, <1>5, <1>6, <1>7, <1>8, <1>9, <1>10, <1>11 DEF Next, Step

\* Every counter and every request keeps its type.
THEOREM TypeCorrect == Spec => []TypeOK
  BY InitType, StepType, PTL DEF Spec

-----------------------------------------------------------------------------
(***************************************************************************)
(* The overshoot.  A request enters Uncounted only while the day is below  *)
(* its limit, and it leaves with at most MaxTokens.  A new day starts at   *)
(* zero because nothing is counted on a day before it comes.               *)
(***************************************************************************)

FutureIsEmpty == \A d \in Dates : d > day => daily[d] = 0

BInv == TypeOK /\ FutureIsEmpty /\ DailyOvershootBounded

LEMMA Monotone ==
    ASSUME NEW m \in Nat, NEW x \in Nat, NEW y \in Nat, x <= y
    PROVE  m * x <= m * y /\ m * x \in Nat /\ m * y \in Nat
  OBVIOUS

LEMMA OneMore ==
    ASSUME NEW m \in Nat, NEW x \in Nat
    PROVE  m * (x + 1) = m * x + m
  OBVIOUS

\* How many requests are uncounted, and how that changes with one of them.
LEMMA UncountedCount ==
    /\ IsFiniteSet(Uncounted)
    /\ Cardinality(Uncounted) \in Nat
    /\ Cardinality(Requests) \in Nat
    /\ Cardinality(Uncounted) <= Cardinality(Requests)
    /\ \A r \in Requests : r \notin Uncounted =>
          Cardinality(Uncounted) + 1 <= Cardinality(Requests)
<1>1. Uncounted \subseteq Requests /\ IsFiniteSet(Requests)
  BY LimiterAssumption DEF Uncounted
<1>2. IsFiniteSet(Uncounted) /\ Cardinality(Uncounted) <= Cardinality(Requests)
  BY <1>1, FS_Subset
<1>3. Cardinality(Uncounted) \in Nat /\ Cardinality(Requests) \in Nat
  BY <1>1, <1>2, FS_CardinalityType
<1>4. ASSUME NEW r \in Requests, r \notin Uncounted
      PROVE  Cardinality(Uncounted) + 1 <= Cardinality(Requests)
  <2>1. Cardinality(Uncounted \cup {r}) = Cardinality(Uncounted) + 1
    BY <1>2, <1>4, FS_AddElement
  <2>2. Uncounted \cup {r} \subseteq Requests
    BY <1>1, <1>4
  <2>3. Cardinality(Uncounted \cup {r}) <= Cardinality(Requests)
    BY <1>1, <2>2, FS_Subset
  <2>4. QED  BY <2>1, <2>3
<1>5. QED  BY <1>2, <1>3, <1>4

LEMMA UncountedLeaves ==
    ASSUME TypeOK, NEW r \in Requests, NEW stage, Goto(r, stage),
           stage \notin {"monthly", "serving"}
    PROVE  /\ Cardinality(Uncounted') \in Nat
           /\ Cardinality(Uncounted') <= Cardinality(Uncounted)
           /\ r \in Uncounted => Cardinality(Uncounted') + 1 = Cardinality(Uncounted)
<1>1. Uncounted' = Uncounted \ {r}
  BY DEF Goto, Uncounted, TypeOK
<1>2. IsFiniteSet(Uncounted) /\ Cardinality(Uncounted) \in Nat
  BY UncountedCount
<1>3. Uncounted' \subseteq Uncounted
  BY <1>1
<1>4. IsFiniteSet(Uncounted') /\ Cardinality(Uncounted') <= Cardinality(Uncounted)
  BY <1>2, <1>3, FS_Subset
<1>5. Cardinality(Uncounted') \in Nat
  BY <1>4, FS_CardinalityType
<1>6. r \in Uncounted => Cardinality(Uncounted') + 1 = Cardinality(Uncounted)
  BY <1>1, <1>2, <1>5, FS_RemoveElement
<1>7. QED  BY <1>4, <1>5, <1>6

\* A step that counts nothing and lets no request in keeps the bound.
LEMMA BoundKept ==
    ASSUME TypeOK, DailyOvershootBounded,
           NEW u \in Nat, u = Cardinality(Uncounted'), u <= Cardinality(Uncounted),
           daily' = daily, day' = day
    PROVE  DailyOvershootBounded'
<1> DEFINE n == Cardinality(Uncounted)
           N == Cardinality(Requests)
<1>1. n \in Nat /\ N \in Nat /\ daily[day] \in Nat /\ MaxTokens \in Nat /\ DailyLimit \in Nat
  BY UncountedCount, LimiterAssumption DEF TypeOK
<1>2. MaxTokens * u <= MaxTokens * n /\ MaxTokens * u \in Nat /\ MaxTokens * n \in Nat
  BY <1>1, Monotone
<1>3. MaxTokens * N \in Nat
  BY <1>1
<1>4. DailyLimit > 0 => daily[day] + MaxTokens * n < DailyLimit + MaxTokens * N
  BY DEF DailyOvershootBounded
<1> HIDE DEF n, N
<1>5. DailyLimit > 0 => daily[day] + MaxTokens * u < DailyLimit + MaxTokens * N
  BY <1>1, <1>2, <1>3, <1>4
<1>6. QED  BY <1>5 DEF DailyOvershootBounded, N

\* The bound holds whenever the day is below its limit.
LEMMA BelowLimit ==
    ASSUME NEW u \in Nat, u <= Cardinality(Requests), NEW d \in Nat, d < DailyLimit
    PROVE  d + MaxTokens * u < DailyLimit + MaxTokens * Cardinality(Requests)
<1>1. Cardinality(Requests) \in Nat /\ MaxTokens \in Nat /\ DailyLimit \in Nat
  BY UncountedCount, LimiterAssumption
<1>2. /\ MaxTokens * u <= MaxTokens * Cardinality(Requests)
      /\ MaxTokens * u \in Nat /\ MaxTokens * Cardinality(Requests) \in Nat
  BY <1>1, Monotone
<1>3. QED  BY <1>1, <1>2

LEMMA InitBound == Init => BInv
<1> SUFFICES ASSUME Init PROVE BInv
  OBVIOUS
<1>1. TypeOK
  BY InitType
<1>2. FutureIsEmpty
  BY DEF Init, FutureIsEmpty
<1>3. daily[day] = 0
  BY DatesAndMonths DEF Init
<1>4. DailyOvershootBounded
  BY <1>3, UncountedCount, BelowLimit DEF DailyOvershootBounded
<1>5. QED  BY <1>1, <1>2, <1>4 DEF BInv

LEMMA StepFuture == TypeOK /\ FutureIsEmpty /\ [Next]_vars => FutureIsEmpty'
<1> SUFFICES ASSUME TypeOK, FutureIsEmpty, [Next]_vars PROVE FutureIsEmpty'
  OBVIOUS
<1>1. ASSUME NEW r \in Requests, ConsumeDaily(r) PROVE FutureIsEmpty'
  <2>1. \A d \in Dates : d \in Int /\ (d > day => d # day)
    BY DEF TypeOK, Dates
  <2>2. \A d \in Dates : d # day => daily'[d] = daily[d]
    BY <1>1 DEF ConsumeDaily, TypeOK
  <2>3. QED  BY <1>1, <2>1, <2>2 DEF ConsumeDaily, FutureIsEmpty
<1>2. CASE Midnight
  BY <1>2, LimiterAssumption DEF Midnight, FutureIsEmpty, TypeOK, Dates
<1>3. ASSUME daily' = daily /\ day' = day PROVE FutureIsEmpty'
  BY <1>3 DEF FutureIsEmpty
<1>4. QED
  BY <1>1, <1>2, <1>3 DEF Next, Step, Incr, Expire, CheckDailyTokens, CheckMonthlyTokens,
     ConsumeMonthly, Unserved, Fault, Second, vars

LEMMA StepBound == BInv /\ TypeOK' /\ [Next]_vars => DailyOvershootBounded'
<1> SUFFICES ASSUME TypeOK, TypeOK', FutureIsEmpty, DailyOvershootBounded, [Next]_vars
             PROVE  DailyOvershootBounded'
  BY DEF BInv
<1>u. /\ Cardinality(Uncounted) \in Nat /\ Cardinality(Requests) \in Nat
      /\ Cardinality(Uncounted) <= Cardinality(Requests)
  BY UncountedCount
<1>n. daily[day] \in Nat /\ MaxTokens \in Nat /\ DailyLimit \in Nat
  BY LimiterAssumption DEF TypeOK
<1>s. ASSUME pc' = pc, daily' = daily, day' = day PROVE DailyOvershootBounded'
  <2>1. Uncounted' = Uncounted
    BY <1>s DEF Uncounted
  <2>2. QED  BY <1>s, <1>u, <2>1, BoundKept
<1>l. ASSUME NEW r \in Requests, NEW stage \in {"idle", "expire", "daily", "charge"},
             Goto(r, stage), daily' = daily, day' = day
      PROVE  DailyOvershootBounded'
  BY <1>l, UncountedLeaves, BoundKept
<1>1. ASSUME NEW r \in Requests, Incr(r) PROVE DailyOvershootBounded'
  BY <1>1, <1>l DEF Incr, RpmVerdict
<1>2. ASSUME NEW r \in Requests, Expire(r) PROVE DailyOvershootBounded'
  BY <1>2, <1>l DEF Expire, RpmVerdict
<1>3. ASSUME NEW r \in Requests, CheckDailyTokens(r) PROVE DailyOvershootBounded'
  <2>1. CASE daily[day] >= DailyLimit
    BY <1>3, <1>l, <2>1 DEF CheckDailyTokens
  <2>2. CASE ~(daily[day] >= DailyLimit)
    <3>1. r \notin Uncounted /\ Uncounted' = Uncounted \cup {r}
      BY <1>3, <2>2 DEF CheckDailyTokens, Goto, Uncounted, TypeOK
    <3>2. Cardinality(Uncounted') = Cardinality(Uncounted) + 1
      BY <3>1, UncountedCount, FS_AddElement
    <3>3. Cardinality(Uncounted) + 1 <= Cardinality(Requests)
      BY <3>1, UncountedCount
    <3>4. daily[day] < DailyLimit /\ daily' = daily /\ day' = day
      BY <1>3, <1>n, <2>2 DEF CheckDailyTokens
    <3>5. daily[day] + MaxTokens * (Cardinality(Uncounted) + 1)
             < DailyLimit + MaxTokens * Cardinality(Requests)
      BY <1>n, <1>u, <3>3, <3>4, BelowLimit
    <3>6. QED  BY <3>2, <3>4, <3>5 DEF DailyOvershootBounded
  <2>3. QED  BY <2>1, <2>2
<1>4. ASSUME NEW r \in Requests, CheckMonthlyTokens(r) PROVE DailyOvershootBounded'
  <2>1. CASE Goto(r, "idle")
    BY <1>4, <1>l, <2>1 DEF CheckMonthlyTokens
  <2>2. CASE Goto(r, "serving")
    <3>1. Uncounted' = Uncounted
      BY <1>4, <2>2 DEF CheckMonthlyTokens, Goto, Uncounted, TypeOK
    <3>2. QED  BY <1>4, <1>u, <3>1, BoundKept DEF CheckMonthlyTokens
  <2>3. QED  BY <1>4, <2>1, <2>2 DEF CheckMonthlyTokens
<1>5. ASSUME NEW r \in Requests, ConsumeDaily(r) PROVE DailyOvershootBounded'
  <2> DEFINE u == Cardinality(Uncounted')
             n == Cardinality(Uncounted)
             N == Cardinality(Requests)
  <2>1. r \in Uncounted /\ Goto(r, "charge")
    BY <1>5 DEF ConsumeDaily, Uncounted
  <2>2. u \in Nat /\ u + 1 = n
    BY <2>1, UncountedLeaves
  <2>3. PICK tokens \in 0 .. MaxTokens : daily' = [daily EXCEPT ![day] = @ + tokens]
    BY <1>5 DEF ConsumeDaily
  <2>4. day' = day /\ daily'[day'] = daily[day] + tokens
    BY <1>5, <2>3 DEF ConsumeDaily, TypeOK
  <2>5. MaxTokens * n = MaxTokens * u + MaxTokens /\ MaxTokens * u \in Nat
    BY <1>n, <2>2, OneMore
  <2>6. MaxTokens * N \in Nat
    BY <1>n, <1>u
  <2>7. DailyLimit > 0 => daily[day] + MaxTokens * n < DailyLimit + MaxTokens * N
    BY DEF DailyOvershootBounded
  <2> HIDE DEF u, n, N
  <2>8. DailyLimit > 0 => daily'[day'] + MaxTokens * u < DailyLimit + MaxTokens * N
    BY <1>n, <2>4, <2>5, <2>6, <2>7
  <2>9. QED  BY <2>8 DEF DailyOvershootBounded, u, N
<1>6. ASSUME NEW r \in Requests, ConsumeMonthly(r) PROVE DailyOvershootBounded'
  BY <1>6, <1>l DEF ConsumeMonthly
<1>7. ASSUME NEW r \in Requests, Unserved(r) PROVE DailyOvershootBounded'
  BY <1>7, <1>l DEF Unserved
<1>8. ASSUME NEW r \in Requests, Fault(r) PROVE DailyOvershootBounded'
  BY <1>8, <1>l DEF Fault
<1>9. CASE Second
  BY <1>9, <1>s DEF Second
<1>10. CASE Midnight
  <2>1. daily'[day'] = 0 /\ Uncounted' = Uncounted
    <3>1. day + 1 \in Dates /\ day + 1 > day /\ day' = day + 1 /\ daily' = daily /\ pc' = pc
      BY <1>10, LimiterAssumption DEF Midnight, TypeOK, Dates
    <3>2. QED  BY <3>1 DEF FutureIsEmpty, Uncounted
  <2>2. DailyLimit > 0 => 0 + MaxTokens * Cardinality(Uncounted)
                              < DailyLimit + MaxTokens * Cardinality(Requests)
    BY <1>n, <1>u, BelowLimit
  <2>3. QED  BY <2>1, <2>2 DEF DailyOvershootBounded
<1>11. CASE UNCHANGED vars
  BY <1>11, <1>s DEF vars
<1>12. QED
  BY <1>1, <1>2, <1>3, <1>4, <1>5, <1>6, <1>7, <1>8, <1>9, <1>10, <1>11 DEF Next, Step

\* For every number of requests, limit and size of an answer, crashes
\* included: the overshoot of the daily limit is bounded.
THEOREM OvershootIsBounded == Spec => []DailyOvershootBounded
<1>1. BInv /\ [Next]_vars => BInv'
  BY StepType, StepFuture, StepBound DEF BInv
<1>2. BInv => DailyOvershootBounded
  BY DEF BInv
<1>3. QED  BY InitBound, <1>1, <1>2, PTL DEF Spec

-----------------------------------------------------------------------------
(* The expiry of the RPM counter. *)

\* Whatever the interleaving of requests, expiries and midnights, the RPM
\* counter is left without expiry only by a request that dies between INCR
\* and EXPIRE.
THEOREM OrphansAreOfTheDead == Spec => []OrphanedByDeath
<1> DEFINE EInv == TypeOK /\ OrphanedByDeath
<1>1. Init => EInv
  BY InitType DEF Init, OrphanedByDeath, Orphaned
<1>2. EInv /\ [Next]_vars => EInv'
  <2> SUFFICES ASSUME TypeOK, TypeOK', OrphanedByDeath, [Next]_vars
               PROVE  OrphanedByDeath'
    BY StepType DEF EInv
  <2> USE DEF OrphanedByDeath, Orphaned
  <2>k. ASSUME rpm' = rpm, died' = died,
               NEW r \in Requests, NEW stage, Goto(r, stage), pc[r] # "expire"
        PROVE  OrphanedByDeath'
    BY <2>k DEF Goto, TypeOK
  <2>1. ASSUME NEW r \in Requests, Incr(r) PROVE OrphanedByDeath'
    <3> DEFINE count == IF rpm.count <= RpmLimit + 1 THEN rpm.count + 1 ELSE rpm.count
    <3>1. rpm.count \in Nat /\ rpm'.ttl = rpm.ttl /\ pc[r] = "idle" /\ died' = died
      BY <2>1 DEF Incr, TypeOK
    <3>2. CASE count = 1
      BY <2>1, <3>2 DEF Incr, Goto, TypeOK
    <3>3. CASE count # 1
      <4>1. rpm.count > 0
        BY <3>1, <3>3, LimiterAssumption
      <4>2. \A q \in Requests : pc[q] = "expire" => pc'[q] = "expire"
        BY <2>1, <3>1, <3>3 DEF Incr, RpmVerdict, Goto, TypeOK
      <4>3. QED  BY <3>1, <4>1, <4>2
    <3>4. QED  BY <3>2, <3>3
  <2>2. ASSUME NEW r \in Requests, Expire(r) PROVE OrphanedByDeath'
    <3>1. rpm'.ttl = Window
      BY <2>2 DEF Expire, TypeOK
    <3>2. QED  BY <3>1, LimiterAssumption DEF Forever
  <2>3. ASSUME NEW r \in Requests,
               \/ CheckDailyTokens(r) \/ CheckMonthlyTokens(r) \/ ConsumeDaily(r)
               \/ ConsumeMonthly(r) \/ Unserved(r)
        PROVE  OrphanedByDeath'
    BY <2>3, <2>k DEF CheckDailyTokens, CheckMonthlyTokens, ConsumeDaily, ConsumeMonthly,
       Unserved
  <2>4. ASSUME NEW r \in Requests, Fault(r) PROVE OrphanedByDeath'
    <3>1. CASE pc[r] = "expire"
      BY <2>4, <3>1 DEF Fault
    <3>2. CASE pc[r] # "expire"
      <4>1. /\ rpm' = rpm /\ died \subseteq died'
            /\ \A q \in Requests : pc[q] = "expire" => pc'[q] = "expire"
        BY <2>4, <3>2 DEF Fault, Goto, TypeOK
      <4>2. QED  BY <4>1
    <3>3. QED  BY <3>1, <3>2
  <2>5. CASE Second
    <3>1. pc' = pc /\ died' = died /\ (rpm.ttl = Forever => rpm' = rpm)
      BY <2>5 DEF Second
    <3>2. rpm.ttl # Forever => rpm'.count = 0 \/ rpm'.ttl # Forever
      <4>1. rpm.ttl \in 1 .. Forever /\ Forever \in Nat
        BY LimiterAssumption DEF TypeOK, Forever
      <4>2. CASE rpm.ttl # Forever /\ rpm.ttl = 1
        BY <2>5, <4>2 DEF Second
      <4>3. CASE rpm.ttl # Forever /\ rpm.ttl # 1
        BY <2>5, <4>1, <4>3 DEF Second, TypeOK
      <4>4. QED  BY <4>2, <4>3
    <3>3. QED  BY <3>1, <3>2
  <2>6. CASE Midnight
    BY <2>6 DEF Midnight
  <2>7. CASE UNCHANGED vars
    BY <2>7 DEF vars
  <2>8. QED  BY <2>1, <2>2, <2>3, <2>4, <2>5, <2>6, <2>7 DEF Next, Step
<1>3. QED  BY <1>1, <1>2, PTL DEF Spec, EInv

-----------------------------------------------------------------------------
(***************************************************************************)
(* Sums.  The totals of the books are folds over finite sets: a total      *)
(* without one of its terms is smaller by that term, whatever the fold's   *)
(* order.  The provers have no induction over operators, but every set of  *)
(* numbers has a least one.                                                *)
(***************************************************************************)

Total(f, S) == MapThenSumSet(LAMBDA x : f[x], S)

\* The function the fold is defined by, and its order.
Chosen(s) == CHOOSE x \in s : TRUE
Adds(g, f, S) == g = [s \in SUBSET S |-> IF s = {} THEN 0 ELSE f[Chosen(s)] + g[s \ {Chosen(s)}]]

\* A set of numbers that has 0, and the next of each, has all.
LEMMA AllNumbers ==
    ASSUME NEW T, 0 \in T, \A n \in Nat : n \in T => n + 1 \in T
    PROVE  \A n \in Nat : n \in T
<1> DEFINE Missing == Nat \ T
<1> SUFFICES ASSUME Missing # {} PROVE FALSE
  OBVIOUS
<1>1. PICK m \in Missing : \A n \in Missing : ~(<<n, m>> \in OpToRel(<, Nat))
  BY NatLessThanWellFounded, WFMin
<1>2. \A n \in Missing : ~(n < m)
  BY <1>1 DEF OpToRel
<1>3. m # 0 /\ m - 1 \in Nat /\ m - 1 < m
  OBVIOUS
<1> QED
  BY <1>2, <1>3

LEMMA Choice == \A s : s # {} => Chosen(s) \in s
  BY Zenon DEF Chosen

\* The subsets of a finite set, and what they are without an element.
LEMMA Subsets ==
    ASSUME NEW S, IsFiniteSet(S)
    PROVE  \A s \in SUBSET S : /\ IsFiniteSet(s) /\ Cardinality(s) \in Nat
                               /\ s # {} => Cardinality(s) > 0
                               /\ \A x \in s : s \ {x} \in SUBSET S /\ Cardinality(s \ {x}) = Cardinality(s) - 1
<1> SUFFICES ASSUME NEW s \in SUBSET S
             PROVE  /\ IsFiniteSet(s) /\ Cardinality(s) \in Nat
                    /\ s # {} => Cardinality(s) > 0
                    /\ \A x \in s : s \ {x} \in SUBSET S /\ Cardinality(s \ {x}) = Cardinality(s) - 1
  OBVIOUS
<1>1. IsFiniteSet(s)
  BY FS_Subset
<1>2. Cardinality(s) \in Nat
  BY <1>1, FS_CardinalityType
<1>3. s # {} => Cardinality(s) > 0
<2>1. s # {} => Cardinality(s) # 0
  BY <1>1, FS_EmptySet, Zenon
<2> QED
  BY <1>2, <2>1
<1> QED
  BY <1>1, <1>2, <1>3, FS_RemoveElement

\* There is such a function.
LEMMA AddsExists ==
    ASSUME NEW S, IsFiniteSet(S), NEW f \in [S -> Nat]
    PROVE  \E g \in [SUBSET S -> Nat] : Adds(g, f, S)
<1> DEFINE Rule(g, s) == g[s] = IF s = {} THEN 0 ELSE f[Chosen(s)] + g[s \ {Chosen(s)}]
           T == {n \in Nat : \E g \in [SUBSET S -> Nat] : \A s \in SUBSET S : Cardinality(s) <= n => Rule(g, s)}
<1>0. \A s \in SUBSET S : /\ IsFiniteSet(s) /\ Cardinality(s) \in Nat /\ (s # {} => Cardinality(s) > 0)
                          /\ s # {} => /\ Chosen(s) \in s /\ s \ {Chosen(s)} \in SUBSET S
                                       /\ Cardinality(s \ {Chosen(s)}) = Cardinality(s) - 1
  BY Subsets, Choice
<1>1. 0 \in T
<2> DEFINE g == [s \in SUBSET S |-> 0]
<2>1. ASSUME NEW s \in SUBSET S, Cardinality(s) <= 0 PROVE s = {}
<3>1. Cardinality(s) \in Nat /\ (s # {} => Cardinality(s) > 0)
  BY <1>0, Zenon
<3> QED
  BY <2>1, <3>1
<2>2. g \in [SUBSET S -> Nat] /\ \A s \in SUBSET S : Cardinality(s) <= 0 => Rule(g, s)
  BY <2>1
<2> QED
  BY <2>2
<1>2. ASSUME NEW n \in Nat, n \in T PROVE n + 1 \in T
<2>1. PICK g \in [SUBSET S -> Nat] : \A s \in SUBSET S : Cardinality(s) <= n => Rule(g, s)
  BY <1>2
<2> DEFINE h == [s \in SUBSET S |-> IF Cardinality(s) = n + 1 THEN f[Chosen(s)] + g[s \ {Chosen(s)}] ELSE g[s]]
<2>2. \A s \in SUBSET S : Cardinality(s) = n + 1 => s # {}
<3>1. Cardinality({}) = 0
  BY FS_EmptySet
<3>2. n + 1 # 0
  OBVIOUS
<3> QED
  BY <3>1, <3>2, Zenon
<2>3. h \in [SUBSET S -> Nat]
<3> SUFFICES ASSUME NEW s \in SUBSET S PROVE h[s] \in Nat
  OBVIOUS
<3>1. s # {} => Chosen(s) \in s /\ s \ {Chosen(s)} \in SUBSET S
  BY <1>0, Zenon
<3> QED
  BY <2>2, <3>1
<2>4. ASSUME NEW s \in SUBSET S, Cardinality(s) <= n + 1 PROVE Rule(h, s)
<3>0. /\ Cardinality(s) \in Nat
      /\ s # {} => /\ s \ {Chosen(s)} \in SUBSET S
                   /\ Cardinality(s \ {Chosen(s)}) = Cardinality(s) - 1
  BY <1>0, Zenon
<3>1. s # {} => h[s \ {Chosen(s)}] = g[s \ {Chosen(s)}]
  BY <2>4, <3>0
<3>2. CASE Cardinality(s) = n + 1
<4>1. s # {} /\ h[s] = f[Chosen(s)] + g[s \ {Chosen(s)}]
  BY <2>2, <3>2
<4> HIDE DEF h
<4> QED
  BY <3>1, <4>1
<3>3. CASE Cardinality(s) # n + 1
<4>1. h[s] = g[s] /\ Cardinality(s) <= n
  BY <2>4, <3>0, <3>3
<4> HIDE DEF h
<4>2. Rule(g, s)
  BY <2>1, <4>1, Zenon
<4> QED
  BY <3>1, <4>1, <4>2, Zenon
<3> QED
  BY <3>2, <3>3
<2>5. \E k \in [SUBSET S -> Nat] : \A s \in SUBSET S : Cardinality(s) <= n + 1 => Rule(k, s)
<3> HIDE DEF h, Rule
<3> QED
  BY <2>3, <2>4
<2>6. n + 1 \in Nat
  OBVIOUS
<2> QED
  BY <2>5, <2>6, Zenon
<1> HIDE DEF T
<1>3. Cardinality(S) \in Nat /\ Cardinality(S) \in T
  BY <1>0, <1>1, <1>2, AllNumbers
<1>4. PICK g \in [SUBSET S -> Nat] : \A s \in SUBSET S : Cardinality(s) <= Cardinality(S) => Rule(g, s)
  BY <1>3 DEF T
<1>5. \A s \in SUBSET S : Rule(g, s)
  BY <1>4, FS_Subset
<1>6. Adds(g, f, S)
  BY <1>5 DEF Adds
<1> QED
  BY <1>6

\* The fold of a subset is the function's value.
LEMMA AddsTotal ==
    ASSUME NEW S, IsFiniteSet(S), NEW f \in [S -> Nat], NEW g \in [SUBSET S -> Nat], Adds(g, f, S),
           NEW t \in SUBSET S
    PROVE  Total(f, t) = g[t]
<1>1. PICK h : Adds(h, f, t) /\ Total(f, t) = h[t]
<2>1. \E k : Adds(k, f, t)
<3> DEFINE ft == [x \in t |-> f[x]]
<3>1. IsFiniteSet(t) /\ ft \in [t -> Nat]
  BY FS_Subset
<3>2. PICK k \in [SUBSET t -> Nat] : Adds(k, ft, t)
  BY <3>1, AddsExists
<3>3. \A s \in SUBSET t : s # {} => f[Chosen(s)] = ft[Chosen(s)]
  BY Choice
<3> HIDE DEF ft
<3>4. Adds(k, f, t)
  BY <3>2, <3>3 DEF Adds
<3> QED
  BY <3>4
<2>2. PICK k : Adds(k, f, t)
  BY <2>1
<2> DEFINE h == CHOOSE h : h = [s \in SUBSET t |-> IF s = {} THEN 0
                                                  ELSE f[CHOOSE x \in s : TRUE] + h[s \ {CHOOSE x \in s : TRUE}]]
<2>3. Total(f, t) = h[t]
  BY Zenon DEF Total, MapThenSumSet, MapThenFoldSet
<2>4. Adds(h, f, t)
<3>1. k = [s \in SUBSET t |-> IF s = {} THEN 0 ELSE f[CHOOSE x \in s : TRUE] + k[s \ {CHOOSE x \in s : TRUE}]]
  BY <2>2, Zenon DEF Adds, Chosen
<3>2. h = [s \in SUBSET t |-> IF s = {} THEN 0 ELSE f[CHOOSE x \in s : TRUE] + h[s \ {CHOOSE x \in s : TRUE}]]
  BY <3>1, Zenon
<3> QED
  BY <3>2, Zenon DEF Adds, Chosen
<2> QED
  BY <2>3, <2>4
<1> DEFINE T == {n \in Nat : \A s \in SUBSET t : Cardinality(s) <= n => h[s] = g[s]}
<1>0. \A s \in SUBSET t : /\ s \in SUBSET S /\ Cardinality(s) \in Nat /\ (s # {} => Cardinality(s) > 0)
                          /\ s # {} => /\ Chosen(s) \in s /\ s \ {Chosen(s)} \in SUBSET t
                                       /\ Cardinality(s \ {Chosen(s)}) = Cardinality(s) - 1
  BY Subsets, Choice
<1>2. /\ \A s \in SUBSET t : h[s] = IF s = {} THEN 0 ELSE f[Chosen(s)] + h[s \ {Chosen(s)}]
      /\ \A s \in SUBSET S : g[s] = IF s = {} THEN 0 ELSE f[Chosen(s)] + g[s \ {Chosen(s)}]
  BY <1>1 DEF Adds
<1>3. 0 \in T
<2>1. ASSUME NEW s \in SUBSET t, Cardinality(s) <= 0 PROVE s = {}
<3>1. Cardinality(s) \in Nat /\ (s # {} => Cardinality(s) > 0)
  BY <1>0, Zenon
<3> QED
  BY <2>1, <3>1
<2> QED
  BY <1>2, <2>1
<1>4. ASSUME NEW n \in Nat, n \in T PROVE n + 1 \in T
<2> SUFFICES ASSUME NEW s \in SUBSET t, Cardinality(s) <= n + 1 PROVE h[s] = g[s]
  OBVIOUS
<2>1. CASE s = {}
  BY <1>2, <2>1
<2>2. CASE s # {}
<3>1. s \ {Chosen(s)} \in SUBSET t /\ Cardinality(s \ {Chosen(s)}) <= n /\ s \in SUBSET S
  BY <1>0, <2>2
<3>2. h[s \ {Chosen(s)}] = g[s \ {Chosen(s)}]
  BY <1>4, <3>1
<3> QED
  BY <1>2, <2>2, <3>1, <3>2
<2> QED
  BY <2>1, <2>2
<1> HIDE DEF T
<1>5. Cardinality(t) \in Nat /\ Cardinality(t) \in T
  BY <1>0, <1>3, <1>4, AllNumbers
<1>6. h[t] = g[t]
  BY <1>5 DEF T
<1> QED
  BY <1>1, <1>6

\* A total without one of its terms is smaller by that term.
LEMMA TotalWithout ==
    ASSUME NEW S, IsFiniteSet(S), NEW f \in [S -> Nat]
    PROVE  /\ Total(f, {}) = 0
           /\ \A t \in SUBSET S : Total(f, t) \in Nat /\ \A x \in t : Total(f, t) = f[x] + Total(f, t \ {x})
<1>1. PICK g \in [SUBSET S -> Nat] : Adds(g, f, S)
  BY AddsExists
<1>2. \A t \in SUBSET S : Total(f, t) = g[t]
  BY <1>1, AddsTotal
<1>3. \A s \in SUBSET S : g[s] = IF s = {} THEN 0 ELSE f[Chosen(s)] + g[s \ {Chosen(s)}]
  BY <1>1 DEF Adds
<1> DEFINE T == {n \in Nat : \A t \in SUBSET S : Cardinality(t) <= n => \A x \in t : g[t] = f[x] + g[t \ {x}]}
<1>4. \A t \in SUBSET S : /\ Cardinality(t) \in Nat /\ (t # {} => Cardinality(t) > 0)
                          /\ \A x \in t : t \ {x} \in SUBSET S /\ Cardinality(t \ {x}) = Cardinality(t) - 1
  BY Subsets
<1>5. 0 \in T
  BY <1>4
<1>6. ASSUME NEW n \in Nat, n \in T PROVE n + 1 \in T
<2> SUFFICES ASSUME NEW t \in SUBSET S, Cardinality(t) <= n + 1, NEW x \in t PROVE g[t] = f[x] + g[t \ {x}]
  OBVIOUS
<2> DEFINE y == Chosen(t)
<2>1. y \in t /\ g[t] = f[y] + g[t \ {y}]
  BY <1>3, Choice
<2> HIDE DEF y
<2>2. CASE x = y
  BY <2>1, <2>2
<2>3. CASE x # y
<3>1. t \ {x} \in SUBSET S /\ t \ {y} \in SUBSET S /\ Cardinality(t \ {x}) <= n /\ Cardinality(t \ {y}) <= n
  BY <1>4, <2>1
<3>2. x \in t \ {y} /\ y \in t \ {x} /\ (t \ {x}) \ {y} = (t \ {y}) \ {x} /\ (t \ {x}) \ {y} \in SUBSET S
  BY <2>1, <2>3
<3>3. g[t \ {x}] = f[y] + g[(t \ {x}) \ {y}]
  BY <1>6, <3>1, <3>2
<3>4. g[t \ {y}] = f[x] + g[(t \ {y}) \ {x}]
  BY <1>6, <3>1, <3>2
<3>5. f[x] \in Nat /\ f[y] \in Nat /\ g[(t \ {x}) \ {y}] \in Nat
  BY <2>1, <3>2
<3>6. g[t] = f[y] + (f[x] + g[(t \ {x}) \ {y}])
  BY <2>1, <3>2, <3>4, Zenon
<3>7. f[x] + g[t \ {x}] = f[x] + (f[y] + g[(t \ {x}) \ {y}])
  BY <3>3, Zenon
<3> HIDE DEF T
<3> QED
  BY <3>5, <3>6, <3>7
<2> QED
  BY <2>2, <2>3
<1> HIDE DEF T
<1>7. \A t \in SUBSET S : \A x \in t : g[t] = f[x] + g[t \ {x}]
<2>1. \A n \in Nat : n \in T
  BY <1>5, <1>6, AllNumbers
<2>2. \A n \in Nat, t \in SUBSET S : Cardinality(t) <= n => \A x \in t : g[t] = f[x] + g[t \ {x}]
  BY <2>1, Zenon DEF T
<2>3. \A t \in SUBSET S : Cardinality(t) \in Nat /\ Cardinality(t) <= Cardinality(t)
  BY <1>4
<2> QED
  BY <2>2, <2>3, Zenon
<1>8. ASSUME NEW t \in SUBSET S PROVE Total(f, t) \in Nat /\ \A x \in t : Total(f, t) = f[x] + Total(f, t \ {x})
  BY <1>2, <1>4, <1>7
<1> QED
  BY <1>2, <1>3, <1>8

LEMMA TotalOfOneMore ==
    ASSUME NEW S, IsFiniteSet(S), NEW f, f \in [S -> Nat], NEW t, t \subseteq S, NEW x, x \in t
    PROVE  Total(f, t) = f[x] + Total(f, t \ {x})
<1>1. t \in SUBSET S
  OBVIOUS
<1> QED
  BY <1>1, TotalWithout

\* Equal terms have equal totals.
LEMMA TotalSame ==
    ASSUME NEW S, IsFiniteSet(S), NEW f \in [S -> Nat], NEW h \in [S -> Nat], NEW t \in SUBSET S,
           \A x \in t : f[x] = h[x]
    PROVE  Total(f, t) = Total(h, t)
<1>0. \A s \in SUBSET t : /\ s \in SUBSET S /\ Cardinality(s) \in Nat /\ (s # {} => Cardinality(s) > 0)
                          /\ \A x \in s : s \ {x} \in SUBSET t /\ Cardinality(s \ {x}) = Cardinality(s) - 1
  BY Subsets
<1> DEFINE T == {n \in Nat : \A s \in SUBSET t : Cardinality(s) <= n => Total(f, s) = Total(h, s)}
<1>1. 0 \in T
<2>1. ASSUME NEW s \in SUBSET t, Cardinality(s) <= 0 PROVE s = {}
<3>1. Cardinality(s) \in Nat /\ (s # {} => Cardinality(s) > 0)
  BY <1>0, Zenon
<3> QED
  BY <2>1, <3>1
<2>2. Total(f, {}) = 0 /\ Total(h, {}) = 0
  BY TotalWithout
<2> QED
  BY <2>1, <2>2
<1>2. ASSUME NEW n \in Nat, n \in T PROVE n + 1 \in T
<2> SUFFICES ASSUME NEW s \in SUBSET t, Cardinality(s) <= n + 1 PROVE Total(f, s) = Total(h, s)
  OBVIOUS
<2>1. CASE s = {}
  BY <2>1, TotalWithout, Zenon
<2>2. CASE s # {}
<3>1. PICK x \in s : TRUE
  BY <2>2
<3>2. s \in SUBSET S /\ s \ {x} \in SUBSET t /\ Cardinality(s \ {x}) <= n
  BY <1>0
<3>3. Total(f, s \ {x}) = Total(h, s \ {x})
  BY <1>2, <3>2
<3>4. Total(f, s) = f[x] + Total(f, s \ {x}) /\ Total(h, s) = h[x] + Total(h, s \ {x})
  BY <3>2, TotalWithout
<3>5. f[x] = h[x]
  OBVIOUS
<3> QED
  BY <3>3, <3>4, <3>5
<2> QED
  BY <2>1, <2>2
<1> HIDE DEF T
<1>3. Cardinality(t) \in Nat /\ Cardinality(t) \in T
  BY <1>0, <1>1, <1>2, AllNumbers
<1> QED
  BY <1>3 DEF T

\* One term changed.
LEMMA TotalChanged ==
    ASSUME NEW S, IsFiniteSet(S), NEW f, f \in [S -> Nat], NEW h, h \in [S -> Nat],
           NEW x, x \in S, \A y \in S : y # x => h[y] = f[y]
    PROVE  Total(h, S) + f[x] = Total(f, S) + h[x]
<1>2. S \in SUBSET S /\ S \ {x} \in SUBSET S
  OBVIOUS
<1>3. /\ Total(f, S) \in Nat /\ Total(f, S \ {x}) \in Nat /\ Total(f, S) = f[x] + Total(f, S \ {x})
  BY <1>2, TotalWithout
<1>4. /\ Total(h, S) \in Nat /\ Total(h, S \ {x}) \in Nat /\ Total(h, S) = h[x] + Total(h, S \ {x})
  BY <1>2, TotalWithout
<1>5. Total(f, S \ {x}) = Total(h, S \ {x})
  BY <1>2, TotalSame
<1>6. f[x] \in Nat /\ h[x] \in Nat
  OBVIOUS
<1> QED
  BY <1>3, <1>4, <1>5, <1>6

\* Nothing adds up to nothing.
LEMMA TotalNothing ==
    ASSUME NEW S, IsFiniteSet(S), NEW f, f = [x \in S |-> 0]
    PROVE  Total(f, S) = 0
<1> DEFINE T == {n \in Nat : \A s \in SUBSET S : Cardinality(s) <= n => Total(f, s) = 0}
<1>0. /\ f \in [S -> Nat] /\ \A x \in S : f[x] = 0
      /\ \A s \in SUBSET S : /\ Cardinality(s) \in Nat /\ (s # {} => Cardinality(s) > 0)
                             /\ \A x \in s : s \ {x} \in SUBSET S /\ Cardinality(s \ {x}) = Cardinality(s) - 1
  BY Subsets
<1>1. 0 \in T
<2>1. ASSUME NEW s \in SUBSET S, Cardinality(s) <= 0 PROVE s = {}
<3>1. Cardinality(s) \in Nat /\ (s # {} => Cardinality(s) > 0)
  BY <1>0, Zenon
<3> QED
  BY <2>1, <3>1
<2>2. Total(f, {}) = 0
  BY <1>0, TotalWithout
<2> QED
  BY <2>1, <2>2
<1>2. ASSUME NEW n \in Nat, n \in T PROVE n + 1 \in T
<2> SUFFICES ASSUME NEW s \in SUBSET S, Cardinality(s) <= n + 1 PROVE Total(f, s) = 0
  OBVIOUS
<2>1. CASE s = {}
  BY <2>1, <1>0, TotalWithout
<2>2. CASE s # {}
<3>1. PICK x \in s : TRUE
  BY <2>2
<3>2. s \ {x} \in SUBSET S /\ Cardinality(s \ {x}) <= n
  BY <1>0
<3>3. Total(f, s \ {x}) = 0
  BY <1>2, <3>2
<3>4. Total(f, s) = f[x] + Total(f, s \ {x})
  BY <1>0, <3>1, TotalWithout
<3> QED
  BY <1>0, <3>3, <3>4
<2> QED
  BY <2>1, <2>2
<1> HIDE DEF T
<1>3. Cardinality(S) \in Nat /\ Cardinality(S) \in T
  BY <1>0, <1>1, <1>2, AllNumbers
<1> QED
  BY <1>3 DEF T
-----------------------------------------------------------------------------
(***************************************************************************)
(* The two books.  What the requests between the two counters owe is what  *)
(* the days are ahead of the months, but for what has died there.          *)
(***************************************************************************)

LEMMA DatesAreFinite == IsFiniteSet(Dates) /\ IsFiniteSet(Months)
<1>1. IsFiniteSet(Dates)
  BY LimiterAssumption, FS_Interval DEF Dates
<1>2. IsFiniteSet(Months)
<2> DEFINE month == [d \in Dates |-> MonthOf(d)]
<2>1. month \in Surjection(Dates, Months)
  BY DEF Surjection, Months
<2> QED
  BY <1>1, <2>1, FS_Surjection
<1> QED
  BY <1>1, <1>2

LEMMA BooksAreTotals ==
    /\ TotalDaily = Total(daily, Dates) /\ TotalMonthly = Total(monthly, Months)
    /\ MapThenSumSet(LAMBDA r : owed[r], Requests) = Total(owed, Requests)
  BY Zenon DEF TotalDaily, TotalMonthly, Total

BooksInv ==
    /\ TypeOK
    /\ \A r \in Requests : pc[r] # "charge" => owed[r] = 0
    /\ Total(monthly, Months) + Total(owed, Requests) <= Total(daily, Dates)
    /\ "charge" \notin died => Total(daily, Dates) = Total(monthly, Months) + Total(owed, Requests)

LEMMA InitBooks == Init => BooksInv
<1> SUFFICES ASSUME Init PROVE BooksInv
  OBVIOUS
<1>1. TypeOK
  BY InitType
<1>2. daily = [d \in Dates |-> 0] /\ monthly = [m \in Months |-> 0] /\ owed = [r \in Requests |-> 0]
  BY Zenon DEF Init
<1>3. Total(daily, Dates) = 0 /\ Total(monthly, Months) = 0 /\ Total(owed, Requests) = 0
  BY <1>2, DatesAreFinite, LimiterAssumption, TotalNothing
<1>4. \A r \in Requests : owed[r] = 0
  BY <1>2
<1> QED
  BY <1>1, <1>3, <1>4 DEF BooksInv

LEMMA StepBooks == BooksInv /\ [Next]_vars => BooksInv'
<1> SUFFICES ASSUME BooksInv, [Next]_vars PROVE BooksInv'
  OBVIOUS
<1>t. TypeOK /\ TypeOK'
  BY StepType DEF BooksInv
<1> DEFINE D == Total(daily, Dates)
           M == Total(monthly, Months)
           O == Total(owed, Requests)
           DD == Total(daily', Dates)
           MM == Total(monthly', Months)
           OO == Total(owed', Requests)
           Cleared == \A r \in Requests : pc'[r] # "charge" => owed'[r] = 0
<1>i. /\ \A r \in Requests : pc[r] # "charge" => owed[r] = 0
      /\ M + O <= D /\ ("charge" \notin died => D = M + O)
  BY DEF BooksInv
<1>n. D \in Nat /\ M \in Nat /\ O \in Nat
<2>1. daily \in [Dates -> Nat] /\ monthly \in [Months -> Nat] /\ owed \in [Requests -> Nat]
  BY <1>t, LimiterAssumption DEF TypeOK
<2>2. Dates \in SUBSET Dates /\ Months \in SUBSET Months /\ Requests \in SUBSET Requests
  OBVIOUS
<2> QED
  BY <2>1, <2>2, DatesAreFinite, LimiterAssumption, TotalWithout
<1>q. SUFFICES Cleared /\ MM + OO <= DD /\ ("charge" \notin died' => DD = MM + OO)
  BY <1>t DEF BooksInv
<1>f. daily \in [Dates -> Nat] /\ monthly \in [Months -> Nat] /\ owed \in [Requests -> Nat] /\ pc \in [Requests -> Stage]
  BY <1>t, LimiterAssumption DEF TypeOK
<1>p. /\ daily' \in [Dates -> Nat] /\ monthly' \in [Months -> Nat] /\ owed' \in [Requests -> Nat]
      /\ IsFiniteSet(Dates) /\ IsFiniteSet(Months) /\ IsFiniteSet(Requests)
  BY <1>t, LimiterAssumption, DatesAreFinite DEF TypeOK
<1>m. DD \in Nat /\ MM \in Nat /\ OO \in Nat
<2>1. Dates \in SUBSET Dates /\ Months \in SUBSET Months /\ Requests \in SUBSET Requests
  OBVIOUS
<2> QED
  BY <1>p, <2>1, TotalWithout
<1>g. \A r \in Requests : \A stage : Goto(r, stage) => pc'[r] = stage /\ \A q \in Requests : q # r => pc'[q] = pc[q]
  BY <1>f DEF Goto
<1>d. ASSUME NEW d, d \in Dates, \A e \in Dates : e # d => daily'[e] = daily[e]
      PROVE  DD + daily[d] = D + daily'[d]
<2>1. daily \in [Dates -> Nat] /\ daily' \in [Dates -> Nat] /\ IsFiniteSet(Dates)
  BY <1>f, <1>p
<2> QED
  BY <1>d, <2>1, TotalChanged
<1>e. ASSUME NEW d, d \in Months, \A e \in Months : e # d => monthly'[e] = monthly[e]
      PROVE  MM + monthly[d] = M + monthly'[d]
<2>1. monthly \in [Months -> Nat] /\ monthly' \in [Months -> Nat] /\ IsFiniteSet(Months)
  BY <1>f, <1>p
<2> QED
  BY <1>e, <2>1, TotalChanged
<1>o. ASSUME NEW d, d \in Requests, \A e \in Requests : e # d => owed'[e] = owed[e]
      PROVE  OO + owed[d] = O + owed'[d]
<2>1. owed \in [Requests -> Nat] /\ owed' \in [Requests -> Nat] /\ IsFiniteSet(Requests)
  BY <1>f, <1>p
<2> QED
  BY <1>o, <2>1, TotalChanged
<1> HIDE DEF D, M, O, DD, MM, OO
<1>u. ASSUME daily' = daily, monthly' = monthly, owed' = owed PROVE DD = D /\ MM = M /\ OO = O
  BY <1>u, Zenon DEF D, M, O, DD, MM, OO
<1>k. ASSUME daily' = daily, monthly' = monthly, owed' = owed, died' = died, Cleared
      PROVE  Cleared /\ MM + OO <= DD /\ ("charge" \notin died' => DD = MM + OO)
  BY <1>i, <1>k, <1>u, Zenon
<1>1. ASSUME NEW r \in Requests, Incr(r) \/ Expire(r) \/ CheckDailyTokens(r) \/ CheckMonthlyTokens(r) \/ Unserved(r)
      PROVE  Cleared /\ MM + OO <= DD /\ ("charge" \notin died' => DD = MM + OO)
<2>1. /\ daily' = daily /\ monthly' = monthly /\ owed' = owed /\ died' = died /\ pc[r] # "charge"
      /\ \E stage : Goto(r, stage)
  BY <1>1 DEF Incr, Expire, RpmVerdict, CheckDailyTokens, CheckMonthlyTokens, Unserved
<2>2. Cleared
  BY <1>g, <1>i, <2>1, Zenon
<2> QED
  BY <1>k, <2>1, <2>2, Zenon
<1>2. ASSUME NEW r \in Requests, ConsumeDaily(r)
      PROVE  Cleared /\ MM + OO <= DD /\ ("charge" \notin died' => DD = MM + OO)
<2>1. PICK tokens \in 0 .. MaxTokens : /\ daily' = [daily EXCEPT ![day] = @ + tokens]
                                       /\ owed' = [owed EXCEPT ![r] = tokens]
  BY <1>2, Zenon DEF ConsumeDaily
<2>2. pc[r] = "serving" /\ Goto(r, "charge") /\ monthly' = monthly /\ died' = died /\ day \in Dates /\ tokens \in Nat
  BY <1>2, <1>t, LimiterAssumption DEF ConsumeDaily, TypeOK
<2>3. owed[r] = 0
  BY <1>i, <2>2
<2>4. daily' = [daily EXCEPT ![day] = daily[day] + tokens] /\ daily[day] \in Nat /\ daily[day] + tokens \in Nat
  BY <1>f, <2>1, <2>2
<2>5. DD + daily[day] = D + (daily[day] + tokens)
<3>1. daily'[day] = daily[day] + tokens /\ \A e \in Dates : e # day => daily'[e] = daily[e]
  BY <1>f, <2>2, <2>4
<3> QED
  BY <1>d, <2>2, <3>1, Zenon
<2>6. OO + owed[r] = O + tokens
<3>1. owed'[r] = tokens /\ \A e \in Requests : e # r => owed'[e] = owed[e]
  BY <1>f, <2>1
<3> QED
  BY <1>o, <3>1, Zenon
<2>7. MM = M
  BY <2>2, Zenon DEF M, MM
<2>8. Cleared
  BY <1>f, <1>g, <1>i, <2>1, <2>2
<2>9. tokens \in Nat /\ DD = D + tokens
  BY <1>n, <1>m, <2>2, <2>4, <2>5
<2>10. OO = O + tokens
  BY <1>n, <1>m, <2>2, <2>3, <2>6
<2>11. MM + OO <= DD
  BY <1>i, <1>n, <2>7, <2>9, <2>10
<2>12. D = M + O => DD = MM + OO
  BY <1>n, <2>7, <2>9, <2>10
<2> QED
  BY <1>i, <2>2, <2>8, <2>11, <2>12, Zenon
<1>3. ASSUME NEW r \in Requests, ConsumeMonthly(r)
      PROVE  Cleared /\ MM + OO <= DD /\ ("charge" \notin died' => DD = MM + OO)
<2> DEFINE m == MonthOf(day)
<2>1. /\ monthly' = [monthly EXCEPT ![m] = @ + owed[r]] /\ owed' = [owed EXCEPT ![r] = 0]
      /\ Goto(r, "idle") /\ daily' = daily /\ died' = died
  BY <1>3, Zenon DEF ConsumeMonthly
<2>2. m \in Months /\ owed[r] \in Nat
  BY <1>f, <1>t, DatesAndMonths DEF TypeOK
<2> HIDE DEF m
<2>3. /\ monthly' = [monthly EXCEPT ![m] = monthly[m] + owed[r]] /\ monthly[m] \in Nat /\ monthly[m] + owed[r] \in Nat
  BY <1>f, <2>1, <2>2
<2>4. MM + monthly[m] = M + (monthly[m] + owed[r])
<3>1. monthly'[m] = monthly[m] + owed[r] /\ \A e \in Months : e # m => monthly'[e] = monthly[e]
  BY <1>f, <2>2, <2>3
<3> QED
  BY <1>e, <2>2, <3>1, Zenon
<2>5. OO + owed[r] = O + 0
<3>1. owed'[r] = 0 /\ \A e \in Requests : e # r => owed'[e] = owed[e]
  BY <1>f, <2>1
<3> QED
  BY <1>o, <3>1, Zenon
<2>6. DD = D
  BY <2>1, Zenon DEF D, DD
<2>7. Cleared
  BY <1>f, <1>g, <1>i, <2>1
<2>8. MM + OO = M + O
  BY <1>n, <1>m, <2>2, <2>3, <2>4, <2>5
<2> QED
  BY <1>i, <2>1, <2>6, <2>7, <2>8, Zenon
<1>4. ASSUME NEW r \in Requests, Fault(r)
      PROVE  Cleared /\ MM + OO <= DD /\ ("charge" \notin died' => DD = MM + OO)
<2>1. /\ owed' = [owed EXCEPT ![r] = 0] /\ Goto(r, "idle") /\ daily' = daily /\ monthly' = monthly
      /\ died' = died \cup {pc[r]}
  BY <1>4, Zenon DEF Fault
<2>2. owed[r] \in Nat
  BY <1>f
<2>3. OO + owed[r] = O + 0
<3>1. owed'[r] = 0 /\ \A e \in Requests : e # r => owed'[e] = owed[e]
  BY <1>f, <2>1
<3> QED
  BY <1>o, <3>1, Zenon
<2>4. DD = D /\ MM = M
  BY <2>1, Zenon DEF D, DD, M, MM
<2>5. Cleared
  BY <1>f, <1>g, <1>i, <2>1
<2>6. OO <= O
  BY <1>n, <1>m, <2>2, <2>3
<2>7. "charge" \notin died' => OO = O /\ "charge" \notin died
<3>1. "charge" \notin died' => pc[r] # "charge" /\ "charge" \notin died
  BY <2>1
<3>2. pc[r] # "charge" => OO = O
  BY <1>i, <1>n, <1>m, <2>2, <2>3
<3> QED
  BY <3>1, <3>2
<2>8. MM + OO <= DD
  BY <1>i, <1>n, <1>m, <2>3, <2>4, <2>6
<2> QED
  BY <1>i, <2>4, <2>5, <2>7, <2>8, Zenon
<1>5. ASSUME Second \/ Midnight \/ UNCHANGED vars
      PROVE  Cleared /\ MM + OO <= DD /\ ("charge" \notin died' => DD = MM + OO)
<2>1. daily' = daily /\ monthly' = monthly /\ owed' = owed /\ died' = died /\ pc' = pc
  BY <1>5, Zenon DEF Second, Midnight, vars
<2> QED
  BY <1>i, <1>k, <2>1, Zenon
<1> HIDE DEF Cleared
<1> QED
  BY <1>1, <1>2, <1>3, <1>4, <1>5, Zenon DEF Next, Step

\* For any number of requests, days and months: the months never hold more
\* than the days, and what they lack is what is owed, unless a request died
\* between the two counters.
THEOREM BooksAlwaysBalance == Spec => []BooksBalance
<1>1. BooksInv => BooksBalance
<2> SUFFICES ASSUME BooksInv PROVE BooksBalance
  OBVIOUS
<2>1. /\ Total(monthly, Months) + Total(owed, Requests) <= Total(daily, Dates)
      /\ "charge" \notin died => Total(daily, Dates) = Total(monthly, Months) + Total(owed, Requests)
  BY Zenon DEF BooksInv
<2>2. Total(daily, Dates) \in Nat /\ Total(monthly, Months) \in Nat /\ Total(owed, Requests) \in Nat
<3>1. daily \in [Dates -> Nat] /\ monthly \in [Months -> Nat] /\ owed \in [Requests -> Nat]
  BY LimiterAssumption DEF BooksInv, TypeOK
<3>2. Dates \in SUBSET Dates /\ Months \in SUBSET Months /\ Requests \in SUBSET Requests
  OBVIOUS
<3> QED
  BY <3>1, <3>2, DatesAreFinite, LimiterAssumption, TotalWithout
<2>3. Total(monthly, Months) <= Total(daily, Dates)
  BY <2>1, <2>2
<2> QED
  BY <2>1, <2>3, BooksAreTotals, Zenon DEF BooksBalance, MonthsNeverAhead
<1> QED
  BY <1>1, InitBooks, StepBooks, PTL DEF Spec

-----------------------------------------------------------------------------
(***************************************************************************)
(* Two windows.  The RPM counter has counted all that was admitted in the  *)
(* last b seconds for some b, and what was admitted before these is what   *)
(* at most one earlier window admitted.  A counter with an expiry began    *)
(* longer ago than the part of the window that has passed.                 *)
(***************************************************************************)

\* What was admitted in the last b seconds.
Upto(b) == Total(recent, 0 .. b - 1)

CountedSince(b) ==
    /\ Upto(b) <= RpmLimit /\ Upto(b) <= rpm.count
    /\ Upto(Window) <= Upto(b) + RpmLimit
    /\ rpm.ttl < Forever => b > Window - rpm.ttl

WindowInv ==
    /\ TypeOK
    /\ rpm.count = 0 => rpm.ttl = Forever /\ Upto(Window) <= RpmLimit /\ recent[0] = 0
    /\ rpm.count > 0 => \E b \in 1 .. Window : CountedSince(b)
    /\ \A r \in Requests : pc[r] = "expire" =>
          /\ rpm.count > 0 /\ rpm.ttl = Forever
          /\ \A q \in Requests : pc[q] = "expire" => q = r

Ages == 0 .. Window - 1

LEMMA AgesAreFinite ==
    /\ IsFiniteSet(Ages) /\ Window \in Nat \ {0}
    /\ \A b \in 0 .. Window : 0 .. b - 1 \in SUBSET Ages
    /\ \A b \in 1 .. Window : 0 \in 0 .. b - 1
    /\ \A b \in Ages : b \in 0 .. (b + 1) - 1 /\ b + 1 \in 1 .. Window /\ b \in 0 .. Window
    /\ \A b \in Ages : (0 .. (b + 1) - 1) \ {b} = 0 .. b - 1
<1>1. Window \in Nat \ {0}
  BY LimiterAssumption
<1>2. IsFiniteSet(Ages)
  BY <1>1, FS_Interval DEF Ages
<1>3. \A b \in 0 .. Window : 0 .. b - 1 \in SUBSET Ages
  BY <1>1 DEF Ages
<1>4. \A b \in 1 .. Window : 0 \in 0 .. b - 1
  BY <1>1
<1>5. \A b \in Ages : b \in 0 .. (b + 1) - 1 /\ b + 1 \in 1 .. Window /\ b \in 0 .. Window
  BY <1>1 DEF Ages
<1>6. \A b \in Ages : (0 .. (b + 1) - 1) \ {b} = 0 .. b - 1
  BY <1>1 DEF Ages
<1> QED
  BY <1>1, <1>2, <1>3, <1>4, <1>5, <1>6

\* A sum of the last seconds grows by one second at a time.
LEMMA UptoGrows ==
    ASSUME NEW f, f \in [Ages -> Nat]
    PROVE  /\ Total(f, 0 .. 0 - 1) = 0
           /\ \A b \in 0 .. Window : Total(f, 0 .. b - 1) \in Nat
           /\ \A b \in Ages : Total(f, 0 .. (b + 1) - 1) = Total(f, 0 .. b - 1) + f[b]
<1>1. 0 .. 0 - 1 = {}
  OBVIOUS
<1>2. Total(f, {}) = 0
  BY AgesAreFinite, TotalWithout
<1>3. \A t \in SUBSET Ages : Total(f, t) \in Nat
  BY AgesAreFinite, TotalWithout
<1>4. ASSUME NEW b \in Ages PROVE Total(f, 0 .. (b + 1) - 1) = Total(f, 0 .. b - 1) + f[b]
<2> DEFINE t == 0 .. (b + 1) - 1
           s == 0 .. b - 1
<2>1. t \subseteq Ages /\ b \in t /\ s \in SUBSET Ages /\ t \ {b} = s
  BY AgesAreFinite
<2> HIDE DEF t, s
<2>2. Total(f, t) = f[b] + Total(f, t \ {b})
  BY <2>1, AgesAreFinite, TotalOfOneMore
<2>3. f[b] \in Nat /\ Total(f, s) \in Nat
  BY <1>3, <2>1
<2>4. Total(f, t) = f[b] + Total(f, s)
  BY <2>1, <2>2, Zenon
<2>5. Total(f, t) = Total(f, s) + f[b]
  BY <2>3, <2>4
<2> QED
  BY <2>5, Zenon DEF t, s
<1> QED
  BY <1>1, <1>2, <1>3, <1>4, AgesAreFinite, Zenon

\* A second later the same requests are one second older.
LEMMA UptoShifts ==
    ASSUME NEW f, f \in [Ages -> Nat], NEW h, h \in [Ages -> Nat], h[0] = 0,
           \A a \in Ages : a + 1 \in Ages => h[a + 1] = f[a]
    PROVE  \A b \in Ages : Total(h, 0 .. (b + 1) - 1) = Total(f, 0 .. b - 1)
<1> DEFINE U(b) == Total(f, 0 .. b - 1)
           V(b) == Total(h, 0 .. b - 1)
           T == {n \in Nat : n \in Ages => V(n + 1) = U(n)}
<1>0. /\ U(0) = 0 /\ \A b \in Ages : U(b + 1) = U(b) + f[b]
      /\ V(0) = 0 /\ \A b \in Ages : V(b + 1) = V(b) + h[b]
  BY UptoGrows
<1> HIDE DEF U, V
<1>1. 0 \in T
<2>1. 0 \in Ages
  BY AgesAreFinite DEF Ages
<2>2. V(0 + 1) = 0 + 0
  BY <1>0, <2>1, Zenon
<2> QED
  BY <1>0, <2>2
<1>2. ASSUME NEW n \in Nat, n \in T PROVE n + 1 \in T
<2> SUFFICES ASSUME n + 1 \in Ages PROVE V((n + 1) + 1) = U(n + 1)
  OBVIOUS
<2>1. n \in Ages
  BY AgesAreFinite DEF Ages
<2>2. V((n + 1) + 1) = V(n + 1) + h[n + 1] /\ U(n + 1) = U(n) + f[n]
  BY <1>0, <2>1, Zenon
<2>3. h[n + 1] = f[n] /\ V(n + 1) = U(n)
  BY <1>2, <2>1
<2> QED
  BY <2>2, <2>3, Zenon
<1> HIDE DEF T
<1>3. \A n \in Nat : n \in T
  BY <1>1, <1>2, AllNumbers
<1>4. \A b \in Ages : b \in Nat
  BY DEF Ages
<1>5. \A b \in Ages : V(b + 1) = U(b)
  BY <1>3, <1>4, Zenon DEF T
<1> QED
  BY <1>5, Zenon DEF U, V

\* One more request was admitted in this second.
OneAdded(h, f, z) == h[z] = f[z] + 1 /\ \A a \in Ages \ {z} : f[a] = h[a]

LEMMA UptoCounts ==
    ASSUME NEW f, f \in [Ages -> Nat], NEW h, h \in [Ages -> Nat], OneAdded(h, f, 0)
    PROVE  \A b \in 1 .. Window : Total(h, 0 .. b - 1) = Total(f, 0 .. b - 1) + 1
<1> SUFFICES ASSUME NEW b \in 1 .. Window PROVE Total(h, 0 .. b - 1) = Total(f, 0 .. b - 1) + 1
  OBVIOUS
<1> DEFINE t == 0 .. b - 1
           z == 0
<1>0. z \in t /\ t \subseteq Ages
  BY AgesAreFinite DEF Ages
<1>a. OneAdded(h, f, z)
  OBVIOUS
<1>f. IsFiniteSet(Ages)
  BY AgesAreFinite
<1> HIDE DEF t, z
<1>1. t \ {z} \in SUBSET Ages
  BY <1>0
<1>2. Total(h, t) = h[z] + Total(h, t \ {z})
  BY <1>0, <1>f, TotalOfOneMore
<1>3. Total(f, t) = f[z] + Total(f, t \ {z})
  BY <1>0, <1>f, TotalOfOneMore
<1>4. Total(f, t \ {z}) \in Nat /\ f[z] \in Nat
  BY <1>0, <1>1, AgesAreFinite, TotalWithout
<1>5. \A a \in t \ {z} : f[a] = h[a]
  BY <1>0, <1>a DEF OneAdded
<1>6. h[z] = f[z] + 1
  BY <1>0, <1>a DEF OneAdded
<1>7. Total(f, t \ {z}) = Total(h, t \ {z})
  BY <1>1, <1>5, AgesAreFinite, TotalSame
<1>8. Total(h, t) = Total(f, t) + 1
  BY <1>2, <1>3, <1>4, <1>6, <1>7
<1> QED
  BY <1>8, Zenon DEF t

LEMMA InitWindow == Init => WindowInv
<1> SUFFICES ASSUME Init PROVE WindowInv
  OBVIOUS
<1>1. TypeOK
  BY InitType
<1>2. rpm = [count |-> 0, ttl |-> Forever] /\ recent = [a \in 0 .. Window - 1 |-> 0] /\ \A r \in Requests : pc[r] # "expire"
  BY DEF Init
<1>3. 0 .. Window - 1 \in SUBSET (0 .. Window - 1) /\ IsFiniteSet(0 .. Window - 1) /\ 0 \in 0 .. Window - 1
  BY LimiterAssumption, FS_Interval
<1>4. Upto(Window) = 0
  BY <1>2, <1>3, TotalNothing DEF Upto
<1>5. recent[0] = 0 /\ rpm.count = 0 /\ rpm.ttl = Forever
  BY <1>2, <1>3
<1> QED
  BY <1>1, <1>2, <1>4, <1>5, LimiterAssumption DEF WindowInv

LEMMA StepWindow == WindowInv /\ [Next]_vars => WindowInv'
<1> SUFFICES ASSUME WindowInv, [Next]_vars PROVE WindowInv'
  OBVIOUS
<1>t. TypeOK /\ TypeOK'
  BY StepType DEF WindowInv
<1>r. recent \in [Ages -> Nat] /\ recent' \in [Ages -> Nat] /\ pc \in [Requests -> Stage]
  BY <1>t DEF TypeOK, Ages
<1> DEFINE U(b) == Total(recent, 0 .. b - 1)
           V(b) == Total(recent', 0 .. b - 1)
           c == rpm.count
           d == rpm.ttl
           cc == rpm'.count
           dd == rpm'.ttl
           Empty == cc = 0 => dd = Forever /\ V(Window) <= RpmLimit /\ recent'[0] = 0
           Since(b) == /\ V(b) <= RpmLimit /\ V(b) <= cc /\ V(Window) <= V(b) + RpmLimit
                       /\ dd < Forever => b > Window - dd
           Counts == cc > 0 => \E b \in 1 .. Window : Since(b)
           First == \A r \in Requests : pc'[r] = "expire" =>
                       cc > 0 /\ dd = Forever /\ \A q \in Requests : pc'[q] = "expire" => q = r
<1>n. /\ c \in Nat /\ cc \in Nat /\ d \in 1 .. Forever /\ dd \in 1 .. Forever
      /\ RpmLimit \in Nat /\ Window \in Nat \ {0} /\ Forever = Window + 1
  BY <1>t, LimiterAssumption DEF TypeOK, Forever
<1>u. \A b \in 1 .. Window : U(b) \in Nat /\ V(b) \in Nat
  BY <1>r, UptoGrows
<1>w. Window \in 1 .. Window /\ 1 \in 1 .. Window
  BY <1>n
<1>a. c = 0 => d = Forever /\ U(Window) <= RpmLimit /\ recent[0] = 0
  BY Zenon DEF WindowInv, Upto
<1>b. c > 0 => \E b \in 1 .. Window : /\ U(b) <= RpmLimit /\ U(b) <= c /\ U(Window) <= U(b) + RpmLimit
                                      /\ d < Forever => b > Window - d
  BY Zenon DEF WindowInv, CountedSince, Upto
<1>c. \A r \in Requests : pc[r] = "expire" =>
         c > 0 /\ d = Forever /\ \A q \in Requests : pc[q] = "expire" => q = r
  BY Zenon DEF WindowInv
<1>g. \A r \in Requests : \A stage : Goto(r, stage) => pc'[r] = stage /\ \A q \in Requests : q # r => pc'[q] = pc[q]
  BY <1>r DEF Goto
<1>q. SUFFICES Empty /\ Counts /\ First
  BY <1>t, Zenon DEF WindowInv, CountedSince, Upto
<1>e. ASSUME rpm' = rpm, recent' = recent PROVE cc = c /\ dd = d /\ recent'[0] = recent[0] /\ \A b : V(b) = U(b)
  BY <1>e, Zenon
<1> HIDE DEF U, V, c, d, cc, dd
\* Everything that leaves the counter alone.
<1>k. ASSUME rpm' = rpm, recent' = recent, \A q \in Requests : pc'[q] = "expire" => pc[q] = "expire"
      PROVE  Empty /\ Counts /\ First
<2>1. Empty
  BY <1>a, <1>e, <1>k, Zenon
<2>2. Counts
<3>1. cc = c /\ dd = d /\ \A b : V(b) = U(b)
  BY <1>e, <1>k, Zenon
<3> SUFFICES ASSUME c > 0 PROVE \E b \in 1 .. Window : Since(b)
  BY <3>1
<3>2. PICK b \in 1 .. Window : /\ U(b) <= RpmLimit /\ U(b) <= c /\ U(Window) <= U(b) + RpmLimit
                               /\ d < Forever => b > Window - d
  BY <1>b
<3>3. V(b) = U(b) /\ V(Window) = U(Window)
  BY <3>1
<3>4. Since(b)
  BY <3>1, <3>2, <3>3
<3> QED
  BY <3>4
<2>3. First
  BY <1>c, <1>e, <1>k, Zenon
<2> QED
  BY <2>1, <2>2, <2>3, Zenon
<1>1. ASSUME NEW r \in Requests, Incr(r) PROVE Empty /\ Counts /\ First
<2> DEFINE count == IF c <= RpmLimit + 1 THEN c + 1 ELSE c
<2>1. /\ pc[r] = "idle" /\ cc = count /\ dd = d
      /\ IF count = 1 THEN Goto(r, "expire") ELSE RpmVerdict(r, count)
      /\ recent' = IF count > RpmLimit THEN recent ELSE [recent EXCEPT ![0] = @ + 1]
<3>1. rpm = [count |-> rpm.count, ttl |-> rpm.ttl]
  BY <1>t DEF TypeOK
<3> QED
  BY <1>1, <3>1 DEF Incr, c, d, cc, dd
<2>2. cc > 0 /\ (count = 1 => c = 0 /\ cc = 1) /\ (count # 1 => c > 0) /\ cc >= c /\ (count <= RpmLimit => cc = c + 1)
  BY <1>n, <2>1
<2> HIDE DEF count
<2>3. Empty
  BY <1>n, <2>2
<2>4. count > RpmLimit => \A b \in 1 .. Window : V(b) = U(b)
  BY <2>1, Zenon DEF U, V
<2>5. ASSUME count <= RpmLimit PROVE \A b \in 1 .. Window : V(b) = U(b) + 1
<3>1. recent' = [recent EXCEPT ![0] = @ + 1]
  BY <1>n, <2>1, <2>5
<3>2. OneAdded(recent', recent, 0)
  BY <1>r, <3>1 DEF OneAdded, Ages
<3> QED
  BY <1>r, <3>2, UptoCounts, Zenon DEF U, V
<2>6. Counts
<3>1. CASE count = 1
<4>1. c = 0 /\ cc = 1 /\ d = Forever /\ dd = Forever /\ U(Window) <= RpmLimit /\ recent[0] = 0
  BY <1>a, <2>1, <2>2, <3>1
<4>2. U(1) = 0
<5>1. 0 \in Ages
  BY <1>n DEF Ages
<5>2. U(0) = 0 /\ \A b \in Ages : U(b + 1) = U(b) + recent[b]
  BY <1>r, UptoGrows DEF U
<5>3. U(0 + 1) = U(0) + recent[0]
  BY <5>1, <5>2, Zenon
<5> QED
  BY <4>1, <5>2, <5>3
<4>3. U(Window) \in Nat /\ V(Window) \in Nat /\ V(1) \in Nat
  BY <1>u, <1>w
<4>4. CASE count <= RpmLimit
<5>1. V(1) = 1 /\ V(Window) = U(Window) + 1
  BY <1>w, <2>5, <4>2, <4>4
<5>2. Since(1)
  BY <1>n, <3>1, <4>1, <4>3, <4>4, <5>1
<5> QED
  BY <1>w, <5>2
<4>5. CASE ~ (count <= RpmLimit)
<5>1. V(1) = 0 /\ V(Window) = U(Window)
<6>1. count > RpmLimit
  BY <1>n, <3>1, <4>5
<6> QED
  BY <1>w, <2>4, <4>2, <6>1, Zenon
<5>2. Since(1)
  BY <1>n, <4>1, <4>3, <5>1
<5> QED
  BY <1>w, <5>2
<4> QED
  BY <4>4, <4>5
<3>2. CASE count # 1
<4>1. PICK b \in 1 .. Window : /\ U(b) <= RpmLimit /\ U(b) <= c /\ U(Window) <= U(b) + RpmLimit
                               /\ d < Forever => b > Window - d
  BY <1>b, <2>2, <3>2
<4>2. U(Window) \in Nat /\ V(Window) \in Nat /\ U(b) \in Nat /\ V(b) \in Nat
  BY <1>u, <1>w
<4>3. CASE count <= RpmLimit
<5>1. V(b) = U(b) + 1 /\ V(Window) = U(Window) + 1 /\ cc = c + 1 /\ cc <= RpmLimit
  BY <1>w, <2>1, <2>2, <2>5, <4>3
<5>2. Since(b)
  BY <1>n, <2>1, <4>1, <4>2, <5>1
<5> QED
  BY <5>2
<4>4. CASE count > RpmLimit
<5>1. V(b) = U(b) /\ V(Window) = U(Window)
  BY <1>w, <2>4, <4>4, Zenon
<5>2. Since(b)
  BY <1>n, <2>1, <2>2, <4>1, <4>2, <5>1
<5> QED
  BY <5>2
<4>5. count \in Nat
  BY <1>n, <2>1
<4> QED
  BY <1>n, <4>3, <4>4, <4>5
<3> QED
  BY <3>1, <3>2
<2>7. First
<3>1. CASE count = 1
<4>1. c = 0 /\ d = Forever
  BY <1>a, <2>2, <3>1
<4>2. \A q \in Requests : pc[q] # "expire"
  BY <1>c, <1>n, <4>1
<4>3. pc'[r] = "expire" /\ \A q \in Requests : q # r => pc'[q] = pc[q]
  BY <1>g, <2>1, <3>1, Zenon
<4> QED
  BY <2>1, <2>2, <4>1, <4>2, <4>3
<3>2. CASE count # 1
<4>1. pc'[r] # "expire" /\ \A q \in Requests : q # r => pc'[q] = pc[q]
<5>1. Goto(r, "idle") \/ Goto(r, "daily")
  BY <2>1, <3>2 DEF RpmVerdict
<5> QED
  BY <1>g, <5>1
<4> QED
  BY <1>c, <2>1, <2>2, <4>1
<3> QED
  BY <3>1, <3>2
<2> QED
  BY <2>3, <2>6, <2>7, Zenon
<1>2. ASSUME NEW r \in Requests, Expire(r) PROVE Empty /\ Counts /\ First
<2>1. /\ pc[r] = "expire" /\ cc = c /\ dd = Window /\ recent' = recent
      /\ Goto(r, "idle") \/ Goto(r, "daily")
<3>1. rpm = [count |-> rpm.count, ttl |-> rpm.ttl]
  BY <1>t DEF TypeOK
<3> QED
  BY <1>2, <3>1 DEF Expire, RpmVerdict, c, cc, dd
<2>2. c > 0 /\ \A q \in Requests : pc[q] = "expire" => q = r
  BY <1>c, <2>1
<2>3. \A b \in 1 .. Window : V(b) = U(b)
  BY <2>1, Zenon DEF U, V
<2>4. Empty
  BY <1>n, <2>1, <2>2
<2>5. Counts
<3>1. PICK b \in 1 .. Window : U(b) <= RpmLimit /\ U(b) <= c /\ U(Window) <= U(b) + RpmLimit
  BY <1>b, <2>2
<3>2. V(b) = U(b) /\ V(Window) = U(Window)
  BY <1>w, <2>3
<3>3. Since(b)
  BY <1>n, <2>1, <3>1, <3>2
<3> QED
  BY <3>3
<2>6. First
  BY <1>g, <2>1, <2>2
<2> QED
  BY <2>4, <2>5, <2>6, Zenon
<1>3. ASSUME Second PROVE Empty /\ Counts /\ First
<2>1. /\ d = Forever => cc = c /\ dd = d
      /\ d # Forever /\ d = 1 => cc = 0 /\ dd = Forever
      /\ d # Forever /\ d # 1 => cc = c /\ dd = d - 1
      /\ pc' = pc
<3>1. rpm = [count |-> rpm.count, ttl |-> rpm.ttl]
  BY <1>t DEF TypeOK
<3> QED
  BY <1>3, <3>1 DEF Second, c, d, cc, dd
<2>2. recent'[0] = 0 /\ \A a \in Ages : a + 1 \in Ages => recent'[a + 1] = recent[a]
<3>1. recent' = [a \in 0 .. Window - 1 |-> IF a = 0 THEN 0 ELSE recent[a - 1]]
  BY <1>3 DEF Second
<3> QED
  BY <1>n, <3>1 DEF Ages
<2>3. \A b \in Ages : V(b + 1) = U(b)
  BY <1>r, <2>2, UptoShifts, Zenon DEF U, V
<2>4. V(Window) <= U(Window)
<3>1. Window - 1 \in Ages /\ (Window - 1) + 1 = Window
  BY <1>n DEF Ages
<3>2. U((Window - 1) + 1) = U(Window - 1) + recent[Window - 1] /\ recent[Window - 1] \in Nat
  BY <1>r, <3>1, UptoGrows DEF U
<3>3. V((Window - 1) + 1) = U(Window - 1)
  BY <2>3, <3>1, Zenon
<3>4. V(Window) = U(Window - 1) /\ U(Window) = U(Window - 1) + recent[Window - 1]
  BY <3>1, <3>2, <3>3, Zenon
<3>5. V(Window) \in Nat
  BY <1>u, <1>w
<3> QED
  BY <3>2, <3>4, <3>5
<2>5. U(Window) \in Nat /\ V(Window) \in Nat
  BY <1>u, <1>w
<2>6. Empty
<3>1. CASE c = 0
  BY <1>a, <1>n, <2>1, <2>2, <2>4, <2>5, <3>1
<3>2. CASE c > 0
<4> SUFFICES ASSUME cc = 0 PROVE dd = Forever /\ V(Window) <= RpmLimit /\ recent'[0] = 0
  OBVIOUS
<4>1. d # Forever /\ d = 1 /\ dd = Forever
  BY <2>1, <3>2
<4>2. PICK b \in 1 .. Window : U(b) <= RpmLimit /\ b > Window - d
  BY <1>b, <1>n, <3>2, <4>1
<4>3. b = Window
  BY <1>n, <4>1, <4>2
<4> QED
  BY <1>n, <2>2, <2>4, <2>5, <4>1, <4>2, <4>3
<3> QED
  BY <1>n, <3>1, <3>2
<2>7. Counts
<3> SUFFICES ASSUME cc > 0 PROVE \E b \in 1 .. Window : Since(b)
  OBVIOUS
<3>1. (c > 0 /\ cc = c /\ d # 1) \/ (d = Forever /\ cc = c /\ c > 0)
  BY <1>a, <1>n, <2>1
<3>2. PICK b \in 1 .. Window : /\ U(b) <= RpmLimit /\ U(b) <= c /\ U(Window) <= U(b) + RpmLimit
                               /\ d < Forever => b > Window - d
  BY <1>b, <3>1
<3>3. U(b) \in Nat
  BY <1>u
<3>4. CASE b = Window
<4>1. Since(Window)
  BY <1>n, <2>1, <2>4, <2>5, <3>1, <3>2, <3>3, <3>4
<4> QED
  BY <1>w, <4>1
<3>5. CASE b # Window
<4>1. b \in Ages /\ b + 1 \in 1 .. Window
  BY <1>n, <3>5 DEF Ages
<4>2. V(b + 1) = U(b)
  BY <2>3, <4>1, Zenon
<4>3. Since(b + 1)
  BY <1>n, <2>1, <2>4, <2>5, <3>1, <3>2, <3>3, <4>2
<4> QED
  BY <4>1, <4>3
<3> QED
  BY <3>4, <3>5
<2>8. First
<3> SUFFICES ASSUME NEW r \in Requests, pc'[r] = "expire"
             PROVE  cc > 0 /\ dd = Forever /\ \A q \in Requests : pc'[q] = "expire" => q = r
  OBVIOUS
<3>1. c > 0 /\ d = Forever /\ \A q \in Requests : pc[q] = "expire" => q = r
  BY <1>c, <2>1
<3> QED
  BY <2>1, <3>1
<2> QED
  BY <2>6, <2>7, <2>8, Zenon
<1> HIDE DEF Empty, Counts, First
<1>4. ASSUME NEW r \in Requests, \/ CheckDailyTokens(r) \/ CheckMonthlyTokens(r) \/ ConsumeDaily(r)
                                 \/ ConsumeMonthly(r) \/ Unserved(r) \/ Fault(r)
      PROVE  Empty /\ Counts /\ First
<2>1. rpm' = rpm /\ recent' = recent /\ \E stage \in {"idle", "monthly", "serving", "charge"} : Goto(r, stage)
  BY <1>4 DEF CheckDailyTokens, CheckMonthlyTokens, ConsumeDaily, ConsumeMonthly, Unserved, Fault
<2>2. \A q \in Requests : pc'[q] = "expire" => pc[q] = "expire"
  BY <1>g, <2>1
<2> QED
  BY <1>k, <2>1, <2>2, Zenon
<1>5. ASSUME Midnight \/ UNCHANGED vars PROVE Empty /\ Counts /\ First
<2>1. rpm' = rpm /\ recent' = recent /\ pc' = pc
  BY <1>5 DEF Midnight, vars
<2> QED
  BY <1>k, <2>1, Zenon
<1> QED
  BY <1>1, <1>2, <1>3, <1>4, <1>5, Zenon DEF Next, Step

\* For every limit and every length of the window: no Window seconds admit
\* more than twice rpm_limit requests, dead requests and lost expiries
\* included.
THEOREM TwoWindowsAlways == Spec => []TwoWindowsAtMost
<1>1. WindowInv => TwoWindowsAtMost
<2> SUFFICES ASSUME WindowInv PROVE TwoWindowsAtMost
  OBVIOUS
<2> DEFINE U(b) == Total(recent, 0 .. b - 1)
<2>1. recent \in [Ages -> Nat] /\ rpm.count \in Nat /\ RpmLimit \in Nat /\ Window \in 1 .. Window
  BY LimiterAssumption DEF WindowInv, TypeOK, Ages
<2>2. \A b \in 1 .. Window : U(b) \in Nat
  BY <2>1, UptoGrows
<2>3. \/ U(Window) <= RpmLimit
      \/ \E b \in 1 .. Window : U(b) <= RpmLimit /\ U(Window) <= U(b) + RpmLimit
<3>1. rpm.count = 0 \/ rpm.count > 0
  BY <2>1
<3> QED
  BY <3>1, Zenon DEF WindowInv, CountedSince, Upto
<2> HIDE DEF U
<2>4. U(Window) <= 2 * RpmLimit
  BY <2>1, <2>2, <2>3
<2>5. MapThenSumSet(LAMBDA a : recent[a], 0 .. Window - 1) = U(Window)
  BY Zenon DEF U, Total
<2> QED
  BY <2>4, <2>5, Zenon DEF TwoWindowsAtMost
<1> QED
  BY <1>1, InitWindow, StepWindow, PTL DEF Spec

=============================================================================
