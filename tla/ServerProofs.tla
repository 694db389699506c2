---------------------------- MODULE ServerProofs ----------------------------
(***************************************************************************)
(* Proofs about the parts of the server that MCServer runs: the ids of a   *)
(* process, the two-level cache, the operation log, the plugins.  Each     *)
(* part has its own inductive invariant, and the facts about MCServer's    *)
(* constants are assumed there.                                            *)
(***************************************************************************)
EXTENDS MCServer, FiniteSetTheorems, TLAPS

-----------------------------------------------------------------------------
(***************************************************************************)
(* Ids.  The layout of an id can be taken apart again, and the ids of a    *)
(* process strictly increase.                                              *)
(***************************************************************************)

(* Arithmetic of positional notation. *)

\* The remainder and quotient of a number written with base b.
LEMMA DivMod ==
    ASSUME NEW b \in Nat \ {0}, NEW a \in Nat, NEW r \in 0 .. b - 1
    PROVE  /\ (a * b + r) \div b = a
           /\ (a * b + r) % b = r
  OBVIOUS

\* A larger high digit outweighs every low digit.
LEMMA HighDigitWins ==
    ASSUME NEW b \in Nat \ {0}, NEW x \in Int, NEW y \in Int, x < y,
           NEW r \in 0 .. b - 1, NEW s \in 0 .. b - 1
    PROVE  x * b + r < y * b + s
<1>1. (x + 1) * b <= y * b
  OBVIOUS
<1>2. (x + 1) * b = x * b + b
  OBVIOUS
<1>3. QED  BY <1>1, <1>2

\* The product of a high digit and its base is bounded by the range above it.
LEMMA TwoDigits ==
    ASSUME NEW b \in Nat \ {0}, NEW c \in Nat \ {0},
           NEW x \in 0 .. c - 1, NEW r \in 0 .. b - 1
    PROVE  x * b + r \in 0 .. c * b - 1
<1>1. (x + 1) * b <= c * b
  OBVIOUS
<1>2. (x + 1) * b = x * b + b
  OBVIOUS
<1>3. x * b >= 0
  OBVIOUS
<1>4. c * b \in Nat /\ x * b \in Nat
  OBVIOUS
<1>5. QED  BY <1>1, <1>2, <1>3, <1>4

LEMMA WeightsArePositive ==
    /\ WorkerWeight \in Nat \ {0}
    /\ DatacenterWeight \in Nat \ {0}
    /\ TimestampWeight \in Nat \ {0}
<1>1. \A x, y \in Nat \ {0} : x * y \in Nat \ {0}
  OBVIOUS
<1>2. WorkerWeight \in Nat \ {0}
  BY SnowflakeAssumption DEF WorkerWeight
<1>3. DatacenterWeight \in Nat \ {0}
  BY <1>1, <1>2, SnowflakeAssumption DEF DatacenterWeight
<1>4. QED  BY <1>1, <1>2, <1>3, SnowflakeAssumption DEF TimestampWeight

\* What lies below the worker, and below the timestamp, in an id.
LowPart(seq) == worker_id * WorkerWeight + seq
NodePart(seq) == datacenter_id * DatacenterWeight + LowPart(seq)

LEMMA PartsFit ==
    ASSUME NEW seq \in 0 .. SequenceSize - 1
    PROVE  /\ LowPart(seq) \in 0 .. DatacenterWeight - 1
           /\ NodePart(seq) \in 0 .. TimestampWeight - 1
<1>1. LowPart(seq) \in 0 .. DatacenterWeight - 1
  <2>1. seq \in 0 .. WorkerWeight - 1
    BY DEF WorkerWeight
  <2>2. QED  BY <2>1, TwoDigits, WeightsArePositive, SnowflakeAssumption
             DEF LowPart, DatacenterWeight
<1>2. NodePart(seq) \in 0 .. TimestampWeight - 1
  BY <1>1, TwoDigits, WeightsArePositive, SnowflakeAssumption
  DEF NodePart, TimestampWeight
<1>3. QED  BY <1>1, <1>2

LEMMA IdIsNumber ==
    ASSUME NEW t \in Nat, NEW seq \in 0 .. SequenceSize - 1
    PROVE  /\ Id(t, seq) = t * TimestampWeight + NodePart(seq)
           /\ Id(t, seq) \in Nat
<1>1. /\ datacenter_id * DatacenterWeight \in Nat
      /\ worker_id * WorkerWeight \in Nat
      /\ t * TimestampWeight \in Nat
  BY WeightsArePositive, SnowflakeAssumption
<1>2. Id(t, seq) = t * TimestampWeight + NodePart(seq)
  BY <1>1, SnowflakeAssumption DEF Id, NodeBits, NodePart, LowPart
<1>3. NodePart(seq) \in Nat
  BY PartsFit, WeightsArePositive
<1>4. QED  BY <1>1, <1>2, <1>3

\* An id of a later millisecond is larger than every id of an earlier one,
\* and within a millisecond ids are ordered by their sequence.
LEMMA IdsAreOrdered ==
    ASSUME NEW t \in Nat, NEW u \in Nat,
           NEW r \in 0 .. SequenceSize - 1, NEW s \in 0 .. SequenceSize - 1,
           t < u \/ (t = u /\ r < s)
    PROVE  Id(t, r) < Id(u, s)
<1>1. CASE t < u
  <2>1. /\ NodePart(r) \in 0 .. TimestampWeight - 1
        /\ NodePart(s) \in 0 .. TimestampWeight - 1
    BY PartsFit
  <2>2. t * TimestampWeight + NodePart(r) < u * TimestampWeight + NodePart(s)
    BY <1>1, <2>1, HighDigitWins, WeightsArePositive
  <2>3. QED  BY <2>2, IdIsNumber
<1>2. CASE t = u /\ r < s
  <2>1. LowPart(r) < LowPart(s)
    BY <1>2, WeightsArePositive, SnowflakeAssumption DEF LowPart
  <2>2. /\ LowPart(r) \in Int /\ LowPart(s) \in Int
        /\ datacenter_id * DatacenterWeight \in Int
        /\ t * TimestampWeight \in Int
    BY PartsFit, WeightsArePositive, SnowflakeAssumption
  <2>3. NodePart(r) < NodePart(s)
    BY <2>1, <2>2 DEF NodePart
  <2>4. NodePart(r) \in Int /\ NodePart(s) \in Int
    BY PartsFit, WeightsArePositive
  <2>5. QED  BY <1>2, <2>2, <2>3, <2>4, IdIsNumber
<1>3. QED  BY <1>1, <1>2

\* parse inverts the layout of generate, whatever the widths of the fields.
THEOREM ParseInvertsId ==
    ASSUME NEW t \in Nat, NEW seq \in 0 .. SequenceSize - 1
    PROVE  /\ TimestampOf(Id(t, seq)) = t
           /\ DatacenterOf(Id(t, seq)) = datacenter_id
           /\ WorkerOf(Id(t, seq)) = worker_id
           /\ SequenceOf(Id(t, seq)) = seq
<1> DEFINE D == t * Datacenters + datacenter_id
           W == D * Workers + worker_id
<1>1. /\ t * Datacenters \in Nat /\ datacenter_id \in Nat /\ worker_id \in Nat
      /\ t * TimestampWeight \in Nat /\ datacenter_id * DatacenterWeight \in Nat
      /\ worker_id * WorkerWeight \in Nat
  BY WeightsArePositive, SnowflakeAssumption
<1>2. D \in Nat
  BY <1>1
<1>3. W \in Nat
  <2>1. D * Workers \in Nat
    BY <1>2, SnowflakeAssumption
  <2>2. QED  BY <1>1, <2>1
<1>4. Id(t, seq) = D * DatacenterWeight + LowPart(seq)
  <2>1. t * TimestampWeight = (t * Datacenters) * DatacenterWeight
    BY WeightsArePositive, SnowflakeAssumption DEF TimestampWeight
  <2>2. D * DatacenterWeight
            = (t * Datacenters) * DatacenterWeight + datacenter_id * DatacenterWeight
    BY <1>1, WeightsArePositive
  <2>3. LowPart(seq) \in Nat
    BY PartsFit, WeightsArePositive
  <2>4. Id(t, seq) = t * TimestampWeight + (datacenter_id * DatacenterWeight + LowPart(seq))
    BY IdIsNumber DEF NodePart
  <2>5. (t * Datacenters) * DatacenterWeight \in Nat
    BY <1>1, <2>1
  <2> HIDE DEF D
  <2>6. QED  BY <1>1, <2>1, <2>2, <2>3, <2>4, <2>5
<1>5. Id(t, seq) = W * WorkerWeight + seq
  <2>1. D * DatacenterWeight = (D * Workers) * WorkerWeight
    BY <1>2, WeightsArePositive, SnowflakeAssumption DEF DatacenterWeight
  <2>2. D * Workers \in Nat
    BY <1>2, SnowflakeAssumption
  <2>3. W * WorkerWeight = (D * Workers) * WorkerWeight + worker_id * WorkerWeight
    BY <1>1, <2>2, WeightsArePositive
  <2>4. (D * Workers) * WorkerWeight \in Nat
    BY <2>2, WeightsArePositive
  <2>5. Id(t, seq) = D * DatacenterWeight + (worker_id * WorkerWeight + seq)
    BY <1>4 DEF LowPart
  <2> HIDE DEF D, W
  <2>6. QED  BY <1>1, <2>1, <2>3, <2>4, <2>5
<1> HIDE DEF D, W
<1>6. TimestampOf(Id(t, seq)) = t
  BY DivMod, IdIsNumber, PartsFit, WeightsArePositive DEF TimestampOf
<1>7. DatacenterOf(Id(t, seq)) = datacenter_id
  <2>1. Id(t, seq) \div DatacenterWeight = D
    <3>1. LowPart(seq) \in 0 .. DatacenterWeight - 1
      BY PartsFit
    <3>2. (D * DatacenterWeight + LowPart(seq)) \div DatacenterWeight = D
      BY <1>2, <3>1, DivMod, WeightsArePositive
    <3>3. QED  BY <1>4, <3>2
  <2>2. D % Datacenters = datacenter_id
    BY DivMod, SnowflakeAssumption DEF D
  <2>3. QED  BY <2>1, <2>2 DEF DatacenterOf
<1>8. WorkerOf(Id(t, seq)) = worker_id
  <2>1. Id(t, seq) \div WorkerWeight = W
    BY <1>3, <1>5, DivMod, WeightsArePositive DEF WorkerWeight
  <2>2. W % Workers = worker_id
    BY <1>2, DivMod, SnowflakeAssumption DEF W
  <2>3. QED  BY <2>1, <2>2 DEF WorkerOf
<1>9. SequenceOf(Id(t, seq)) = seq
  BY <1>3, <1>5, DivMod, SnowflakeAssumption DEF SequenceOf, WorkerWeight
<1>10. QED  BY <1>6, <1>7, <1>8, <1>9

-----------------------------------------------------------------------------
(***************************************************************************)
(* The invariant.  Every id stays below the pair of last_timestamp and     *)
(* sequence, and while the generator waits, below every id of a later      *)
(* millisecond; so the next id, whose pair is larger, exceeds them all.    *)
(***************************************************************************)

\* The id was made by generate, no later than last_timestamp.
Made(id) ==
    \E t \in 0 .. last_timestamp, seq \in 0 .. SequenceSize - 1 :
        /\ id = Id(t, seq)
        /\ waiting = "no" /\ t = last_timestamp => seq <= sequence

IdsMade == \A i \in 1 .. Len(ids) : Made(ids[i])

IInv == TypeOK /\ IdsMade /\ IdsIncrease

\* An id that continues the order is made at (timestamp, seq).
LEMMA ReturnKeeps ==
    ASSUME IInv,
           NEW timestamp \in 0 .. MaxClock, NEW seq \in 0 .. SequenceSize - 1,
           \/ timestamp > last_timestamp
           \/ timestamp = last_timestamp /\ waiting = "no" /\ sequence < seq,
           Return(timestamp, seq)
    PROVE  IInv'
<1> DEFINE new == Id(timestamp, seq)
<1>1. timestamp \in Nat /\ MaxClock \in Nat /\ ids \in Seq(Nat) /\ clock \in 0 .. MaxClock
  BY SnowflakeAssumption DEF IInv, TypeOK
<1>2. new \in Nat
  BY <1>1, IdIsNumber
<1>3. ids' = Append(ids, new) /\ last_timestamp' = timestamp /\ sequence' = seq
      /\ waiting' = "no" /\ clock' = clock
  BY DEF Return
<1>4. TypeOK'
  BY <1>1, <1>2, <1>3 DEF TypeOK
<1>5. \A i \in 1 .. Len(ids) : ids[i] < new /\ Made(ids[i])'
  <2> SUFFICES ASSUME NEW i \in 1 .. Len(ids) PROVE ids[i] < new /\ Made(ids[i])'
    OBVIOUS
  <2>1. PICK t \in 0 .. last_timestamp, s \in 0 .. SequenceSize - 1 :
           /\ ids[i] = Id(t, s)
           /\ waiting = "no" /\ t = last_timestamp => s <= sequence
    BY DEF IInv, IdsMade, Made
  <2>2. last_timestamp \in Int /\ sequence \in Nat
    BY SnowflakeAssumption DEF IInv, TypeOK
  <2>3. t < timestamp \/ (t = timestamp /\ s < seq)
    BY <1>1, <2>1, <2>2
  <2>4. ids[i] < new
    BY <1>1, <2>1, <2>3, IdsAreOrdered
  <2>5. t \in 0 .. last_timestamp'
    BY <1>1, <1>3, <2>2, <2>3
  <2>6. waiting' = "no" /\ t = last_timestamp' => s <= sequence'
    BY <1>3, <2>1, <2>3
  <2>7. ids[i]' = ids'[i] /\ ids'[i] = ids[i]
    BY <1>1, <1>3
  <2>8. Made(ids[i])'
    BY <2>1, <2>5, <2>6, <2>7 DEF Made
  <2>9. QED  BY <2>4, <2>8
<1>6. /\ Len(ids') = Len(ids) + 1 /\ ids'[Len(ids) + 1] = new
      /\ \A i \in 1 .. Len(ids) : ids'[i] = ids[i]
  BY <1>1, <1>2, <1>3
<1>7. Len(ids) \in Nat
  BY <1>1
<1>8. \A i \in 1 .. Len(ids') : i \in 1 .. Len(ids) \/ i = Len(ids) + 1
  BY <1>6, <1>7
<1>9. IdsMade'
  <2> SUFFICES ASSUME NEW i \in 1 .. Len(ids') PROVE Made(ids[i])'
    BY DEF IdsMade
  <2>1. CASE i \in 1 .. Len(ids)
    BY <1>5, <2>1
  <2>2. CASE i = Len(ids) + 1
    <3>1. timestamp \in 0 .. last_timestamp' /\ ids[i]' = Id(timestamp, seq)
      BY <1>1, <1>3, <1>6, <2>2
    <3>2. QED  BY <1>3, <3>1 DEF Made
  <2>3. QED  BY <1>8, <2>1, <2>2
<1>10. IdsIncrease'
  <2> SUFFICES ASSUME NEW i \in 1 .. Len(ids'), NEW j \in 1 .. Len(ids'), i < j
               PROVE  ids'[i] < ids'[j]
    BY DEF IdsIncrease
  <2>1. i \in 1 .. Len(ids)
    BY <1>6, <1>7
  <2>2. CASE j \in 1 .. Len(ids)
    BY <1>6, <2>1, <2>2 DEF IInv, IdsIncrease
  <2>3. CASE j = Len(ids) + 1
    BY <1>5, <1>6, <2>1, <2>3
  <2>4. QED  BY <1>8, <2>2, <2>3
<1>11. QED  BY <1>4, <1>9, <1>10 DEF IInv

\* A step that returns no id, and leaves the generator's time alone.
LEMMA OtherStepsKeep ==
    ASSUME IInv, TypeOK', UNCHANGED <<last_timestamp, ids>>,
           waiting' = "no" => waiting = "no" /\ sequence' = sequence
    PROVE  IInv'
<1>1. IdsMade'
  BY DEF IInv, IdsMade, Made
<1>2. IdsIncrease'
  BY DEF IInv, IdsIncrease
<1>3. QED  BY <1>1, <1>2 DEF IInv

LEMMA InitIInv == Init => IInv
<1> SUFFICES ASSUME Init PROVE IInv
  OBVIOUS
<1>1. TypeOK
  BY SnowflakeAssumption DEF Init, TypeOK
<1>2. Len(ids) = 0
  BY DEF Init
<1>3. IdsMade /\ IdsIncrease
  BY <1>2 DEF IdsMade, IdsIncrease
<1>4. QED  BY <1>1, <1>3 DEF IInv

LEMMA StepIInv == IInv /\ [Next]_vars => IInv'
<1> SUFFICES ASSUME IInv, [Next]_vars PROVE IInv'
  OBVIOUS
<1>t. TypeOK /\ MaxClock \in Nat /\ SequenceSize \in Nat \ {0}
  BY SnowflakeAssumption DEF IInv
<1>1. CASE NewMillisecond
  BY <1>1, <1>t, ReturnKeeps DEF NewMillisecond, TypeOK
<1>2. CASE SameMillisecond
  <2>1. clock \in 0 .. MaxClock /\ sequence + 1 \in 0 .. SequenceSize - 1
        /\ sequence < sequence + 1
    BY <1>2, <1>t DEF SameMillisecond, TypeOK
  <2>2. QED  BY <1>2, <2>1, ReturnKeeps DEF SameMillisecond
<1>3. CASE Exhausted
  <2>1. TypeOK'
    BY <1>3, <1>t DEF Exhausted, TypeOK
  <2>2. QED  BY <1>3, <2>1, OtherStepsKeep DEF Exhausted
<1>4. CASE Behind
  <2>1. TypeOK'
    BY <1>4, <1>t DEF Behind, TypeOK
  <2>2. QED  BY <1>4, <2>1, OtherStepsKeep DEF Behind
<1>5. CASE CaughtUp
  BY <1>5, <1>t, ReturnKeeps DEF CaughtUp, TypeOK
<1>6. CASE Tick
  <2>1. TypeOK'
    BY <1>6, <1>t DEF Tick, TypeOK
  <2>2. QED  BY <1>6, <2>1, OtherStepsKeep DEF Tick
<1>7. CASE StepBack
  <2>1. TypeOK'
    BY <1>7, <1>t DEF StepBack, TypeOK
  <2>2. QED  BY <1>7, <2>1, OtherStepsKeep DEF StepBack
<1>8. CASE UNCHANGED vars
  <2>1. TypeOK'
    BY <1>8, <1>t DEF vars, TypeOK
  <2>2. QED  BY <1>8, <2>1, OtherStepsKeep DEF vars
<1>9. QED  BY <1>1, <1>2, <1>3, <1>4, <1>5, <1>6, <1>7, <1>8 DEF Next

THEOREM Inductive == Spec => []IInv
  BY InitIInv, StepIInv, PTL DEF Spec

\* Every variable of the generator keeps its type.
THEOREM TypeCorrect == Spec => []TypeOK
<1>1. IInv => TypeOK
  BY DEF IInv
<1>2. QED  BY <1>1, Inductive, PTL

\* For every width of the fields, tolerance and clock: a process returns
\* strictly increasing ids.
THEOREM IdsAlwaysIncrease == Spec => []IdsIncrease
<1>1. IInv => IdsIncrease
  BY DEF IInv
<1>2. QED  BY <1>1, Inductive, PTL

\* parse finds the node, and a time and a sequence, in every id returned.
THEOREM IdsAlwaysParse == Spec => []IdsParse
<1>1. IInv => IdsParse
  <2> SUFFICES ASSUME IInv, NEW i \in 1 .. Len(ids)
               PROVE  /\ DatacenterOf(ids[i]) = datacenter_id
                      /\ WorkerOf(ids[i]) = worker_id
                      /\ TimestampOf(ids[i]) <= last_timestamp
                      /\ ids[i] = Id(TimestampOf(ids[i]), SequenceOf(ids[i]))
    BY DEF IdsParse
  <2>1. PICK t \in 0 .. last_timestamp, s \in 0 .. SequenceSize - 1 : ids[i] = Id(t, s)
    BY DEF IInv, IdsMade, Made
  <2>2. t \in Nat /\ t <= last_timestamp
    BY SnowflakeAssumption DEF IInv, TypeOK
  <2>3. QED  BY <2>1, <2>2, ParseInvertsId
<1>2. QED  BY <1>1, Inductive, PTL

-----------------------------------------------------------------------------
(***************************************************************************)
(* The two-level cache implements a register whose reads lag.  A value     *)
(* grows old on its way: in a call between the database and the two        *)
(* caches, in Redis, in a call between Redis and the local cache, and in   *)
(* the local cache.                                                        *)
(***************************************************************************)

Copies(ttl) == [v : 0..MaxWrites, left : 0..ttl] \cup {Cache!None}
CallPlaces == {"idle", "get", "found", "select", "fill", "set"}
Calling == [pc : CallPlaces, node : Nodes \cup {"none"}, v : -1..MaxWrites, left : 0..Hold]

CacheTypes ==
    /\ row \in 0..MaxWrites /\ (Cache!Writing => row < MaxWrites)
    /\ local \in [Nodes -> Copies(LocalTTL)] /\ redis \in Copies(RedisTTL)
    /\ call \in [Readers -> Calling]
    /\ replaced \in [0..MaxWrites -> Nat]

\* A version is the row's, or was replaced no longer ago than this.
AtMost(age, v) == v \in 0..row /\ (v = row \/ replaced[v] <= age)

CopiesAreYoung ==
    /\ redis # Cache!None => AtMost(Hold + RedisTTL - redis.left, redis.v)
    /\ \A n \in Nodes : local[n] # Cache!None => AtMost(Cache!Lag - local[n].left, local[n].v)

CallsAreYoung ==
    \A r \in Readers :
        /\ call[r].pc = "found" => AtMost(2 * Hold + RedisTTL - call[r].left, call[r].v)
        /\ call[r].pc \in {"fill", "set"} => AtMost(Hold - call[r].left, call[r].v)

CacheInv == CacheTypes /\ CopiesAreYoung /\ CallsAreYoung

LEMMA NothingYet ==
    /\ Cache!None \in Copies(LocalTTL) /\ Cache!None \in Copies(RedisTTL)
    /\ Cache!NoCall \in Calling
BY TimesAreNatural DEF Copies, Calling, CallPlaces, Cache!None, Cache!NoCall

LEMMA InitCacheInv == Cache!Init => CacheInv /\ Cache!Lagging!Init
<1> SUFFICES ASSUME Cache!Init PROVE CacheInv /\ Cache!Lagging!Init
  OBVIOUS
<1>1. CacheTypes
<2>1. row \in 0..MaxWrites /\ ~Cache!Writing /\ replaced \in [0..MaxWrites -> Nat]
<3>1. row = 0 /\ writer.pc = "idle" /\ replaced = [v \in 0..MaxWrites |-> 0]
  BY DEF Cache!Init, Cache!NoWrite
<3>2. replaced \in [0..MaxWrites -> Nat]
  BY <3>1
<3> QED
  BY <3>1, <3>2, TimesAreNatural DEF Cache!Writing
<2>2. redis \in Copies(RedisTTL) /\ local \in [Nodes -> Copies(LocalTTL)] /\ call \in [Readers -> Calling]
  BY NothingYet DEF Cache!Init
<2> QED
  BY <2>1, <2>2 DEF CacheTypes
<1>2. CopiesAreYoung /\ CallsAreYoung
  BY DEF CopiesAreYoung, CallsAreYoung, Cache!Init, Cache!NoCall
<1>3. Cache!Lagging!Init
  BY DEF Cache!Init, Cache!Lagging!Init
<1> QED
  BY <1>1, <1>2, <1>3 DEF CacheInv

\* What a step can do to the copies and calls without any value growing older.
LEMMA SameMoment ==
    ASSUME CacheInv, row' = row, replaced' = replaced,
           local' \in [Nodes -> Copies(LocalTTL)],
           \A n \in Nodes : \/ local'[n] = local[n] \/ local'[n] = Cache!None
                            \/ AtMost(Cache!Lag - local'[n].left, local'[n].v),
           redis' \in Copies(RedisTTL),
           redis' = redis \/ redis' = Cache!None \/ AtMost(Hold + RedisTTL - redis'.left, redis'.v),
           call' \in [Readers -> Calling],
           call' = call \/ CallsAreYoung',
           Cache!Writing' => row < MaxWrites
    PROVE  CacheInv'
<1> USE DEF CacheInv
<1>1. CacheTypes'
  BY DEF CacheTypes
<1>2. CallsAreYoung'
  BY DEF CallsAreYoung, AtMost
<1>3. CopiesAreYoung'
<2>1. ASSUME redis' # Cache!None PROVE AtMost(Hold + RedisTTL - redis.left, redis.v)'
  BY <2>1 DEF CopiesAreYoung, AtMost
<2>2. ASSUME NEW n \in Nodes, local'[n] # Cache!None
      PROVE  AtMost(Cache!Lag - local[n].left, local[n].v)'
<3>1. CASE local'[n] = local[n]
  BY <2>2, <3>1 DEF CopiesAreYoung, AtMost
<3>2. CASE AtMost(Cache!Lag - local'[n].left, local'[n].v)
  BY <3>2 DEF AtMost
<3> QED
  BY <2>2, <3>1, <3>2
<2> QED
  BY <2>1, <2>2 DEF CopiesAreYoung, Cache!None
<1> QED
  BY <1>1, <1>2, <1>3

\* Steps that leave a copy or take it away.
LEMMA ForgetCacheInv ==
    ASSUME CacheInv,
           \/ \E n \in Nodes : \/ Cache!HitLocal(n) \/ Cache!Write(n) \/ Cache!Notice(n)
                               \/ Cache!Disconnect(n) \/ Cache!Reconnect(n) \/ Cache!Restart(n)
           \/ Cache!InvalidateRedis \/ Cache!InvalidateLocal
           \/ Cache!Publish \/ Cache!PublishFails \/ Cache!InvalidateFails
    PROVE  CacheInv'
<1> USE DEF CacheInv
<1>0. CacheTypes
  OBVIOUS
<1>1. row' = row /\ replaced' = replaced
  BY DEF Cache!HitLocal, Cache!Write, Cache!Notice, Cache!Disconnect, Cache!Reconnect, Cache!Restart,
         Cache!InvalidateRedis, Cache!InvalidateLocal, Cache!Publish, Cache!PublishFails, Cache!InvalidateFails
<1>2. redis' = redis \/ redis' = Cache!None
  BY DEF Cache!HitLocal, Cache!Write, Cache!Notice, Cache!Disconnect, Cache!Reconnect, Cache!Restart,
         Cache!InvalidateRedis, Cache!InvalidateLocal, Cache!Publish, Cache!PublishFails, Cache!InvalidateFails
<1>3. local' = local \/ \E m : local' = [local EXCEPT ![m] = Cache!None]
  BY DEF Cache!HitLocal, Cache!Write, Cache!Notice, Cache!Disconnect, Cache!Reconnect, Cache!Restart,
         Cache!InvalidateRedis, Cache!InvalidateLocal, Cache!Publish, Cache!PublishFails, Cache!InvalidateFails
<1>4. /\ local' \in [Nodes -> Copies(LocalTTL)]
      /\ \A n \in Nodes : local'[n] = local[n] \/ local'[n] = Cache!None
  BY <1>0, <1>3, NothingYet DEF CacheTypes
<1>5. call' = call \/ \E n \in Nodes : call' = [r \in Readers |-> IF call[r].node = n THEN Cache!NoCall ELSE call[r]]
  BY DEF Cache!HitLocal, Cache!Write, Cache!Notice, Cache!Disconnect, Cache!Reconnect, Cache!Restart,
         Cache!InvalidateRedis, Cache!InvalidateLocal, Cache!Publish, Cache!PublishFails, Cache!InvalidateFails
<1>6. call' \in [Readers -> Calling] /\ \A r \in Readers : call'[r] = call[r] \/ call'[r] = Cache!NoCall
  BY <1>0, <1>5, NothingYet DEF CacheTypes
<1>7. call' = call \/ CallsAreYoung'
<2> SUFFICES ASSUME call' # call, NEW r \in Readers
             PROVE /\ call'[r].pc = "found" => AtMost(2 * Hold + RedisTTL - call[r].left, call[r].v)'
                   /\ call'[r].pc \in {"fill", "set"} => AtMost(Hold - call[r].left, call[r].v)'
  BY DEF CallsAreYoung
<2>1. CASE call'[r] = call[r]
  BY <1>1, <2>1 DEF CallsAreYoung, AtMost
<2>2. CASE call'[r] = Cache!NoCall
<3>1. call'[r].pc = "idle"
  BY <2>2 DEF Cache!NoCall
<3> QED
  BY <3>1
<2> QED
  BY <1>6, <2>1, <2>2
<1>8. Cache!Writing' => row < MaxWrites
<2>1. writer' = writer \/ writer' = Cache!NoWrite \/ row < MaxWrites \/ Cache!Writing
  BY DEF Cache!HitLocal, Cache!Write, Cache!Notice, Cache!Disconnect, Cache!Reconnect, Cache!Restart,
         Cache!InvalidateRedis, Cache!InvalidateLocal, Cache!Publish, Cache!PublishFails, Cache!InvalidateFails,
         Cache!Writing
<2> QED
  BY <1>0, <2>1 DEF CacheTypes, Cache!Writing, Cache!NoWrite
<1> QED
  BY <1>0, <1>1, <1>2, <1>4, <1>6, <1>7, <1>8, NothingYet, SameMoment DEF CacheTypes

\* Steps of one call.
LEMMA OneCall ==
    ASSUME CacheTypes, CallsAreYoung, row' = row, replaced' = replaced,
           NEW r \in Readers, NEW c \in Calling, call' = [call EXCEPT ![r] = c],
           c.pc = "found" => AtMost(2 * Hold + RedisTTL - c.left, c.v),
           c.pc \in {"fill", "set"} => AtMost(Hold - c.left, c.v)
    PROVE  call' \in [Readers -> Calling] /\ CallsAreYoung'
<1>1. call' \in [Readers -> Calling]
  BY DEF CacheTypes
<1>2. ASSUME NEW q \in Readers
      PROVE /\ call'[q].pc = "found" => AtMost(2 * Hold + RedisTTL - call[q].left, call[q].v)'
            /\ call'[q].pc \in {"fill", "set"} => AtMost(Hold - call[q].left, call[q].v)'
<2>1. CASE q = r
  BY <2>1 DEF AtMost, CacheTypes
<2>2. CASE q # r
  BY <2>2 DEF AtMost, CallsAreYoung, CacheTypes
<2> QED
  BY <2>1, <2>2
<1> QED
  BY <1>1, <1>2 DEF CallsAreYoung

LEMMA CallCacheInv ==
    ASSUME CacheInv, NEW r \in Readers,
           \/ \E n \in Nodes : Cache!MissLocal(r, n)
           \/ Cache!GetRedis(r) \/ Cache!GetFails(r) \/ Cache!Select(r) \/ Cache!FillFails(r)
    PROVE  CacheInv'
<1> USE DEF CacheInv
<1>0. CacheTypes
  OBVIOUS
<1>1. UNCHANGED <<row, replaced, local, redis, writer>>
  BY DEF Cache!MissLocal, Cache!GetRedis, Cache!GetFails, Cache!Select, Cache!FillFails
<1> DEFINE Going(pc, node, v, left) == call' = [call EXCEPT ![r] = [pc |-> pc, node |-> node, v |-> v, left |-> left]]
<1>3. \/ \E n \in Nodes : Going("get", n, -1, 0)
      \/ redis # Cache!None /\ Going("found", call[r].node, redis.v, Hold)
      \/ \E v \in {redis.v, call[r].v} : Going("select", call[r].node, v, Hold)
      \/ Going("fill", call[r].node, row, Hold)
      \/ Going("idle", "none", -1, 0)
<2>1. call \in [Readers -> Calling]
  BY <1>0 DEF CacheTypes
<2>2. CASE \E n \in Nodes : Cache!MissLocal(r, n)
  BY <2>2 DEF Cache!MissLocal
<2>3. CASE Cache!GetRedis(r)
<3>1. call'[r] = [pc |-> IF redis # Cache!None THEN "found" ELSE "select",
                  node |-> call[r].node, v |-> redis.v, left |-> Hold]
  BY <2>1, <2>3 DEF Cache!GetRedis, Calling
<3>2. call' = [call EXCEPT ![r] = call'[r]]
  BY <2>1, <2>3 DEF Cache!GetRedis
<3> QED
  BY <3>1, <3>2
<2>4. CASE Cache!GetFails(r)
<3>1. call'[r] = [pc |-> "select", node |-> call[r].node, v |-> call[r].v, left |-> Hold]
  BY <2>1, <2>4 DEF Cache!GetFails, Calling
<3>2. call' = [call EXCEPT ![r] = call'[r]]
  BY <2>1, <2>4 DEF Cache!GetFails
<3> QED
  BY <3>1, <3>2
<2>5. CASE Cache!Select(r)
<3>1. call'[r] = [pc |-> "fill", node |-> call[r].node, v |-> row, left |-> Hold]
  BY <2>1, <2>5 DEF Cache!Select, Calling
<3>2. call' = [call EXCEPT ![r] = call'[r]]
  BY <2>1, <2>5 DEF Cache!Select
<3> QED
  BY <3>1, <3>2
<2>6. CASE Cache!FillFails(r)
  BY <2>6 DEF Cache!FillFails, Cache!Return, Cache!NoCall
<2> QED
  BY <2>2, <2>3, <2>4, <2>5, <2>6
<1>4. redis.v \in -1..MaxWrites /\ call[r].v \in -1..MaxWrites /\ call[r].node \in Nodes \cup {"none"}
<2>1. redis \in Copies(RedisTTL) /\ call[r] \in Calling
  BY <1>0 DEF CacheTypes
<2> QED
  BY <2>1, TimesAreNatural DEF Copies, Cache!None, Calling
<1>5. redis # Cache!None => AtMost(2 * Hold + RedisTTL - Hold, redis.v)
<2>1. redis \in Copies(RedisTTL) /\ replaced \in [0..MaxWrites -> Nat] /\ row \in 0..MaxWrites
  BY <1>0 DEF CacheTypes
<2> SUFFICES ASSUME redis # Cache!None PROVE AtMost(2 * Hold + RedisTTL - Hold, redis.v)
  OBVIOUS
<2>2. redis.left \in 0..RedisTTL /\ redis.v \in 0..row
  BY <2>1 DEF Copies, CopiesAreYoung, AtMost
<2>3. redis.v \in 0..MaxWrites /\ replaced[redis.v] \in Nat
  BY <2>1, <2>2, TimesAreNatural
<2> QED
  BY <2>1, <2>2, <2>3, TimesAreNatural DEF CopiesAreYoung, AtMost
<1>6. AtMost(Hold - Hold, row) /\ row \in -1..MaxWrites
  BY <1>0, TimesAreNatural DEF AtMost, CacheTypes
<1>7. call' \in [Readers -> Calling] /\ CallsAreYoung'
<2> DEFINE Rec(pc, node, v, left) == [pc |-> pc, node |-> node, v |-> v, left |-> left]
<2>2. CASE \E n \in Nodes : Going("get", n, -1, 0)
<3>1. PICK n \in Nodes : Going("get", n, -1, 0)
  BY <2>2
<3>2. Rec("get", n, -1, 0) \in Calling
  BY TimesAreNatural DEF Calling, CallPlaces
<3> QED
  BY <1>0, <1>1, <3>1, <3>2, OneCall
<2>3. CASE redis # Cache!None /\ Going("found", call[r].node, redis.v, Hold)
<3>1. Rec("found", call[r].node, redis.v, Hold) \in Calling
  BY <1>4, TimesAreNatural DEF Calling, CallPlaces
<3> QED
  BY <1>0, <1>1, <1>5, <2>3, <3>1, OneCall
<2>4. CASE \E v \in {redis.v, call[r].v} : Going("select", call[r].node, v, Hold)
<3>1. PICK v \in {redis.v, call[r].v} : Going("select", call[r].node, v, Hold)
  BY <2>4
<3>2. Rec("select", call[r].node, v, Hold) \in Calling
  BY <1>4, TimesAreNatural DEF Calling, CallPlaces
<3> QED
  BY <1>0, <1>1, <3>1, <3>2, OneCall
<2>5. CASE Going("fill", call[r].node, row, Hold)
<3>1. Rec("fill", call[r].node, row, Hold) \in Calling
  BY <1>4, <1>6, TimesAreNatural DEF Calling, CallPlaces
<3> QED
  BY <1>0, <1>1, <1>6, <2>5, <3>1, OneCall
<2>6. CASE Going("idle", "none", -1, 0)
<3>1. Rec("idle", "none", -1, 0) \in Calling
  BY NothingYet DEF Cache!NoCall
<3> QED
  BY <1>0, <1>1, <2>6, <3>1, OneCall
<2> QED
  BY <1>3, <2>2, <2>3, <2>4, <2>5, <2>6
<1> QED
  BY <1>0, <1>1, <1>7, SameMoment DEF CacheTypes, Cache!Writing

\* What is young enough is young enough for more.
LEMMA AtMostMore ==
    ASSUME NEW a \in Int, NEW b \in Int, a <= b, NEW v, AtMost(a, v), \A u \in 0..row : replaced[u] \in Nat
    PROVE  AtMost(b, v)
  BY DEF AtMost

\* Steps that fill a cache.
LEMMA FillCacheInv ==
    ASSUME CacheInv, NEW r \in Readers,
           Cache!FillFromRedis(r) \/ Cache!FillLocal(r) \/ Cache!FillRedis(r)
    PROVE  CacheInv'
<1> USE DEF CacheInv
<1>0. /\ CacheTypes /\ UNCHANGED <<row, replaced, writer>>
      /\ call \in [Readers -> Calling] /\ call[r] \in Calling /\ call[r].v \in -1..MaxWrites /\ call[r].left \in 0..Hold
      /\ row \in 0..MaxWrites /\ replaced \in [0..MaxWrites -> Nat]
      /\ local \in [Nodes -> Copies(LocalTTL)] /\ redis \in Copies(RedisTTL)
  BY DEF CacheTypes, Calling, Cache!FillFromRedis, Cache!FillLocal, Cache!FillRedis
<1>1. /\ call[r].pc = "found" => AtMost(2 * Hold + RedisTTL, call[r].v)
      /\ call[r].pc \in {"fill", "set"} => AtMost(Hold, call[r].v)
<2>1. \A v \in 0..row : replaced[v] \in Nat
  BY <1>0, TimesAreNatural
<2>2. /\ call[r].pc = "found" => AtMost(2 * Hold + RedisTTL - call[r].left, call[r].v)
      /\ call[r].pc \in {"fill", "set"} => AtMost(Hold - call[r].left, call[r].v)
  BY Zenon DEF CallsAreYoung
<2>3. /\ 2 * Hold + RedisTTL - call[r].left \in Int /\ 2 * Hold + RedisTTL \in Int
      /\ 2 * Hold + RedisTTL - call[r].left <= 2 * Hold + RedisTTL
      /\ Hold - call[r].left \in Int /\ Hold \in Int /\ Hold - call[r].left <= Hold
  BY <1>0, TimesAreNatural
<2>4. AtMost(2 * Hold + RedisTTL - call[r].left, call[r].v) => AtMost(2 * Hold + RedisTTL, call[r].v)
  BY <2>1, <2>3, AtMostMore, Zenon
<2>5. AtMost(Hold - call[r].left, call[r].v) => AtMost(Hold, call[r].v)
  BY <2>1, <2>3, AtMostMore, Zenon
<2> QED
  BY <2>2, <2>4, <2>5, Zenon
<1>2. call[r].pc \in {"found", "fill", "set"}
  BY DEF Cache!FillFromRedis, Cache!FillLocal, Cache!FillRedis
<1>3. call[r].v \in 0..MaxWrites
  BY <1>0, <1>1, <1>2, TimesAreNatural DEF AtMost
<1>4. call' \in [Readers -> Calling] /\ CallsAreYoung'
<2>1. CASE Cache!FillFromRedis(r) \/ Cache!FillRedis(r)
<3>1. call' = [call EXCEPT ![r] = Cache!NoCall]
  BY <2>1 DEF Cache!FillFromRedis, Cache!FillRedis, Cache!Return
<3>2. Cache!NoCall.pc = "idle"
  BY DEF Cache!NoCall
<3> QED
  BY <1>0, <3>1, <3>2, NothingYet, OneCall
<2>2. CASE Cache!FillLocal(r)
<3>1. call' = [call EXCEPT ![r] = call'[r]]
  BY <1>0, <2>2 DEF Cache!FillLocal
<3>2. call'[r] = [pc |-> "set", node |-> call[r].node, v |-> call[r].v, left |-> call[r].left]
  BY <1>0, <2>2 DEF Cache!FillLocal, Calling
<3>3. call'[r] \in Calling
  BY <1>0, <3>2 DEF Calling, CallPlaces
<3>4. call'[r].pc = "set" /\ AtMost(Hold - call'[r].left, call'[r].v)
  BY <1>0, <2>2, <3>2 DEF CallsAreYoung, Cache!FillLocal
<3> QED
  BY <1>0, <3>1, <3>3, <3>4, OneCall
<2> QED
  BY <2>1, <2>2
<1>5. /\ local' \in [Nodes -> Copies(LocalTTL)]
      /\ \A n \in Nodes : local'[n] = local[n] \/ AtMost(Cache!Lag - local'[n].left, local'[n].v)
<2> DEFINE new == [v |-> call[r].v, left |-> LocalTTL]
<2>1. local' = local \/ (local' = [local EXCEPT ![call[r].node] = new] /\ call[r].pc \in {"found", "fill"})
  BY DEF Cache!FillFromRedis, Cache!FillLocal, Cache!FillRedis, Cache!Keep
<2>2. new \in Copies(LocalTTL) /\ new.v = call[r].v /\ new.left = LocalTTL
  BY <1>3, TimesAreNatural DEF Copies
<2>3. AtMost(Cache!Lag - LocalTTL, call[r].v)
<3>1. Cache!Lag - LocalTTL = 2 * Hold + RedisTTL
  BY TimesAreNatural DEF Cache!Lag
<3>2. \A v \in 0..row : replaced[v] \in Nat
  BY <1>0, TimesAreNatural
<3> QED
  BY <1>1, <1>2, <3>1, <3>2, TimesAreNatural DEF AtMost
<2> HIDE DEF new
<2> QED
  BY <1>0, <2>1, <2>2, <2>3
<1>6. redis' \in Copies(RedisTTL) /\ (redis' = redis \/ AtMost(Hold + RedisTTL - redis'.left, redis'.v))
<2> DEFINE new == [v |-> call[r].v, left |-> RedisTTL]
<2>1. redis' = redis \/ (redis' = new /\ call[r].pc = "set")
  BY DEF Cache!FillFromRedis, Cache!FillLocal, Cache!FillRedis
<2>2. new \in Copies(RedisTTL) /\ new.v = call[r].v /\ new.left = RedisTTL
  BY <1>3, TimesAreNatural DEF Copies
<2>3. Hold + RedisTTL - RedisTTL = Hold
  BY TimesAreNatural
<2> HIDE DEF new
<2> QED
  BY <1>0, <1>1, <2>1, <2>2, <2>3
<1>7. Cache!Writing' => row < MaxWrites
  BY <1>0 DEF Cache!Writing, CacheTypes
<1> QED
  BY <1>0, <1>4, <1>5, <1>6, <1>7, SameMoment

\* A commit replaces the row's version now.
LEMMA CommitCacheInv == ASSUME CacheInv, Cache!Commit PROVE CacheInv'
<1> USE DEF CacheInv
<1>0. /\ CacheTypes /\ UNCHANGED <<local, redis, call>>
      /\ row \in 0..MaxWrites /\ row < MaxWrites /\ row' = row + 1 /\ replaced \in [0..MaxWrites -> Nat]
      /\ replaced' = [replaced EXCEPT ![row] = 0]
  BY DEF CacheTypes, Cache!Commit, Cache!Writing
<1>1. CacheTypes'
  BY <1>0, TimesAreNatural DEF CacheTypes, Cache!Commit, Cache!Writing, Cache!NoWrite
<1>2. ASSUME NEW age \in Nat, NEW v, AtMost(age, v) PROVE AtMost(age, v)'
  BY <1>0, <1>2, TimesAreNatural DEF AtMost
<1>3. CopiesAreYoung'
<2>1. ASSUME redis' # Cache!None PROVE AtMost(Hold + RedisTTL - redis.left, redis.v)'
<3>1. redis.left \in 0..RedisTTL
  BY <1>0, <2>1 DEF CacheTypes, Copies
<3>2. Hold + RedisTTL - redis.left \in Nat
  BY <3>1, TimesAreNatural
<3>3. AtMost(Hold + RedisTTL - redis.left, redis.v)
  BY <1>0, <2>1 DEF CopiesAreYoung
<3> QED
  BY <1>0, <1>2, <3>2, <3>3
<2>2. ASSUME NEW n \in Nodes, local'[n] # Cache!None
      PROVE  AtMost(Cache!Lag - local[n].left, local[n].v)'
<3>1. local[n].left \in 0..LocalTTL
  BY <1>0, <2>2 DEF CacheTypes, Copies
<3>2. Cache!Lag - local[n].left \in Nat
  BY <3>1, TimesAreNatural DEF Cache!Lag
<3>3. AtMost(Cache!Lag - local[n].left, local[n].v)
  BY <1>0, <2>2 DEF CopiesAreYoung
<3> QED
  BY <1>0, <1>2, <3>2, <3>3 DEF Cache!Lag
<2> QED
  BY <2>1, <2>2 DEF CopiesAreYoung, Cache!None
<1>4. CallsAreYoung'
<2> SUFFICES ASSUME NEW r \in Readers
             PROVE /\ call[r].pc = "found" => AtMost(2 * Hold + RedisTTL - call[r].left, call[r].v)'
                   /\ call[r].pc \in {"fill", "set"} => AtMost(Hold - call[r].left, call[r].v)'
  BY <1>0 DEF CallsAreYoung
<2>1. call[r].left \in 0..Hold
  BY <1>0 DEF CacheTypes, Calling
<2>2. 2 * Hold + RedisTTL - call[r].left \in Nat /\ Hold - call[r].left \in Nat
  BY <2>1, TimesAreNatural
<2> QED
  BY <1>0, <1>2, <2>2 DEF CallsAreYoung
<1> QED
  BY <1>1, <1>3, <1>4

\* A copy's time runs as its value grows older.
LEMMA OlderCopies ==
    ASSUME NEW ttl \in Nat, NEW c \in Copies(ttl)
    PROVE  /\ Cache!Older(c) \in Copies(ttl)
           /\ Cache!Older(c) # Cache!None =>
                  c # Cache!None /\ Cache!Older(c).v = c.v /\ Cache!Older(c).left = c.left - 1
<1>1. CASE c.left > 1
<2>1. c \in [v : 0..MaxWrites, left : 0..ttl] /\ c # Cache!None
  BY <1>1 DEF Copies, Cache!None
<2>2. c.left - 1 \in 0..ttl
  BY <1>1, <2>1
<2>3. Cache!Older(c) = [c EXCEPT !.left = c.left - 1]
  BY <1>1 DEF Cache!Older
<2> QED
  BY <2>1, <2>2, <2>3 DEF Copies
<1>2. CASE ~(c.left > 1)
  BY <1>2 DEF Cache!Older, Copies
<1> QED
  BY <1>1, <1>2

LEMMA MomentCacheInv == ASSUME CacheInv, Cache!Moment PROVE CacheInv'
<1> USE DEF CacheInv
<1>0. /\ CacheTypes /\ row' = row /\ row \in 0..MaxWrites
      /\ local \in [Nodes -> Copies(LocalTTL)] /\ redis \in Copies(RedisTTL)
      /\ call \in [Readers -> Calling] /\ replaced \in [0..MaxWrites -> Nat]
      /\ redis' = Cache!Older(redis) /\ local' = [n \in Nodes |-> Cache!Older(local[n])]
      /\ call' = [r \in Readers |-> IF call[r].left > 0 THEN [call[r] EXCEPT !.left = @ - 1] ELSE call[r]]
  BY DEF CacheTypes, Cache!Moment
<1>1. /\ replaced' \in [0..MaxWrites -> Nat]
      /\ \A v \in 0..MaxWrites : replaced'[v] <= replaced[v] + 1
  BY <1>0 DEF Cache!Moment
<1> DEFINE Then(age, v) == v \in 0..row' /\ (v = row' \/ replaced'[v] <= age)
<1>2. ASSUME NEW age \in Int, NEW v, AtMost(age, v) PROVE Then(age + 1, v)
<2>1. v \in 0..row /\ v \in 0..MaxWrites /\ replaced[v] \in Nat /\ replaced'[v] \in Nat
  BY <1>0, <1>1, <1>2, TimesAreNatural DEF AtMost
<2> QED
  BY <1>0, <1>1, <1>2, <2>1 DEF AtMost
<1>3. CopiesAreYoung'
<2>1. ASSUME redis' # Cache!None PROVE AtMost(Hold + RedisTTL - redis.left, redis.v)'
<3>1. redis # Cache!None /\ redis'.v = redis.v /\ redis'.left = redis.left - 1
  BY <1>0, <2>1, OlderCopies, TimesAreNatural
<3>2. redis.left \in 0..RedisTTL
  BY <1>0, <3>1 DEF Copies
<3>3. AtMost(Hold + RedisTTL - redis.left, redis.v)
  BY <3>1 DEF CopiesAreYoung
<3>4. /\ Hold + RedisTTL - redis.left \in Int
      /\ (Hold + RedisTTL - redis.left) + 1 = Hold + RedisTTL - (redis.left - 1)
  BY <3>2, TimesAreNatural
<3>5. Then(Hold + RedisTTL - redis'.left, redis'.v)
  BY <1>2, <3>1, <3>3, <3>4
<3> QED
  BY <3>5 DEF AtMost
<2>2. ASSUME NEW n \in Nodes, local'[n] # Cache!None
      PROVE  AtMost(Cache!Lag - local[n].left, local[n].v)'
<3>1. local[n] # Cache!None /\ local'[n].v = local[n].v /\ local'[n].left = local[n].left - 1
  BY <1>0, <2>2, OlderCopies, TimesAreNatural
<3>2. local[n].left \in 0..LocalTTL
  BY <1>0, <3>1 DEF Copies
<3>3. AtMost(Cache!Lag - local[n].left, local[n].v)
  BY <3>1 DEF CopiesAreYoung
<3>4. /\ Cache!Lag - local[n].left \in Int
      /\ (Cache!Lag - local[n].left) + 1 = Cache!Lag - (local[n].left - 1)
  BY <3>2, TimesAreNatural DEF Cache!Lag
<3>5. Then(Cache!Lag - local'[n].left, local'[n].v)
  BY <1>2, <3>1, <3>3, <3>4
<3> QED
  BY <3>5 DEF AtMost, Cache!Lag
<2> QED
  BY <2>1, <2>2 DEF CopiesAreYoung, Cache!None
<1>4. CallsAreYoung' /\ call' \in [Readers -> Calling]
<2> SUFFICES ASSUME NEW r \in Readers
             PROVE /\ call[r].pc = "found" => AtMost(2 * Hold + RedisTTL - call[r].left, call[r].v)'
                   /\ call[r].pc \in {"fill", "set"} => AtMost(Hold - call[r].left, call[r].v)'
                   /\ call'[r] \in Calling /\ call'[r].pc = call[r].pc
  BY <1>0 DEF CallsAreYoung
<2>1. call[r].left \in 0..Hold /\ call[r] \in Calling
  BY <1>0 DEF Calling
<2>2. CASE call[r].left > 0
<3>1. call[r].left - 1 \in 0..Hold
  BY <2>1, <2>2, TimesAreNatural
<3>2. call'[r].v = call[r].v /\ call'[r].left = call[r].left - 1 /\ call'[r].pc = call[r].pc /\ call'[r] \in Calling
  BY <1>0, <2>1, <2>2, <3>1 DEF Calling
<3>3. /\ 2 * Hold + RedisTTL - call[r].left \in Int /\ Hold - call[r].left \in Int
      /\ (2 * Hold + RedisTTL - call[r].left) + 1 = 2 * Hold + RedisTTL - (call[r].left - 1)
      /\ (Hold - call[r].left) + 1 = Hold - (call[r].left - 1)
  BY <2>1, TimesAreNatural
<3>4. call[r].pc = "found" => Then(2 * Hold + RedisTTL - call'[r].left, call'[r].v)
  BY <1>2, <3>2, <3>3 DEF CallsAreYoung
<3>5. call[r].pc \in {"fill", "set"} => Then(Hold - call'[r].left, call'[r].v)
  BY <1>2, <3>2, <3>3 DEF CallsAreYoung
<3> QED
  BY <3>2, <3>4, <3>5 DEF AtMost
<2>3. CASE ~(call[r].left > 0)
  BY <1>0, <2>1, <2>3 DEF Cache!Moment
<2> QED
  BY <2>2, <2>3
<1>5. CacheTypes'
<2>1. redis' \in Copies(RedisTTL) /\ local' \in [Nodes -> Copies(LocalTTL)]
  BY <1>0, OlderCopies, TimesAreNatural
<2> QED
  BY <1>0, <1>1, <1>4, <2>1 DEF CacheTypes, Cache!Moment, Cache!Writing
<1> QED
  BY <1>3, <1>4, <1>5

LEMMA NextCacheInv == ASSUME CacheInv, [Cache!Next]_(Cache!vars) PROVE CacheInv'
<1>1. CASE UNCHANGED Cache!vars
  BY <1>1 DEF Cache!vars, CacheInv, CacheTypes, CopiesAreYoung, CallsAreYoung, AtMost, Cache!Writing
<1> QED
  BY <1>1, ForgetCacheInv, CallCacheInv, FillCacheInv, CommitCacheInv, MomentCacheInv DEF Cache!Next

\* What a step is to the register.
LEMMA StepLags == ASSUME CacheInv, [Cache!Next]_(Cache!vars) PROVE [Cache!Lagging!Next]_(Cache!Lagging!vars)
<1> USE DEF CacheInv
<1>0. /\ row \in 0..MaxWrites /\ replaced \in [0..MaxWrites -> Nat]
      /\ local \in [Nodes -> Copies(LocalTTL)] /\ call \in [Readers -> Calling]
      /\ \A v \in 0..row : replaced[v] \in Nat
  BY TimesAreNatural DEF CacheTypes
<1>1. ASSUME NEW n \in Nodes, Cache!HitLocal(n) PROVE Cache!Lagging!Read
<2>1. local[n].left \in 0..LocalTTL /\ AtMost(Cache!Lag - local[n].left, local[n].v)
  BY <1>0, <1>1 DEF Cache!HitLocal, CopiesAreYoung, Copies
<2>2. AtMost(Cache!Lag, local[n].v)
  BY <1>0, <2>1, TimesAreNatural DEF AtMost, Cache!Lag
<2> QED
  BY <1>1, <2>2 DEF Cache!HitLocal, Cache!Lagging!Read, AtMost
<1>2. ASSUME NEW r \in Readers, Cache!FillFromRedis(r) \/ Cache!FillRedis(r) \/ Cache!FillFails(r)
      PROVE  Cache!Lagging!Read
<2>1. call[r].left \in 0..Hold
  BY <1>0 DEF Calling
<2>2. AtMost(2 * Hold + RedisTTL - call[r].left, call[r].v) \/ AtMost(Hold - call[r].left, call[r].v)
  BY <1>2, Zenon DEF Cache!FillFromRedis, Cache!FillRedis, Cache!FillFails, CallsAreYoung
<2>3. /\ 2 * Hold + RedisTTL - call[r].left \in Int /\ Hold - call[r].left \in Int /\ Cache!Lag \in Int
      /\ 2 * Hold + RedisTTL - call[r].left <= Cache!Lag /\ Hold - call[r].left <= Cache!Lag
  BY <2>1, TimesAreNatural DEF Cache!Lag
<2>4. AtMost(Cache!Lag, call[r].v)
  BY <1>0, <2>2, <2>3, AtMostMore, Zenon
<2> QED
  BY <1>2, <2>4
     DEF Cache!FillFromRedis, Cache!FillRedis, Cache!FillFails, Cache!Return, Cache!Lagging!Read, AtMost
<1>3. ASSUME Cache!Commit PROVE Cache!Lagging!Write
  BY <1>3 DEF Cache!Commit, Cache!Lagging!Write, CacheTypes, Cache!Writing
<1>4. ASSUME Cache!Moment PROVE Cache!Lagging!Moment
  BY <1>4 DEF Cache!Moment, Cache!Lagging!Moment
<1>5. ASSUME \/ UNCHANGED Cache!vars
             \/ \E n \in Nodes : \/ Cache!Write(n) \/ Cache!Notice(n)
                                 \/ Cache!Disconnect(n) \/ Cache!Reconnect(n) \/ Cache!Restart(n)
             \/ Cache!InvalidateRedis \/ Cache!InvalidateLocal
             \/ Cache!Publish \/ Cache!PublishFails \/ Cache!InvalidateFails
             \/ \E r \in Readers : \/ \E n \in Nodes : Cache!MissLocal(r, n)
                                   \/ Cache!GetRedis(r) \/ Cache!GetFails(r) \/ Cache!Select(r)
                                   \/ Cache!FillLocal(r)
      PROVE  UNCHANGED Cache!Lagging!vars
  BY <1>5 DEF Cache!vars, Cache!Write, Cache!Notice, Cache!Disconnect, Cache!Reconnect, Cache!Restart,
     Cache!InvalidateRedis, Cache!InvalidateLocal, Cache!Publish, Cache!PublishFails, Cache!InvalidateFails,
     Cache!MissLocal, Cache!GetRedis, Cache!GetFails, Cache!Select, Cache!FillLocal, Cache!Lagging!vars
<1> QED
  BY <1>1, <1>2, <1>3, <1>4, <1>5 DEF Cache!Next, Cache!Lagging!Next

\* The cached function is a register whose reads lag by the two times to live
\* and the time of two calls at most, for any number of processes and calls,
\* any times and any number of writes and faults.
THEOREM CacheImplementsLaggingReads == Cache!Spec => ReadsLag
<1>1. Cache!Init => CacheInv /\ Cache!Lagging!Init
  BY InitCacheInv
<1>2. CacheInv /\ [Cache!Next]_(Cache!vars) => CacheInv'
  BY NextCacheInv
<1>3. CacheInv /\ [Cache!Next]_(Cache!vars) => [Cache!Lagging!Next]_(Cache!Lagging!vars)
  BY StepLags
<1> QED
  BY <1>1, <1>2, <1>3, PTL DEF Cache!Spec, ReadsLag, Cache!ReadsLag, Cache!Lagging!Spec

-----------------------------------------------------------------------------
(***************************************************************************)
(* Copies and notices.  While no read overlaps a write and no notice is    *)
(* lost, every copy is the row's, or its notice is on the way.             *)
(***************************************************************************)

AgreeTypes ==
    /\ channel \in [Nodes -> Nat] /\ listening \in [Nodes -> BOOLEAN] /\ overlap \in BOOLEAN
    /\ DOMAIN local = Nodes /\ DOMAIN call = Readers
    /\ writer \in [pc : {"idle", "redis", "local", "publish", "commit"}, node : Nodes \cup {"none"}]

WriterAlone == Cache!Writing => \A r \in Readers : call[r].pc = "idle"

RedisAgrees ==
    /\ redis # Cache!None => redis.v = row
    /\ writer.pc \in {"local", "publish", "commit"} => redis = Cache!None

LocalAgrees ==
    \A n \in Nodes :
        local[n] # Cache!None /\ channel[n] = 0 => local[n].v = row /\ writer.pc # "commit"

CallsAgree == \A r \in Readers : call[r].pc \in {"found", "fill", "set"} => call[r].v = row

AgreeInv ==
    /\ AgreeTypes
    /\ matching /\ ~overlap => WriterAlone /\ RedisAgrees /\ LocalAgrees /\ CallsAgree

LEMMA InitAgreeInv == Cache!Init => AgreeInv
<1> SUFFICES ASSUME Cache!Init PROVE AgreeInv
  OBVIOUS
<1>1. AgreeTypes
  BY DEF Cache!Init, AgreeTypes, Cache!NoWrite
<1>2. redis = Cache!None /\ writer.pc = "idle" /\ (\A n \in Nodes : local[n] = Cache!None)
      /\ \A r \in Readers : call[r].pc = "idle"
  BY DEF Cache!Init, Cache!NoWrite, Cache!NoCall
<1> QED
  BY <1>1, <1>2 DEF AgreeInv, WriterAlone, RedisAgrees, LocalAgrees, CallsAgree, Cache!Writing

\* Steps of a call.
LEMMA CallAgreeInv ==
    ASSUME AgreeInv, CacheInv, NEW r \in Readers,
           \/ \E n \in Nodes : Cache!MissLocal(r, n)
           \/ Cache!GetRedis(r) \/ Cache!GetFails(r) \/ Cache!FillFromRedis(r) \/ Cache!Select(r)
           \/ Cache!FillLocal(r) \/ Cache!FillRedis(r) \/ Cache!FillFails(r)
    PROVE  AgreeInv'
<1> USE DEF AgreeInv
<1>1. AgreeTypes'
  BY DEF AgreeTypes, Cache!MissLocal, Cache!GetRedis, Cache!GetFails, Cache!FillFromRedis, Cache!Select,
     Cache!FillLocal, Cache!FillRedis, Cache!FillFails, Cache!Keep, Cache!Return
<1>2. UNCHANGED <<row, writer, matching, channel>> /\ (overlap => overlap') /\ DOMAIN call = Readers
      /\ DOMAIN local = Nodes
  BY DEF AgreeTypes, Cache!MissLocal, Cache!GetRedis, Cache!GetFails, Cache!FillFromRedis, Cache!Select,
     Cache!FillLocal, Cache!FillRedis, Cache!FillFails
<1> SUFFICES ASSUME matching, ~overlap' PROVE (WriterAlone /\ RedisAgrees /\ LocalAgrees /\ CallsAgree)'
  BY <1>1, <1>2
<1>3. WriterAlone /\ RedisAgrees /\ LocalAgrees /\ CallsAgree
  BY <1>2
<1>4. ~Cache!Writing
  BY <1>2, <1>3
     DEF WriterAlone, Cache!MissLocal, Cache!GetRedis, Cache!GetFails, Cache!FillFromRedis, Cache!Select,
         Cache!FillLocal, Cache!FillRedis, Cache!FillFails
<1>5. /\ \A q \in Readers : q # r => call'[q] = call[q]
      /\ call'[r].pc \in {"found", "fill", "set"} => call'[r].v = row
<2>1. CASE \E n \in Nodes : Cache!MissLocal(r, n)
  BY <1>2, <2>1 DEF Cache!MissLocal
<2>2. CASE Cache!GetRedis(r)
  BY <1>2, <1>3, <2>2 DEF Cache!GetRedis, RedisAgrees
<2>3. CASE Cache!GetFails(r) \/ Cache!Select(r)
<3>1. call[r] \in Calling
  BY DEF CacheInv, CacheTypes
<3> QED
  BY <1>2, <2>3, <3>1 DEF Cache!GetFails, Cache!Select, Calling
<2>4. CASE Cache!FillLocal(r)
  BY <1>2, <1>3, <2>4 DEF Cache!FillLocal, CallsAgree
<2>5. CASE Cache!FillFromRedis(r) \/ Cache!FillRedis(r) \/ Cache!FillFails(r)
  BY <1>2, <2>5 DEF Cache!FillFromRedis, Cache!FillRedis, Cache!FillFails, Cache!Return, Cache!NoCall
<2> QED
  BY <2>1, <2>2, <2>3, <2>4, <2>5
<1>6. redis' = redis \/ redis'.v = row
<2>1. redis' = redis \/ (redis' = [v |-> call[r].v, left |-> RedisTTL] /\ call[r].pc = "set")
  BY DEF Cache!MissLocal, Cache!GetRedis, Cache!GetFails, Cache!FillFromRedis, Cache!Select,
     Cache!FillLocal, Cache!FillRedis, Cache!FillFails
<2> QED
  BY <1>3, <2>1 DEF CallsAgree
<1>7. \A n \in Nodes : local'[n] = local[n] \/ local'[n].v = row
<2>1. local' = local \/ (Cache!Keep(r) /\ call[r].pc \in {"found", "fill"})
  BY DEF Cache!MissLocal, Cache!GetRedis, Cache!GetFails, Cache!FillFromRedis, Cache!Select,
     Cache!FillLocal, Cache!FillRedis, Cache!FillFails
<2> QED
  BY <1>2, <1>3, <2>1 DEF CallsAgree, Cache!Keep
<1> QED
  BY <1>2, <1>3, <1>4, <1>5, <1>6, <1>7
     DEF WriterAlone, RedisAgrees, LocalAgrees, CallsAgree, Cache!Writing, Cache!None

\* Steps of a write.
LEMMA WriteAgreeInv ==
    ASSUME AgreeInv, Cache!InvalidateRedis \/ Cache!InvalidateLocal \/ \E n \in Nodes : Cache!Write(n)
    PROVE  AgreeInv'
<1> USE DEF AgreeInv
<1>1. /\ UNCHANGED <<row, call, channel, matching, listening>> /\ (overlap => overlap')
      /\ overlap' \in BOOLEAN /\ AgreeTypes
  BY DEF AgreeTypes, Cache!Write, Cache!InvalidateRedis, Cache!InvalidateLocal
<1>2. writer' \in [pc : {"redis", "local", "publish"}, node : Nodes \cup {"none"}]
<2>1. writer \in [pc : {"idle", "redis", "local", "publish", "commit"}, node : Nodes \cup {"none"}]
  BY <1>1 DEF AgreeTypes
<2>2. CASE Cache!InvalidateRedis
  BY <2>1, <2>2 DEF Cache!InvalidateRedis
<2>3. CASE Cache!InvalidateLocal
  BY <2>1, <2>3 DEF Cache!InvalidateLocal
<2>4. CASE \E n \in Nodes : Cache!Write(n)
  BY <2>4 DEF Cache!Write
<2> QED
  BY <2>2, <2>3, <2>4
<1>3. DOMAIN local' = Nodes /\ \A m \in Nodes : local'[m] = local[m] \/ local'[m] = Cache!None
  BY <1>1 DEF AgreeTypes, Cache!Write, Cache!InvalidateRedis, Cache!InvalidateLocal
<1>4. AgreeTypes'
  BY <1>1, <1>2, <1>3 DEF AgreeTypes
<1> SUFFICES ASSUME matching, ~overlap' PROVE (WriterAlone /\ RedisAgrees /\ LocalAgrees /\ CallsAgree)'
  BY <1>1, <1>4
<1>5. WriterAlone /\ RedisAgrees /\ LocalAgrees /\ CallsAgree
  BY <1>1
<1>6. Cache!Writing \/ ~Cache!Reading
  BY DEF Cache!Write, Cache!InvalidateRedis, Cache!InvalidateLocal, Cache!Writing
<1>7. WriterAlone' /\ CallsAgree'
  BY <1>1, <1>5, <1>6 DEF WriterAlone, CallsAgree, Cache!Reading
<1>8. RedisAgrees'
<2>1. CASE Cache!InvalidateRedis
  BY <1>1, <2>1 DEF RedisAgrees, Cache!InvalidateRedis
<2>2. CASE Cache!InvalidateLocal
  BY <1>1, <1>5, <2>2 DEF RedisAgrees, Cache!InvalidateLocal
<2>3. CASE \E n \in Nodes : Cache!Write(n)
  BY <1>1, <1>5, <2>3 DEF RedisAgrees, Cache!Write
<2> QED
  BY <2>1, <2>2, <2>3
<1>9. LocalAgrees'
  BY <1>1, <1>2, <1>3, <1>5 DEF LocalAgrees
<1> QED
  BY <1>7, <1>8, <1>9

LEMMA PublishAgreeInv ==
    ASSUME AgreeInv, Cache!Publish \/ Cache!PublishFails \/ Cache!InvalidateFails \/ Cache!Commit
    PROVE  AgreeInv'
<1> USE DEF AgreeInv
<1>1. /\ UNCHANGED <<redis, local, call, matching, listening>> /\ (overlap => overlap')
      /\ overlap' \in BOOLEAN /\ AgreeTypes /\ Cache!Writing
  BY DEF AgreeTypes, Cache!Publish, Cache!PublishFails, Cache!InvalidateFails, Cache!Commit, Cache!Writing
<1>2. writer' \in [pc : {"idle", "commit"}, node : Nodes \cup {"none"}]
<2>1. writer \in [pc : {"idle", "redis", "local", "publish", "commit"}, node : Nodes \cup {"none"}]
  BY <1>1 DEF AgreeTypes
<2>2. CASE Cache!Publish \/ Cache!PublishFails
  BY <2>1, <2>2 DEF Cache!Publish, Cache!PublishFails
<2>3. CASE Cache!InvalidateFails \/ Cache!Commit
  BY <2>3 DEF Cache!InvalidateFails, Cache!Commit, Cache!NoWrite
<2> QED
  BY <2>2, <2>3
<1>3. channel' \in [Nodes -> Nat]
  BY <1>1 DEF AgreeTypes, Cache!Publish, Cache!PublishFails, Cache!InvalidateFails, Cache!Commit
<1>4. AgreeTypes'
  BY <1>1, <1>2, <1>3 DEF AgreeTypes
<1> SUFFICES ASSUME matching, ~overlap' PROVE (WriterAlone /\ RedisAgrees /\ LocalAgrees /\ CallsAgree)'
  BY <1>1, <1>4
<1>5. WriterAlone /\ RedisAgrees /\ LocalAgrees /\ CallsAgree
  BY <1>1
<1>6. \A r \in Readers : call[r].pc = "idle"
  BY <1>1, <1>5 DEF WriterAlone
<1>7. (WriterAlone /\ CallsAgree)'
  BY <1>1, <1>6 DEF WriterAlone, CallsAgree
<1>8. CASE Cache!Publish
<2>1. \A n \in Nodes : channel'[n] # 0
<3>1. channel \in [Nodes -> Nat] /\ \A n \in Nodes : listening[n]
  BY <1>1, <1>8 DEF AgreeTypes, Cache!Publish
<3> QED
  BY <1>8, <3>1 DEF Cache!Publish
<2>2. row' = row /\ writer.pc = "publish"
  BY <1>8 DEF Cache!Publish
<2> QED
  BY <1>1, <1>5, <1>7, <2>1, <2>2 DEF RedisAgrees, LocalAgrees
<1>9. CASE Cache!InvalidateFails
  BY <1>1, <1>5, <1>7, <1>9 DEF RedisAgrees, LocalAgrees, Cache!InvalidateFails, Cache!NoWrite
<1>10. CASE Cache!Commit
<2>1. writer.pc = "commit" /\ writer'.pc = "idle" /\ UNCHANGED channel
  BY <1>10 DEF Cache!Commit, Cache!NoWrite
<2> QED
  BY <1>1, <1>5, <1>7, <2>1 DEF RedisAgrees, LocalAgrees
<1>11. ~Cache!PublishFails
  BY DEF Cache!PublishFails
<1> QED
  BY <1>8, <1>9, <1>10, <1>11

\* Steps of the listeners, and of time.
LEMMA ListenAgreeInv ==
    ASSUME AgreeInv, NEW n \in Nodes,
           \/ Cache!HitLocal(n) \/ Cache!Notice(n) \/ Cache!Disconnect(n) \/ Cache!Reconnect(n)
           \/ Cache!Restart(n)
    PROVE  AgreeInv'
<1> USE DEF AgreeInv
<1>1. /\ UNCHANGED <<row, redis, matching>> /\ (overlap => overlap')
      /\ overlap' \in BOOLEAN /\ AgreeTypes
  BY DEF AgreeTypes, Cache!HitLocal, Cache!Notice, Cache!Disconnect, Cache!Reconnect, Cache!Restart
<1>2. /\ channel' \in [Nodes -> Nat] /\ listening' \in [Nodes -> BOOLEAN] /\ DOMAIN local' = Nodes
      /\ writer' = writer \/ writer' = Cache!NoWrite
<2>1. channel \in [Nodes -> Nat] /\ listening \in [Nodes -> BOOLEAN] /\ DOMAIN local = Nodes
  BY <1>1 DEF AgreeTypes
<2>2. CASE Cache!HitLocal(n) \/ Cache!Reconnect(n)
  BY <2>1, <2>2 DEF Cache!HitLocal, Cache!Reconnect
<2>3. CASE Cache!Notice(n)
  BY <2>1, <2>3 DEF Cache!Notice
<2>4. CASE Cache!Disconnect(n) \/ Cache!Restart(n)
<3>1. /\ channel' = [channel EXCEPT ![n] = 0]
      /\ listening' = [listening EXCEPT ![n] = FALSE] \/ listening' = [listening EXCEPT ![n] = TRUE]
      /\ local' = local \/ local' = [local EXCEPT ![n] = Cache!None]
      /\ writer' = writer \/ writer' = Cache!NoWrite
  BY <2>4, Zenon DEF Cache!Disconnect, Cache!Restart
<3> QED
  BY <2>1, <3>1
<2> QED
  BY <2>2, <2>3, <2>4
<1>3. DOMAIN call' = Readers /\ \A r \in Readers : call'[r] = call[r] \/ call'[r] = Cache!NoCall
  BY <1>1 DEF AgreeTypes, Cache!HitLocal, Cache!Notice, Cache!Disconnect, Cache!Reconnect, Cache!Restart
<1>4. AgreeTypes'
  BY <1>1, <1>2, <1>3 DEF AgreeTypes, Cache!NoWrite
<1> SUFFICES ASSUME matching, ~overlap' PROVE (WriterAlone /\ RedisAgrees /\ LocalAgrees /\ CallsAgree)'
  BY <1>1, <1>4
<1>5. WriterAlone /\ RedisAgrees /\ LocalAgrees /\ CallsAgree
  BY <1>1
<1>6. writer' = writer \/ writer'.pc = "idle"
  BY <1>2 DEF Cache!NoWrite
<1>7. \A r \in Readers : call'[r] = call[r] \/ call'[r].pc = "idle"
  BY <1>3 DEF Cache!NoCall
<1>8. \A m \in Nodes : \/ local'[m] = local[m] /\ channel'[m] = channel[m]
                       \/ local'[m] = Cache!None
<2>1. channel \in [Nodes -> Nat] /\ DOMAIN local = Nodes
  BY <1>1 DEF AgreeTypes
<2>2. CASE Cache!HitLocal(n) \/ Cache!Reconnect(n)
  BY <2>1, <2>2 DEF Cache!HitLocal, Cache!Reconnect
<2>3. CASE Cache!Notice(n) \/ Cache!Restart(n)
  BY <2>1, <2>3 DEF Cache!Notice, Cache!Restart
<2>4. CASE Cache!Disconnect(n)
<3>1. channel[n] = 0
<4>1. ~(channel[n] > 0)
  BY <2>4, Zenon DEF Cache!Disconnect
<4> QED
  BY <2>1, <4>1
<3>2. channel' = [channel EXCEPT ![n] = 0] /\ local' = local
  BY <2>4, Zenon DEF Cache!Disconnect
<3> QED
  BY <2>1, <3>1, <3>2
<2> QED
  BY <2>2, <2>3, <2>4
<1>9. WriterAlone' /\ CallsAgree'
  BY <1>1, <1>5, <1>6, <1>7 DEF WriterAlone, CallsAgree, Cache!Writing
<1>10. RedisAgrees'
  BY <1>1, <1>5, <1>6 DEF RedisAgrees
<1>11. LocalAgrees'
  BY <1>1, <1>5, <1>6, <1>8 DEF LocalAgrees
<1> QED
  BY <1>9, <1>10, <1>11

LEMMA MomentAgreeInv == ASSUME AgreeInv, CacheInv, Cache!Moment PROVE AgreeInv'
<1> USE DEF AgreeInv, Cache!Moment
<1>1. AgreeTypes'
  BY DEF AgreeTypes
<1> SUFFICES ASSUME matching, ~overlap' PROVE (WriterAlone /\ RedisAgrees /\ LocalAgrees /\ CallsAgree)'
  BY <1>1
<1>2. /\ UNCHANGED <<row, writer, channel>> /\ WriterAlone /\ RedisAgrees /\ LocalAgrees /\ CallsAgree
      /\ redis \in Copies(RedisTTL) /\ local \in [Nodes -> Copies(LocalTTL)] /\ call \in [Readers -> Calling]
  BY DEF CacheInv, CacheTypes
<1>3. redis' # Cache!None => redis # Cache!None /\ redis'.v = redis.v
  BY <1>2, OlderCopies, TimesAreNatural
<1>4. \A n \in Nodes : local'[n] # Cache!None => local[n] # Cache!None /\ local'[n].v = local[n].v
  BY <1>2, OlderCopies, TimesAreNatural
<1>5. \A r \in Readers : call'[r].pc = call[r].pc /\ call'[r].v = call[r].v
  BY <1>2 DEF Calling
<1> QED
  BY <1>2, <1>3, <1>4, <1>5 DEF WriterAlone, RedisAgrees, LocalAgrees, CallsAgree, Cache!Writing, Cache!None

LEMMA NextAgreeInv == ASSUME AgreeInv, CacheInv, [Cache!Next]_(Cache!vars) PROVE AgreeInv'
<1>1. CASE UNCHANGED Cache!vars
  BY <1>1 DEF Cache!vars, AgreeInv, AgreeTypes, WriterAlone, RedisAgrees, LocalAgrees, CallsAgree, Cache!Writing
<1> QED
  BY <1>1, CallAgreeInv, WriteAgreeInv, PublishAgreeInv, ListenAgreeInv, MomentAgreeInv DEF Cache!Next

\* Where the keys match, a copy is out of step with the row only until its
\* notice arrives, or after an overlap or a lost notice: for any number of
\* processes, calls, writes and faults.
THEOREM CopiesAlwaysAgree == Cache!Spec => []CopiesAgree
<1>1. Cache!Init => CacheInv /\ AgreeInv
  BY InitCacheInv, InitAgreeInv
<1>2. (CacheInv /\ AgreeInv) /\ [Cache!Next]_(Cache!vars) => (CacheInv /\ AgreeInv)'
  BY NextCacheInv, NextAgreeInv
<1>3. AgreeInv => CopiesAgree
  BY DEF AgreeInv, RedisAgrees, LocalAgrees, CopiesAgree, Cache!CopiesAgree
<1> QED
  BY <1>1, <1>2, <1>3, PTL DEF Cache!Spec

-----------------------------------------------------------------------------
(***************************************************************************)
(* The operation log.  The log of an answered request moves from the queue *)
(* to the batch, from there to the table or among the lost, and from the   *)
(* table among the deleted; of a request that was not answered there is    *)
(* none.                                                                   *)
(***************************************************************************)

InTable(r) == \E x \in table : x.log = r

\* No log stands twice among those on their way.
Distinct(logs) == \A i, j \in DOMAIN logs : logs[i] = logs[j] => i = j
Apart(logs, others) == \A i \in DOMAIN logs, j \in DOMAIN others : logs[i] # others[j]
NoneTwice == Distinct(queue) /\ Distinct(batch) /\ Apart(queue, batch)

\* An answered request has its log in one place.
OnePlace(r) ==
    request[r] = "answered" =>
        \/ Log!In(r, queue) /\ ~Log!In(r, batch) /\ ~InTable(r) /\ r \notin lost /\ r \notin deleted
        \/ ~Log!In(r, queue) /\ Log!In(r, batch) /\ ~InTable(r) /\ r \notin lost /\ r \notin deleted
        \/ ~Log!In(r, queue) /\ ~Log!In(r, batch) /\ InTable(r) /\ r \notin lost /\ r \notin deleted
        \/ ~Log!In(r, queue) /\ ~Log!In(r, batch) /\ ~InTable(r) /\ r \in lost /\ r \notin deleted
        \/ ~Log!In(r, queue) /\ ~Log!In(r, batch) /\ ~InTable(r) /\ r \notin lost /\ r \in deleted

NoPlace(r) ==
    request[r] # "answered" =>
        /\ ~Log!In(r, queue) /\ ~Log!In(r, batch) /\ ~InTable(r) /\ r \notin deleted
        /\ r \in lost => request[r] = "cut"

LogTypes ==
    /\ request \in [Requests -> {"none", "running", "putting", "answered", "cut"}]
    /\ failed \in [Requests -> BOOLEAN]
    /\ queue \in Seq(Requests) /\ batch \in Seq(Requests)

RowsTell == \A x \in table : x.log \in Requests /\ x.failed = failed[x.log]

LogInv == LogTypes /\ NoneTwice /\ RowsTell /\ \A r \in Requests : OnePlace(r) /\ NoPlace(r)

LEMMA AppendedLogs ==
    ASSUME NEW S, NEW logs \in Seq(S), NEW q \in S
    PROVE  /\ Append(logs, q) \in Seq(S)
           /\ \A r : Log!In(r, Append(logs, q)) <=> (Log!In(r, logs) \/ r = q)
           /\ Distinct(logs) /\ ~Log!In(q, logs) => Distinct(Append(logs, q))
<1>1. /\ Append(logs, q) \in Seq(S) /\ Len(Append(logs, q)) = Len(logs) + 1
      /\ \A k \in 1..Len(logs) : Append(logs, q)[k] = logs[k]
      /\ Append(logs, q)[Len(logs) + 1] = q
      /\ Len(logs) \in Nat /\ DOMAIN logs = 1..Len(logs) /\ DOMAIN Append(logs, q) = 1..Len(logs) + 1
  OBVIOUS
<1>2. ASSUME NEW r PROVE Log!In(r, Append(logs, q)) <=> (Log!In(r, logs) \/ r = q)
  BY <1>1 DEF Log!In
<1>3. Distinct(logs) /\ ~Log!In(q, logs) => Distinct(Append(logs, q))
  BY <1>1 DEF Log!In, Distinct
<1> QED
  BY <1>1, <1>2, <1>3

LEMMA TakenLogs ==
    ASSUME NEW S, NEW logs \in Seq(S), logs # <<>>, Distinct(logs)
    PROVE  /\ Tail(logs) \in Seq(S) /\ Head(logs) \in S /\ Log!In(Head(logs), logs)
           /\ \A r : Log!In(r, Tail(logs)) <=> (Log!In(r, logs) /\ r # Head(logs))
           /\ Distinct(Tail(logs))
<1>1. /\ Tail(logs) \in Seq(S) /\ Head(logs) = logs[1] /\ Len(logs) \in Nat /\ Len(logs) >= 1
      /\ Head(logs) \in S
      /\ DOMAIN logs = 1..Len(logs) /\ DOMAIN Tail(logs) = 1..(Len(logs) - 1)
      /\ \A k \in 1..(Len(logs) - 1) : Tail(logs)[k] = logs[k + 1]
  OBVIOUS
<1>2. ASSUME NEW r PROVE Log!In(r, Tail(logs)) <=> (Log!In(r, logs) /\ r # Head(logs))
<2>1. ASSUME Log!In(r, Tail(logs)) PROVE Log!In(r, logs) /\ r # Head(logs)
<3>1. PICK k \in 1..(Len(logs) - 1) : logs[k + 1] = r
  BY <1>1, <2>1 DEF Log!In
<3> QED
  BY <1>1, <3>1 DEF Log!In, Distinct
<2>2. ASSUME Log!In(r, logs), r # Head(logs) PROVE Log!In(r, Tail(logs))
<3>1. PICK k \in 1..Len(logs) : logs[k] = r /\ k # 1
  BY <1>1, <2>2 DEF Log!In
<3>2. k - 1 \in 1..(Len(logs) - 1) /\ Tail(logs)[k - 1] = r
  BY <1>1, <3>1
<3> QED
  BY <1>1, <3>2 DEF Log!In
<2> QED
  BY <2>1, <2>2
<1>3. Distinct(Tail(logs))
  BY <1>1 DEF Distinct
<1>4. Log!In(Head(logs), logs)
  BY <1>1 DEF Log!In
<1> QED
  BY <1>1, <1>2, <1>3, <1>4

LEMMA ApartLogs ==
    ASSUME NEW logs, NEW others
    PROVE  Apart(logs, others) <=> \A r : ~(Log!In(r, logs) /\ Log!In(r, others))
BY DEF Apart, Log!In

LEMMA NoLogs == <<>> \in Seq(Requests) /\ Distinct(<<>>) /\ \A r : ~Log!In(r, <<>>)
BY DEF Distinct, Log!In

LEMMA InitLogInv == Log!Init => LogInv
<1> SUFFICES ASSUME Log!Init PROVE LogInv
  OBVIOUS
<1>1. LogTypes /\ NoneTwice /\ RowsTell
  BY NoLogs, ApartLogs DEF Log!Init, LogTypes, NoneTwice, RowsTell
<1>2. \A r \in Requests : OnePlace(r) /\ NoPlace(r)
  BY NoLogs DEF Log!Init, OnePlace, NoPlace, InTable
<1> QED
  BY <1>1, <1>2 DEF LogInv

\* The request goes on, and nothing moves.
LEMMA HandleLogInv ==
    ASSUME LogInv, NEW r \in Requests, Log!Handle(r) \/ \E error \in BOOLEAN : Log!Finish(r, error)
    PROVE  LogInv'
<1> USE DEF LogInv
<1>1. /\ UNCHANGED <<queue, batch, table, lost, deleted>> /\ request[r] \in {"none", "running"}
      /\ \/ request' = [request EXCEPT ![r] = "running"]
         \/ request' = [request EXCEPT ![r] = "putting"]
      /\ failed' = failed \/ \E error \in BOOLEAN : failed' = [failed EXCEPT ![r] = error]
  BY DEF Log!Handle, Log!Finish
<1>2. request \in [Requests -> {"none", "running", "putting", "answered", "cut"}] /\ failed \in [Requests -> BOOLEAN]
  BY DEF LogTypes
<1>3. LogTypes' /\ NoneTwice'
  BY <1>1, <1>2 DEF LogTypes, NoneTwice, Distinct, Apart
<1>4. /\ request'[r] \in {"running", "putting"} /\ \A q \in Requests : q # r => request'[q] = request[q]
      /\ \A q \in Requests : q # r => failed'[q] = failed[q]
  BY <1>1, <1>2
<1>5. ~InTable(r)
  BY <1>1 DEF NoPlace
<1>6. RowsTell'
  BY <1>1, <1>4, <1>5 DEF RowsTell, InTable
<1>7. \A q \in Requests : (OnePlace(q) /\ NoPlace(q))'
  BY <1>1, <1>4 DEF OnePlace, NoPlace, Log!In, InTable
<1> QED
  BY <1>3, <1>6, <1>7

LEMMA PutLogInv == ASSUME LogInv, NEW r \in Requests, Log!Put(r) PROVE LogInv'
<1> USE DEF LogInv
<1>1. /\ UNCHANGED <<batch, table, lost, deleted, failed>> /\ request[r] = "putting" /\ queue' = Append(queue, r)
      /\ request' = [request EXCEPT ![r] = "answered"]
      /\ LogTypes /\ NoneTwice /\ RowsTell /\ NoPlace(r)
  BY DEF Log!Put
<1>2. request \in [Requests -> {"none", "running", "putting", "answered", "cut"}] /\ queue \in Seq(Requests)
  BY <1>1 DEF LogTypes
<1>3. ~Log!In(r, queue) /\ ~Log!In(r, batch) /\ ~InTable(r) /\ r \notin deleted /\ r \notin lost
  BY <1>1 DEF NoPlace
<1>4. /\ queue' \in Seq(Requests) /\ Distinct(queue')
      /\ \A q : Log!In(q, queue') <=> (Log!In(q, queue) \/ q = r)
  BY <1>1, <1>2, <1>3, AppendedLogs DEF NoneTwice
<1>5. LogTypes'
  BY <1>1, <1>2, <1>4 DEF LogTypes
<1>6. NoneTwice'
  BY <1>1, <1>3, <1>4, ApartLogs DEF NoneTwice
<1>7. RowsTell'
  BY <1>1 DEF RowsTell
<1>8. ASSUME NEW q \in Requests PROVE (OnePlace(q) /\ NoPlace(q))'
<2>1. InTable(q)' = InTable(q) /\ Log!In(q, batch)' = Log!In(q, batch)
  BY <1>1 DEF InTable
<2>2. CASE q = r
  BY <1>1, <1>2, <1>3, <1>4, <2>1, <2>2 DEF OnePlace, NoPlace
<2>3. CASE q # r
<3>1. request'[q] = request[q]
  BY <1>1, <1>2, <2>3
<3> QED
  BY <1>1, <1>4, <2>1, <2>3, <3>1 DEF OnePlace, NoPlace
<2> QED
  BY <2>2, <2>3
<1> QED
  BY <1>5, <1>6, <1>7, <1>8

LEMMA CollectLogInv == ASSUME LogInv, Log!Collect PROVE LogInv'
<1> USE DEF LogInv
<1>1. /\ UNCHANGED <<table, lost, deleted, failed, request>> /\ queue # <<>>
      /\ batch' = Append(batch, Head(queue)) /\ queue' = Tail(queue)
      /\ LogTypes /\ NoneTwice /\ RowsTell /\ queue \in Seq(Requests) /\ batch \in Seq(Requests)
  BY DEF Log!Collect, LogTypes
<1>2. /\ queue' \in Seq(Requests) /\ Distinct(queue') /\ Head(queue) \in Requests /\ Log!In(Head(queue), queue)
      /\ \A q : Log!In(q, queue') <=> (Log!In(q, queue) /\ q # Head(queue))
  BY <1>1, TakenLogs DEF NoneTwice
<1>3. \A q : ~(Log!In(q, queue) /\ Log!In(q, batch))
  BY <1>1, ApartLogs DEF NoneTwice
<1>4. /\ batch' \in Seq(Requests) /\ Distinct(batch')
      /\ \A q : Log!In(q, batch') <=> (Log!In(q, batch) \/ q = Head(queue))
  BY <1>1, <1>2, <1>3, AppendedLogs DEF NoneTwice
<1>5. LogTypes' /\ RowsTell'
  BY <1>1, <1>2, <1>4 DEF LogTypes, RowsTell
<1>6. NoneTwice'
  BY <1>2, <1>3, <1>4, ApartLogs DEF NoneTwice
<1>7. ASSUME NEW q \in Requests PROVE (OnePlace(q) /\ NoPlace(q))'
<2>1. InTable(q)' = InTable(q)
  BY <1>1 DEF InTable
<2> QED
  BY <1>1, <1>2, <1>3, <1>4, <2>1 DEF OnePlace, NoPlace
<1> QED
  BY <1>5, <1>6, <1>7

\* The batch, and in the end of a process the queue, are given up or kept.
LEMMA EmptyLogInv == ASSUME LogInv, Log!Insert \/ Log!InsertFails \/ Log!Stop PROVE LogInv'
<1> USE DEF LogInv
<1>1. /\ UNCHANGED <<deleted, failed>> /\ batch' = <<>> /\ queue' \in {queue, <<>>}
      /\ LogTypes /\ NoneTwice /\ RowsTell
      /\ request \in [Requests -> {"none", "running", "putting", "answered", "cut"}]
  BY DEF Log!Insert, Log!InsertFails, Log!Stop, Log!Clear, LogTypes
<1>2. /\ request' \in [Requests -> {"none", "running", "putting", "answered", "cut"}]
      /\ \A q \in Requests : \/ request'[q] = request[q]
                             \/ request[q] \in {"running", "putting"} /\ request'[q] = "cut" /\ q \in lost'
  BY <1>1 DEF Log!Insert, Log!InsertFails, Log!Stop
<1>3. LogTypes' /\ NoneTwice'
  BY <1>1, <1>2, NoLogs, ApartLogs DEF LogTypes, NoneTwice
<1>4. \A q : Log!In(q, queue') <=> Log!In(q, queue) /\ queue' = queue
  BY <1>1, NoLogs
<1>5. \A q : ~Log!In(q, batch')
  BY <1>1, NoLogs
<1>6. \A q : q \in Log!Elements(batch) <=> Log!In(q, batch)
  BY DEF Log!In, Log!Elements
<1>7. \A q : q \in Log!Elements(queue) <=> Log!In(q, queue)
  BY DEF Log!In, Log!Elements
<1>8. \A q : ~(Log!In(q, queue) /\ Log!In(q, batch))
  BY <1>1, ApartLogs DEF NoneTwice
<1>9. CASE Log!Insert
<2>1. /\ queue' = queue /\ request' = request /\ lost' = lost
      /\ table' = table \cup {[log |-> r, failed |-> failed[r]] : r \in Log!Elements(batch)}
  BY <1>9 DEF Log!Insert
<2>2. ASSUME NEW q PROVE InTable(q)' <=> (InTable(q) \/ Log!In(q, batch))
<3>1. ASSUME InTable(q)' PROVE InTable(q) \/ Log!In(q, batch)
<4>1. PICK x \in table' : x.log = q
  BY <3>1 DEF InTable
<4>2. x \in table \/ \E r \in Log!Elements(batch) : x = [log |-> r, failed |-> failed[r]]
  BY <2>1, <4>1
<4> QED
  BY <1>6, <4>1, <4>2 DEF InTable
<3>2. ASSUME InTable(q) PROVE InTable(q)'
  BY <2>1, <3>2 DEF InTable
<3>3. ASSUME Log!In(q, batch) PROVE InTable(q)'
<4>1. [log |-> q, failed |-> failed[q]] \in table'
  BY <1>6, <2>1, <3>3
<4> QED
  BY <4>1 DEF InTable
<3> QED
  BY <3>1, <3>2, <3>3
<2>3. \A q : Log!In(q, batch) => q \in Requests
  BY <1>1 DEF Log!In, LogTypes
<2>4. RowsTell'
  BY <1>1, <1>6, <2>1, <2>3 DEF RowsTell
<2>5. ASSUME NEW q \in Requests PROVE (OnePlace(q) /\ NoPlace(q))'
  BY <1>1, <1>4, <1>5, <1>8, <2>1, <2>2 DEF OnePlace, NoPlace
<2> QED
  BY <1>3, <2>4, <2>5
<1>10. CASE Log!InsertFails
<2>1. queue' = queue /\ request' = request /\ table' = table /\ lost' = lost \cup Log!Elements(batch)
  BY <1>10 DEF Log!InsertFails
<2>2. \A q : InTable(q)' <=> InTable(q)
  BY <2>1 DEF InTable
<2>3. RowsTell'
  BY <1>1, <2>1 DEF RowsTell
<2>4. ASSUME NEW q \in Requests PROVE (OnePlace(q) /\ NoPlace(q))'
  BY <1>1, <1>4, <1>5, <1>6, <1>8, <2>1, <2>2 DEF OnePlace, NoPlace
<2> QED
  BY <1>3, <2>3, <2>4
<1>11. CASE Log!Stop
<2>1. /\ queue' = <<>> /\ table' = table
      /\ lost' = lost \cup Log!Elements(queue) \cup Log!Elements(batch)
                      \cup {r \in Requests : request[r] \in {"running", "putting"}}
      /\ request' = [r \in Requests |-> IF request[r] \in {"running", "putting"} THEN "cut" ELSE request[r]]
  BY <1>11 DEF Log!Stop
<2>2. \A q : InTable(q)' <=> InTable(q)
  BY <2>1 DEF InTable
<2>3. RowsTell'
  BY <1>1, <2>1 DEF RowsTell
<2>4. \A q : ~Log!In(q, queue')
  BY <2>1, NoLogs
<2>5. ASSUME NEW q \in Requests PROVE (OnePlace(q) /\ NoPlace(q))'
<3>1. q \in lost' <=> q \in lost \/ Log!In(q, queue) \/ Log!In(q, batch) \/ request[q] \in {"running", "putting"}
  BY <1>6, <1>7, <2>1
<3>2. OnePlace(q) /\ NoPlace(q)
  OBVIOUS
<3>3. CASE request[q] \in {"running", "putting"}
<4>1. request'[q] = "cut"
  BY <2>1, <3>3
<4> QED
  BY <1>1, <1>5, <2>2, <2>4, <3>2, <3>3, <4>1 DEF OnePlace, NoPlace
<3>4. CASE request[q] \notin {"running", "putting"}
<4>1. request'[q] = request[q]
  BY <2>1, <3>4
<4> QED
  BY <1>1, <1>5, <1>8, <2>2, <2>4, <3>1, <3>2, <3>4, <4>1 DEF OnePlace, NoPlace
<3> QED
  BY <3>3, <3>4
<2> QED
  BY <1>3, <2>3, <2>5
<1> QED
  BY <1>9, <1>10, <1>11

LEMMA DeleteLogInv == ASSUME LogInv, NEW rows \in SUBSET table, Log!Delete({x.log : x \in rows}) PROVE LogInv'
<1> USE DEF LogInv
<1> DEFINE logs == {x.log : x \in rows}
<1>1. /\ UNCHANGED <<request, failed, queue, batch, lost>> /\ deleted' = deleted \cup logs
      /\ table' = {x \in table : x.log \notin logs}
  BY DEF Log!Delete
<1>2. LogTypes' /\ NoneTwice' /\ RowsTell'
  BY <1>1 DEF LogTypes, NoneTwice, Distinct, Apart, RowsTell
<1>3. \A q : q \in logs => InTable(q)
  BY DEF InTable
<1>4. \A q : InTable(q)' <=> InTable(q) /\ q \notin logs
  BY <1>1 DEF InTable
<1>5. \A q : Log!In(q, queue') = Log!In(q, queue) /\ Log!In(q, batch') = Log!In(q, batch)
  BY <1>1
<1> HIDE DEF logs
<1>6. ASSUME NEW q \in Requests PROVE (OnePlace(q) /\ NoPlace(q))'
  BY <1>1, <1>3, <1>4, <1>5 DEF OnePlace, NoPlace
<1> QED
  BY <1>2, <1>6

LEMMA NextLogInv == ASSUME LogInv, [Log!Next]_(Log!logVars) PROVE LogInv'
<1>1. CASE UNCHANGED Log!logVars
  BY <1>1 DEF Log!logVars, LogInv, LogTypes, NoneTwice, Distinct, Apart, RowsTell, OnePlace, NoPlace, Log!In, InTable
<1>2. ASSUME NEW r \in Requests, Log!Delete({x.log : x \in {y \in table : y.log = r}}) PROVE LogInv'
<2>1. {y \in table : y.log = r} \in SUBSET table
  OBVIOUS
<2> QED
  BY <1>2, <2>1, DeleteLogInv
<1>3. ASSUME Log!Delete({x.log : x \in table}) PROVE LogInv'
  BY <1>3, DeleteLogInv
<1> QED
  BY <1>1, <1>2, <1>3, HandleLogInv, PutLogInv, CollectLogInv, EmptyLogInv DEF Log!Next

\* OperaLog and this module count alike.
LEMMA SameCardinality == \A S : Log!Cardinality(S) = Cardinality(S)
BY DEF Log!Cardinality, Cardinality

\* What the invariant says is what the property counts.
LEMMA OnePlaceIsOne ==
    ASSUME NEW r, OnePlace(r), request[r] = "answered"
    PROVE  Cardinality({k \in 1..5 : Log!Places(r)[k]}) = 1
<1> DEFINE P == Log!Places(r)
<1>1. /\ P[1] = Log!In(r, queue) /\ P[2] = Log!In(r, batch) /\ P[3] = InTable(r)
      /\ P[4] = (r \in lost) /\ P[5] = (r \in deleted)
  BY DEF Log!Places, InTable
<1> HIDE DEF P
<1>2. \/ P[1] /\ ~P[2] /\ ~P[3] /\ ~P[4] /\ ~P[5]
      \/ ~P[1] /\ P[2] /\ ~P[3] /\ ~P[4] /\ ~P[5]
      \/ ~P[1] /\ ~P[2] /\ P[3] /\ ~P[4] /\ ~P[5]
      \/ ~P[1] /\ ~P[2] /\ ~P[3] /\ P[4] /\ ~P[5]
      \/ ~P[1] /\ ~P[2] /\ ~P[3] /\ ~P[4] /\ P[5]
  BY <1>1, Zenon DEF OnePlace
<1>3. \E k \in 1..5 : {j \in 1..5 : P[j]} = {k}
<2>1. \A j \in 1..5 : j = 1 \/ j = 2 \/ j = 3 \/ j = 4 \/ j = 5
  OBVIOUS
<2> QED
  BY <1>2, <2>1
<1>4. PICK k \in 1..5 : {j \in 1..5 : P[j]} = {k}
  BY <1>3
<1>5. Cardinality({j \in 1..5 : P[j]}) = 1
  BY <1>4, FS_Singleton
<1> QED
  BY <1>5 DEF P

LEMMA NoneTwiceIsOnce ==
    ASSUME LogInv, NEW r
    PROVE  Cardinality({k \in DOMAIN (queue \o batch) : (queue \o batch)[k] = r}) < 2
<1> DEFINE logs == queue \o batch places == {k \in DOMAIN logs : logs[k] = r}
<1>1. queue \in Seq(Requests) /\ batch \in Seq(Requests)
  BY DEF LogInv, LogTypes
<1>2. /\ Len(queue) \in Nat /\ Len(batch) \in Nat /\ DOMAIN logs = 1..Len(queue) + Len(batch)
      /\ DOMAIN queue = 1..Len(queue) /\ DOMAIN batch = 1..Len(batch)
      /\ \A k \in 1..Len(queue) : logs[k] = queue[k]
      /\ \A k \in Len(queue) + 1..Len(queue) + Len(batch) : logs[k] = batch[k - Len(queue)]
  BY <1>1
<1>3. \A i, j \in DOMAIN logs : logs[i] = logs[j] => i = j
<2> HIDE DEF logs
<2>1. SUFFICES ASSUME NEW i \in DOMAIN logs, NEW j \in DOMAIN logs, logs[i] = logs[j] PROVE i = j
  OBVIOUS
<2>2. Distinct(queue) /\ Distinct(batch) /\ Apart(queue, batch)
  BY DEF LogInv, NoneTwice
<2>3. CASE i \in DOMAIN queue /\ j \in DOMAIN queue
  BY <1>2, <2>1, <2>2, <2>3 DEF Distinct
<2>4. CASE i \notin DOMAIN queue /\ j \notin DOMAIN queue
<3>1. i - Len(queue) \in DOMAIN batch /\ j - Len(queue) \in DOMAIN batch
  BY <1>2, <2>4
<3>2. batch[i - Len(queue)] = batch[j - Len(queue)]
  BY <1>2, <2>1, <2>4
<3> QED
  BY <1>2, <2>2, <3>1, <3>2 DEF Distinct
<2>5. ASSUME NEW a \in DOMAIN queue, NEW b \in DOMAIN logs, b \notin DOMAIN queue PROVE logs[a] # logs[b]
<3>1. b - Len(queue) \in DOMAIN batch /\ logs[b] = batch[b - Len(queue)] /\ logs[a] = queue[a]
  BY <1>2, <2>5
<3> QED
  BY <2>2, <3>1 DEF Apart
<2> QED
  BY <2>1, <2>3, <2>4, <2>5
<1>4. places = {} \/ \E k : places = {k}
  BY <1>3
<1>5. Cardinality(places) < 2
<2> HIDE DEF places
<2>1. CASE places = {}
  BY <2>1, FS_EmptySet
<2>2. CASE \E k : places = {k}
<3>1. Cardinality(places) = 1
  BY <2>2, FS_Singleton
<3> QED
  BY <3>1
<2> QED
  BY <1>4, <2>1, <2>2
<1> QED
  BY <1>5

\* Every answered request has its log in exactly one place, whatever the sizes
\* of queue and batch, failed inserts and ends of the process.
THEOREM LogsAreKeptOnce == Log!Spec => []LoggedOnce
<1>1. Log!Init => LogInv
  BY InitLogInv
<1>2. LogInv /\ [Log!Next]_(Log!logVars) => LogInv'
  BY NextLogInv
<1>3. LogInv => LoggedOnce
<2> SUFFICES ASSUME LogInv, NEW r \in Requests
             PROVE  /\ request[r] = "answered" =>
                           /\ Log!Cardinality({k \in 1..5 : Log!Places(r)[k]}) = 1
                           /\ Log!Cardinality({k \in DOMAIN (queue \o batch) : (queue \o batch)[k] = r}) < 2
                    /\ \A x \in table : x.log = r => x.failed = failed[r]
  BY DEF LoggedOnce, Log!LoggedOnce
<2>1. OnePlace(r) /\ RowsTell
  BY DEF LogInv
<2> QED
  BY <2>1, OnePlaceIsOne, NoneTwiceIsOnce, SameCardinality DEF RowsTell
<1> QED
  BY <1>1, <1>2, <1>3, PTL DEF Log!Spec

-----------------------------------------------------------------------------
(***************************************************************************)
(* Plugins.  Three arguments share the types: who holds the lock, what the *)
(* parity of the answered changes says, and who still has the flag to set. *)
(***************************************************************************)

Statuses == {"none", "0", "1"}
JobRecords ==
    [pc : {"new", "acquire", "write", "written", "report", "release", "move", "forget", "flag", "done"},
     what : {"none", "zip", "clone", "generate", "uninstall"}, item : AddOns!Items \cup {"none"}, cli : BOOLEAN]
WorkerRecords ==
    [pc : {"list", "clean", "get", "set", "load", "up", "down"}, listed : SUBSET AddOns!Items,
     todo : SUBSET Plugins, read : (Plugins \X Statuses) \cup {"none"}]
ToggleRecords == [pc : {"new", "write", "done"}, plugin : Plugins \cup {"none"}, read : Statuses]

PluginTypes ==
    /\ dir \in [AddOns!Items -> {"none", "part", "whole"}]
    /\ status \in [Plugins -> Statuses] /\ answered \in [Plugins -> Nat]
    /\ job \in [Jobs -> JobRecords] /\ worker \in [Processes -> WorkerRecords]
    /\ toggle \in [Toggles -> ToggleRecords]
    /\ overrun \in BOOLEAN /\ hidden \in BOOLEAN /\ changed \in BOOLEAN
    /\ \A j \in Jobs : job[j].pc # "new" =>
           job[j].item \in AddOns!Items /\ (job[j].what = "generate" <=> job[j].item \in Apps)
    /\ \A w \in Processes : /\ worker[w].pc = "set" => worker[w].read \in Plugins \X Statuses
                            /\ worker[w].pc \in {"clean", "get", "set"} => worker[w].listed \subseteq Plugins
    /\ \A t \in Toggles : toggle[t].pc = "write" => toggle[t].plugin \in Plugins /\ toggle[t].read # "none"

\* Who works on a directory holds the lock, with its file.
LockIsHeld ==
    overrun \/ \A j \in Jobs :
                   job[j].pc \in {"write", "written", "report", "release"} => lock = j /\ lockFile

\* The changes of a plugin's status are counted from its first status on.
StatusIsCounted ==
    \A p \in Plugins :
        /\ status[p] = "none" => answered[p] = 0
        /\ status[p] # "none" /\ p \notin raced => (status[p] = "0" <=> answered[p] % 2 = 1)

\* Who is writing half a plugin will set the flag.
HalvesAreReported ==
    \A p \in Plugins : dir[p] = "part" =>
        \/ hidden
        \/ \E j \in Jobs : job[j].pc = "written" /\ job[j].what # "generate" /\ job[j].item = p

\* A worker that has looked has seen the plugins there are, or someone sets
\* the flag for it.
SeenOrFlagged ==
    AddOns!Flagged \/ \A w \in Processes :
                          worker[w].pc # "list" => worker[w].listed \cap Plugins = AddOns!Present

\* A start that is past its reset has left every plugin a status.
LostOrFlagged ==
    \/ AddOns!Flagged
    \/ \E v \in Processes : worker[v].pc \in {"get", "set", "down"}
    \/ \A w \in Processes : worker[w].pc \in {"load", "up"} =>
           \A p \in worker[w].listed \cap Plugins : status[p] # "none"

PluginInv ==
    PluginTypes /\ LockIsHeld /\ StatusIsCounted /\ HalvesAreReported /\ SeenOrFlagged /\ LostOrFlagged

LEMMA InitPluginInv == AddOns!Init => PluginInv
<1> SUFFICES ASSUME AddOns!Init PROVE PluginInv
  OBVIOUS
<1>1. /\ dir = [i \in AddOns!Items |-> IF i \in Plugins THEN "whole" ELSE "none"]
      /\ status = [p \in Plugins |-> "1"] /\ answered = [p \in Plugins |-> 0] /\ raced = {}
      /\ job = [j \in Jobs |-> AddOns!NoJob] /\ toggle = [t \in Toggles |-> AddOns!NoToggle]
      /\ worker = [w \in Processes |-> [pc |-> "up", listed |-> Plugins, todo |-> {}, read |-> "none"]]
      /\ changed = FALSE /\ hidden = FALSE /\ overrun = FALSE
  BY Zenon DEF AddOns!Init
<1>2. PluginTypes
<2>1. AddOns!NoJob \in JobRecords /\ AddOns!NoJob.pc = "new"
  BY DEF AddOns!NoJob, JobRecords
<2>2. AddOns!NoToggle \in ToggleRecords /\ AddOns!NoToggle.pc = "new"
  BY DEF AddOns!NoToggle, ToggleRecords, Statuses
<2>3. [pc |-> "up", listed |-> Plugins, todo |-> {}, read |-> "none"] \in WorkerRecords
  BY DEF WorkerRecords, AddOns!Items
<2> QED
  BY <1>1, <2>1, <2>2, <2>3 DEF PluginTypes, Statuses
<1>3. LockIsHeld
  BY <1>1 DEF LockIsHeld, AddOns!NoJob
<1>4. StatusIsCounted
  BY <1>1 DEF StatusIsCounted
<1>5. HalvesAreReported
  BY <1>1 DEF HalvesAreReported, AddOns!Items
<1>6. AddOns!Present = Plugins
  BY <1>1 DEF AddOns!Present, AddOns!Items
<1>7. SeenOrFlagged /\ LostOrFlagged
  BY <1>1, <1>6 DEF SeenOrFlagged, LostOrFlagged
<1> QED
  BY <1>2, <1>3, <1>4, <1>5, <1>7 DEF PluginInv

\* A job goes on.
LEMMA GoneTo ==
    ASSUME PluginTypes, NEW j \in Jobs, NEW place, AddOns!Goto(j, place), job[j].pc # "new",
           place \in {"write", "written", "report", "release", "forget", "flag", "done"}
    PROVE  /\ job' \in [Jobs -> JobRecords] /\ job'[j].pc = place
           /\ job'[j].what = job[j].what /\ job'[j].item = job[j].item /\ job'[j].cli = job[j].cli
           /\ \A k \in Jobs : k # j => job'[k] = job[k]
           /\ \A k \in Jobs : job'[k].pc # "new" =>
                  job'[k].item \in AddOns!Items /\ (job'[k].what = "generate" <=> job'[k].item \in Apps)
<1>1. job \in [Jobs -> JobRecords] /\ job[j] \in JobRecords /\ job' = [job EXCEPT ![j].pc = place]
  BY DEF PluginTypes, AddOns!Goto
<1>2. /\ job'[j].pc = place /\ job'[j].what = job[j].what /\ job'[j].item = job[j].item
      /\ job'[j].cli = job[j].cli /\ job'[j] \in JobRecords
  BY <1>1 DEF JobRecords
<1>3. \A k \in Jobs : k # j => job'[k] = job[k]
  BY <1>1
<1>4. job' \in [Jobs -> JobRecords]
  BY <1>1, <1>2, <1>3
<1> QED
  BY <1>2, <1>3, <1>4 DEF PluginTypes

\* The steps of a job that has begun, with where they lead.
JobGoes(j) ==
    \/ AddOns!Acquire(j) /\ AddOns!Goto(j, "write")
    \/ (AddOns!Unpack(j) \/ AddOns!Copy(j)) /\ AddOns!Goto(j, "written")
    \/ AddOns!Written(j) /\ AddOns!Goto(j, "report")
    \/ /\ \/ AddOns!Refuse(j) \/ AddOns!UnpackFails(j) \/ AddOns!SetUpFails(j) \/ AddOns!Report(j)
          \/ AddOns!InjectAppRouter(j)
       /\ AddOns!Goto(j, "release")
    \/ /\ AddOns!Release(j) \/ AddOns!Move(j) \/ AddOns!RemovalFails(j) \/ AddOns!Flag(j)
       /\ AddOns!Goto(j, "done")
    \/ AddOns!Move(j) /\ AddOns!Goto(j, "forget")
    \/ AddOns!Forget(j) /\ AddOns!Goto(j, "flag")

LEMMA JobsGo ==
    ASSUME NEW j \in Jobs,
           \/ AddOns!Acquire(j) \/ AddOns!Unpack(j) \/ AddOns!Refuse(j) \/ AddOns!Copy(j) \/ AddOns!Written(j)
           \/ AddOns!UnpackFails(j) \/ AddOns!SetUpFails(j) \/ AddOns!Report(j) \/ AddOns!InjectAppRouter(j)
           \/ AddOns!Release(j) \/ AddOns!Move(j) \/ AddOns!RemovalFails(j) \/ AddOns!Forget(j) \/ AddOns!Flag(j)
    PROVE  JobGoes(j) /\ job[j].pc \notin {"new", "done"} /\ UNCHANGED <<toggle, worker, starts, raced>>
<1> USE Zenon DEF JobGoes, AddOns!unchangedServer
<1>1. CASE AddOns!Acquire(j)
  BY <1>1 DEF AddOns!Acquire
<1>2. CASE AddOns!Unpack(j)
  BY <1>2 DEF AddOns!Unpack
<1>3. CASE AddOns!Copy(j)
  BY <1>3 DEF AddOns!Copy
<1>4. CASE AddOns!Written(j)
  BY <1>4 DEF AddOns!Written
<1>5. CASE AddOns!Refuse(j)
  BY <1>5 DEF AddOns!Refuse
<1>6. CASE AddOns!UnpackFails(j)
  BY <1>6 DEF AddOns!UnpackFails, AddOns!EndEarly
<1>7. CASE AddOns!SetUpFails(j)
  BY <1>7 DEF AddOns!SetUpFails, AddOns!EndEarly
<1>8. CASE AddOns!Report(j)
  BY <1>8 DEF AddOns!Report
<1>9. CASE AddOns!InjectAppRouter(j)
  BY <1>9 DEF AddOns!InjectAppRouter
<1>10. CASE AddOns!Release(j)
  BY <1>10 DEF AddOns!Release
<1>11. CASE AddOns!Move(j)
  BY <1>11 DEF AddOns!Move
<1>12. CASE AddOns!RemovalFails(j)
  BY <1>12 DEF AddOns!RemovalFails
<1>13. CASE AddOns!Forget(j)
  BY <1>13 DEF AddOns!Forget
<1>14. CASE AddOns!Flag(j)
  BY <1>14 DEF AddOns!Flag
<1> QED
  BY <1>1, <1>2, <1>3, <1>4, <1>5, <1>6, <1>7, <1>8, <1>9, <1>10, <1>11, <1>12, <1>13, <1>14

LEMMA JobTypes ==
    ASSUME PluginTypes, NEW j \in Jobs, JobGoes(j), job[j].pc \notin {"new", "done"},
           UNCHANGED <<toggle, worker, starts, raced>>
    PROVE  PluginTypes'
<1>1. PICK place \in {"write", "written", "report", "release", "forget", "flag", "done"} : AddOns!Goto(j, place)
  BY Zenon DEF JobGoes
<1>2. /\ job' \in [Jobs -> JobRecords]
      /\ \A k \in Jobs : job'[k].pc # "new" =>
             job'[k].item \in AddOns!Items /\ (job'[k].what = "generate" <=> job'[k].item \in Apps)
  BY <1>1, GoneTo
<1>3. \/ dir' = dir
      \/ dir' = [dir EXCEPT ![job[j].item] = "none"]
      \/ dir' = [dir EXCEPT ![job[j].item] = "part"]
      \/ dir' = [dir EXCEPT ![job[j].item] = "whole"]
  BY Zenon DEF JobGoes, AddOns!Acquire, AddOns!Unpack, AddOns!Refuse, AddOns!Copy, AddOns!Written,
     AddOns!UnpackFails, AddOns!SetUpFails, AddOns!EndEarly, AddOns!Report, AddOns!InjectAppRouter, AddOns!Release,
     AddOns!Move, AddOns!RemovalFails, AddOns!Forget, AddOns!Flag
<1>4. \/ status' = status /\ answered' = answered
      \/ status' = [status EXCEPT ![job[j].item] = "none"] /\ answered' = [answered EXCEPT ![job[j].item] = 0]
  BY Zenon DEF JobGoes, AddOns!unchangedServer, AddOns!Acquire, AddOns!Unpack, AddOns!Refuse, AddOns!Copy, AddOns!Written,
     AddOns!UnpackFails, AddOns!SetUpFails, AddOns!EndEarly, AddOns!Report, AddOns!InjectAppRouter, AddOns!Release,
     AddOns!Move, AddOns!RemovalFails, AddOns!Forget, AddOns!Flag
<1>5. dir' \in [AddOns!Items -> {"none", "part", "whole"}]
  BY <1>3 DEF PluginTypes
<1>6. status' \in [Plugins -> Statuses] /\ answered' \in [Plugins -> Nat]
  BY <1>4 DEF PluginTypes, Statuses
<1>7. overrun' \in BOOLEAN /\ hidden' \in BOOLEAN /\ changed' \in BOOLEAN
  BY Zenon DEF PluginTypes, JobGoes, AddOns!Acquire, AddOns!Unpack, AddOns!Refuse, AddOns!Copy, AddOns!Written,
     AddOns!UnpackFails, AddOns!SetUpFails, AddOns!EndEarly, AddOns!Report, AddOns!InjectAppRouter, AddOns!Release,
     AddOns!Move, AddOns!RemovalFails, AddOns!Forget, AddOns!Flag
<1> QED
  BY <1>2, <1>5, <1>6, <1>7 DEF PluginTypes

\* Only a release gives the lock back, and only an acquisition asks for it.
LEMMA JobHoldsLock ==
    ASSUME PluginTypes, LockIsHeld, NEW j \in Jobs, JobGoes(j), job[j].pc \notin {"new", "done"}
    PROVE  LockIsHeld'
<1> USE DEF LockIsHeld
<1> SUFFICES ASSUME ~overrun'
             PROVE  \A k \in Jobs : job'[k].pc \in {"write", "written", "report", "release"} => lock' = k /\ lockFile'
  OBVIOUS
<1>1. PICK place \in {"write", "written", "report", "release", "forget", "flag", "done"} : AddOns!Goto(j, place)
  BY Zenon DEF JobGoes
<1>2. job'[j].pc = place /\ \A k \in Jobs : k # j => job'[k] = job[k]
  BY <1>1, GoneTo
<1>3. ~overrun
  BY Zenon DEF JobGoes, AddOns!Acquire, AddOns!Unpack, AddOns!Refuse, AddOns!Copy, AddOns!Written,
     AddOns!UnpackFails, AddOns!SetUpFails, AddOns!EndEarly, AddOns!Report, AddOns!InjectAppRouter, AddOns!Release,
     AddOns!Move, AddOns!RemovalFails, AddOns!Forget, AddOns!Flag
<1>4. CASE AddOns!Acquire(j)
<2>1. lock = AddOns!Nobody
  BY <1>3, <1>4, Zenon DEF AddOns!Acquire
<2>2. lock' = j /\ lockFile'
  BY <1>4, <2>1, Zenon DEF AddOns!Acquire
<2>3. \A k \in Jobs : job[k].pc \notin {"write", "written", "report", "release"}
  BY <1>3, <2>1, NamesAreDistinct
<2> QED
  BY <1>2, <2>2, <2>3
<1>5. CASE AddOns!Release(j)
<2>1. job[j].pc = "release" /\ place = "done"
  BY <1>1, <1>2, <1>5 DEF AddOns!Release, AddOns!Goto, PluginTypes, JobRecords
<2>2. \A k \in Jobs : k # j => job[k].pc \notin {"write", "written", "report", "release"}
  BY <1>3, <2>1
<2> QED
  BY <1>2, <2>1, <2>2
<1>6. CASE /\ job[j].pc \in {"write", "written", "report"} /\ lock' = lock /\ lockFile' = lockFile
  BY <1>2, <1>3, <1>6
<1>7. CASE /\ job'[j].pc \in {"forget", "flag", "done"} /\ lock' = lock /\ lockFile' = lockFile
  BY <1>2, <1>3, <1>7
<1>8. \/ AddOns!Acquire(j) \/ AddOns!Release(j)
      \/ /\ job[j].pc \in {"write", "written", "report"} \/ \E d \in {"forget", "flag", "done"} : AddOns!Goto(j, d)
         /\ lock' = lock /\ lockFile' = lockFile
  BY Zenon DEF JobGoes, AddOns!Unpack, AddOns!Refuse, AddOns!Copy, AddOns!Written,
     AddOns!UnpackFails, AddOns!SetUpFails, AddOns!EndEarly, AddOns!Report, AddOns!InjectAppRouter,
     AddOns!Move, AddOns!RemovalFails, AddOns!Forget, AddOns!Flag
<1> QED
  BY <1>4, <1>5, <1>6, <1>7, <1>8, GoneTo

LEMMA JobCountsStatus ==
    ASSUME PluginTypes, StatusIsCounted, NEW j \in Jobs, JobGoes(j), raced' = raced
    PROVE  StatusIsCounted'
<1>1. \/ status' = status /\ answered' = answered
      \/ status' = [status EXCEPT ![job[j].item] = "none"] /\ answered' = [answered EXCEPT ![job[j].item] = 0]
  BY Zenon DEF JobGoes, AddOns!unchangedServer, AddOns!Acquire, AddOns!Unpack, AddOns!Refuse, AddOns!Copy,
     AddOns!Written, AddOns!UnpackFails, AddOns!SetUpFails, AddOns!EndEarly, AddOns!Report, AddOns!InjectAppRouter,
     AddOns!Release, AddOns!Move, AddOns!RemovalFails, AddOns!Forget, AddOns!Flag
<1> QED
  BY <1>1 DEF PluginTypes, StatusIsCounted

\* A job that changes a plugin's directory or status leaves the flag to be
\* set, or takes note that it is not; the flag itself no job takes down.
LEMMA JobChanges ==
    ASSUME PluginTypes, NEW j \in Jobs, JobGoes(j), job[j].pc \notin {"new", "done"}
    PROVE  LET item == job[j].item
               open == {"written", "report", "forget", "flag"}
           IN  /\ \A i \in AddOns!Items : i # item => dir'[i] = dir[i]
               /\ \A p \in Plugins : p # item => status'[p] = status[p]
               /\ hidden => hidden'
               /\ changed => changed'
               /\ \A k \in Jobs : k # j => job'[k] = job[k]
               /\ job'[j].what = job[j].what /\ job'[j].item = item
               /\ job[j].what # "generate" =>
                      /\ (dir' = dir /\ status' = status) \/ job'[j].pc \in open \/ hidden' \/ changed'
                      /\ job[j].pc \in open => job'[j].pc \in open \/ hidden' \/ changed'
                      /\ dir'[item] = "part" =>
                             \/ dir[item] = "part" /\ job[j].pc # "written"
                             \/ job'[j].pc = "written" \/ hidden'
<1> DEFINE item == job[j].item
           open == {"written", "report", "forget", "flag"}
           Dirs == \A i \in AddOns!Items : i # item => dir'[i] = dir[i]
           Stats == \A p \in Plugins : p # item => status'[p] = status[p]
           Others == /\ \A k \in Jobs : k # j => job'[k] = job[k]
                     /\ job'[j].what = job[j].what /\ job'[j].item = item
           Then == job[j].what # "generate" =>
                      /\ (dir' = dir /\ status' = status) \/ job'[j].pc \in open \/ hidden' \/ changed'
                      /\ job[j].pc \in open => job'[j].pc \in open \/ hidden' \/ changed'
                      /\ dir'[item] = "part" =>
                             \/ dir[item] = "part" /\ job[j].pc # "written"
                             \/ job'[j].pc = "written" \/ hidden'
<1>0. dir \in [AddOns!Items -> {"none", "part", "whole"}] /\ status \in [Plugins -> Statuses] /\ item \in AddOns!Items
  BY Zenon DEF PluginTypes
<1>1. SUFFICES Dirs /\ Stats /\ (hidden => hidden') /\ (changed => changed') /\ Others /\ Then
  BY Zenon
<1>2. ASSUME NEW place \in {"write", "written", "report", "release", "forget", "flag", "done"}, AddOns!Goto(j, place)
      PROVE  Others /\ job'[j].pc = place
  BY <1>2, GoneTo, Zenon
<1>3. CASE AddOns!Acquire(j) /\ AddOns!Goto(j, "write")
<2>1. dir' = dir /\ status' = status /\ hidden' = hidden /\ changed' = changed /\ job[j].pc = "acquire"
  BY <1>3, Zenon DEF AddOns!Acquire, AddOns!unchangedServer
<2>2. Others /\ job'[j].pc = "write"
  BY <1>2, <1>3, Zenon
<2> QED
  BY <2>1, <2>2
<1>4. CASE (AddOns!Unpack(j) \/ AddOns!Copy(j)) /\ AddOns!Goto(j, "written")
<2>1. /\ dir' = [dir EXCEPT ![item] = "part"] /\ status' = status /\ hidden' = hidden /\ changed' = changed
  BY <1>4, Zenon DEF AddOns!Unpack, AddOns!Copy, AddOns!unchangedServer
<2>2. Others /\ job'[j].pc = "written"
  BY <1>2, <1>4, Zenon
<2> QED
  BY <1>0, <2>1, <2>2
<1>5. CASE AddOns!Written(j) /\ AddOns!Goto(j, "report")
<2>1. /\ dir' = [dir EXCEPT ![item] = "whole"] /\ status' = status /\ hidden' = hidden /\ changed' = changed
  BY <1>5, Zenon DEF AddOns!Written, AddOns!unchangedServer
<2>2. Others /\ job'[j].pc = "report"
  BY <1>2, <1>5, Zenon
<2> QED
  BY <1>0, <2>1, <2>2
<1>6. CASE (AddOns!UnpackFails(j) \/ AddOns!SetUpFails(j)) /\ AddOns!Goto(j, "release")
<2>1. /\ dir' = dir \/ dir' = [dir EXCEPT ![item] = "none"]
      /\ status' = status /\ hidden' = (hidden \/ AddOns!Unflagged(j)) /\ changed' = changed
      /\ job[j].pc \in {"written", "report"}
  BY <1>6, Zenon DEF AddOns!UnpackFails, AddOns!SetUpFails, AddOns!EndEarly, AddOns!unchangedServer
<2>2. Others /\ job'[j].pc = "release"
  BY <1>2, <1>6, Zenon
<2>3. job[j].what # "generate" => hidden'
  BY <2>1 DEF AddOns!Unflagged
<2>4. Dirs
  BY <1>0, <2>1
<2>5. Stats /\ (hidden => hidden') /\ (changed => changed')
  BY <2>1, Zenon
<2> QED
  BY <2>2, <2>3, <2>4, <2>5, Zenon
<1>7. CASE AddOns!Refuse(j) /\ AddOns!Goto(j, "release")
<2>1. dir' = dir /\ status' = status /\ hidden' = hidden /\ changed' = changed /\ job[j].pc = "write"
  BY <1>7, Zenon DEF AddOns!Refuse, AddOns!unchangedServer
<2>2. Others /\ job'[j].pc = "release"
  BY <1>2, <1>7, Zenon
<2> QED
  BY <2>1, <2>2
<1>8. CASE AddOns!Report(j) /\ AddOns!Goto(j, "release")
<2>1. dir' = dir /\ status' = status /\ hidden' = hidden /\ changed' = TRUE /\ job[j].pc = "report"
  BY <1>8, Zenon DEF AddOns!Report, AddOns!unchangedServer
<2>2. Others /\ job'[j].pc = "release"
  BY <1>2, <1>8, Zenon
<2> QED
  BY <2>1, <2>2
<1>9. CASE AddOns!InjectAppRouter(j) /\ AddOns!Goto(j, "release")
<2>1. dir' = dir /\ status' = status /\ hidden' = hidden /\ changed' = changed /\ job[j].what = "generate"
  BY <1>9, Zenon DEF AddOns!InjectAppRouter, AddOns!unchangedServer
<2>2. Others /\ job'[j].pc = "release"
  BY <1>2, <1>9, Zenon
<2> QED
  BY <2>1, <2>2
<1>10. CASE (AddOns!Release(j) \/ AddOns!RemovalFails(j)) /\ AddOns!Goto(j, "done")
<2>1. dir' = dir /\ status' = status /\ hidden' = hidden /\ changed' = changed /\ job[j].pc \in {"release", "move"}
  BY <1>10, Zenon DEF AddOns!Release, AddOns!RemovalFails, AddOns!unchangedServer
<2>2. Others /\ job'[j].pc = "done"
  BY <1>2, <1>10, Zenon
<2> QED
  BY <2>1, <2>2
<1>11. CASE AddOns!Flag(j) /\ AddOns!Goto(j, "done")
<2>1. dir' = dir /\ status' = status /\ hidden' = hidden /\ changed' = TRUE /\ job[j].pc = "flag"
  BY <1>11, Zenon DEF AddOns!Flag, AddOns!unchangedServer
<2>2. Others /\ job'[j].pc = "done"
  BY <1>2, <1>11, Zenon
<2> QED
  BY <2>1, <2>2
<1>12. CASE AddOns!Move(j)
<2>1. status' = status /\ hidden' = hidden /\ changed' = changed /\ job[j].pc = "move"
  BY <1>12, Zenon DEF AddOns!Move, AddOns!unchangedServer
<2>2. CASE AddOns!Goto(j, "done") /\ dir' = dir
<3>1. Others /\ job'[j].pc = "done"
  BY <1>2, <2>2, Zenon
<3> QED
  BY <2>1, <2>2, <3>1
<2>3. CASE AddOns!Goto(j, "forget") /\ dir' = [dir EXCEPT ![item] = "none"]
<3>1. Others /\ job'[j].pc = "forget"
  BY <1>2, <2>3, Zenon
<3> QED
  BY <1>0, <2>1, <2>3, <3>1
<2> QED
  BY <1>12, <2>2, <2>3, Zenon DEF AddOns!Move
<1>13. CASE AddOns!Forget(j) /\ AddOns!Goto(j, "flag")
<2>1. /\ dir' = dir /\ status' = [status EXCEPT ![item] = "none"] /\ hidden' = hidden /\ changed' = changed
      /\ job[j].pc = "forget"
  BY <1>13, Zenon DEF AddOns!Forget
<2>2. Others /\ job'[j].pc = "flag"
  BY <1>2, <1>13, Zenon
<2> QED
  BY <1>0, <2>1, <2>2
<1> QED
  BY <1>3, <1>4, <1>5, <1>6, <1>7, <1>8, <1>9, <1>10, <1>11, <1>12, <1>13, Zenon DEF JobGoes

LEMMA JobKeepsFlag ==
    ASSUME PluginTypes, HalvesAreReported, SeenOrFlagged, LostOrFlagged,
           NEW j \in Jobs, JobGoes(j), job[j].pc \notin {"new", "done"}, worker' = worker
    PROVE  HalvesAreReported' /\ SeenOrFlagged' /\ LostOrFlagged'
<1> DEFINE item == job[j].item
           open == {"written", "report", "forget", "flag"}
<1>1. /\ \A i \in AddOns!Items : i # item => dir'[i] = dir[i]
      /\ \A p \in Plugins : p # item => status'[p] = status[p]
      /\ hidden => hidden'
      /\ changed => changed'
      /\ \A k \in Jobs : k # j => job'[k] = job[k]
      /\ job'[j].what = job[j].what /\ job'[j].item = item
      /\ job[j].what # "generate" =>
             /\ (dir' = dir /\ status' = status) \/ job'[j].pc \in open \/ hidden' \/ changed'
             /\ job[j].pc \in open => job'[j].pc \in open \/ hidden' \/ changed'
             /\ dir'[item] = "part" =>
                    \/ dir[item] = "part" /\ job[j].pc # "written"
                    \/ job'[j].pc = "written" \/ hidden'
  BY JobChanges, Zenon
<1>2. item \in AddOns!Items /\ (job[j].what = "generate" <=> item \in Apps)
  BY Zenon DEF PluginTypes
<1>3. job[j].what = "generate" => \A p \in Plugins : p # item /\ p \in AddOns!Items
  BY <1>2, NamesAreDistinct DEF AddOns!Items
<1>4. HalvesAreReported'
<2> SUFFICES ASSUME NEW p \in Plugins, dir'[p] = "part", ~hidden'
             PROVE  \E k \in Jobs : job'[k].pc = "written" /\ job'[k].what # "generate" /\ job'[k].item = p
  BY Zenon DEF HalvesAreReported
<2>1. p \in AddOns!Items
  BY DEF AddOns!Items
<2>2. CASE p = item /\ job'[j].pc = "written"
  BY <1>1, <1>3, <2>2, Zenon
<2>3. CASE ~(p = item /\ job'[j].pc = "written")
<3>1. dir[p] = "part" /\ (p = item => job[j].pc # "written")
  BY <1>1, <1>3, <2>1, <2>3, Zenon
<3>2. PICK k \in Jobs : job[k].pc = "written" /\ job[k].what # "generate" /\ job[k].item = p
  BY <1>1, <3>1, Zenon DEF HalvesAreReported
<3> QED
  BY <1>1, <3>1, <3>2, Zenon
<2> QED
  BY <2>2, <2>3
<1>5. AddOns!Flagged => AddOns!Flagged'
  BY <1>1, Zenon DEF AddOns!Flagged, AddOns!Unflagged
<1>6. ~AddOns!Flagged' => /\ \A p \in Plugins : dir'[p] = dir[p] /\ status'[p] = status[p]
<2> SUFFICES ASSUME ~AddOns!Flagged', NEW p \in Plugins
             PROVE  dir'[p] = dir[p] /\ status'[p] = status[p]
  BY Zenon
<2>1. p \in AddOns!Items
  BY DEF AddOns!Items
<2>2. CASE job[j].what = "generate"
  BY <1>1, <1>3, <2>1, <2>2, Zenon
<2>3. CASE job[j].what # "generate"
<3>1. ~(job'[j].pc \in open \/ hidden' \/ changed')
  BY <1>1, <2>3, Zenon DEF AddOns!Flagged, AddOns!Unflagged
<3> QED
  BY <1>1, <2>3, <3>1, Zenon
<2> QED
  BY <2>2, <2>3
<1>7. ~AddOns!Flagged' => AddOns!Present' = AddOns!Present
  BY <1>6 DEF AddOns!Present
<1> QED
  BY <1>4, <1>5, <1>6, <1>7, Zenon DEF SeenOrFlagged, LostOrFlagged

LEMMA JobPluginInv ==
    ASSUME PluginInv, NEW j \in Jobs,
           \/ AddOns!Acquire(j) \/ AddOns!Unpack(j) \/ AddOns!Refuse(j) \/ AddOns!Copy(j) \/ AddOns!Written(j)
           \/ AddOns!UnpackFails(j) \/ AddOns!SetUpFails(j) \/ AddOns!Report(j) \/ AddOns!InjectAppRouter(j)
           \/ AddOns!Release(j) \/ AddOns!Move(j) \/ AddOns!RemovalFails(j) \/ AddOns!Forget(j) \/ AddOns!Flag(j)
    PROVE  PluginInv'
<1>1. JobGoes(j) /\ job[j].pc \notin {"new", "done"} /\ UNCHANGED <<toggle, worker, starts, raced>>
  BY JobsGo, Zenon
<1> QED
  BY <1>1, JobTypes, JobHoldsLock, JobCountsStatus, JobKeepsFlag, Zenon DEF PluginInv

\* What does not touch the server's state leaves its invariants.
LEMMA BeginPluginInv ==
    ASSUME PluginInv, NEW j \in Jobs, NEW item \in AddOns!Items, AddOns!Request(j, item) \/ AddOns!Command(j, item)
    PROVE  PluginInv'
<1>1. PICK what \in {"zip", "clone", "generate", "uninstall"}, cli \in BOOLEAN : AddOns!Begin(j, what, item, cli)
  BY Zenon DEF AddOns!Request, AddOns!Command
<1>2. /\ job[j] = AddOns!NoJob /\ (what = "generate" <=> item \in Apps)
      /\ job' = [job EXCEPT ![j] = [pc |-> IF what = "uninstall" THEN "move" ELSE "acquire",
                                    what |-> what, item |-> item, cli |-> cli]]
      /\ dir' = dir /\ status' = status /\ answered' = answered /\ raced' = raced /\ changed' = changed
      /\ hidden' = hidden /\ overrun' = overrun /\ toggle' = toggle /\ worker' = worker
      /\ lock' = lock /\ lockFile' = lockFile
  BY <1>1, Zenon DEF AddOns!Begin, AddOns!unchangedServer
<1>3. job \in [Jobs -> JobRecords]
  BY Zenon DEF PluginInv, PluginTypes
<1>4. /\ job'[j] \in JobRecords /\ job'[j].pc \in {"move", "acquire"} /\ job'[j].what = what /\ job'[j].item = item
      /\ \A k \in Jobs : k # j => job'[k] = job[k]
      /\ job' \in [Jobs -> JobRecords]
<2>1. [pc |-> IF what = "uninstall" THEN "move" ELSE "acquire", what |-> what, item |-> item, cli |-> cli] \in JobRecords
  BY DEF JobRecords
<2> QED
  BY <1>2, <1>3, <2>1
<1>5. job[j].pc = "new"
  BY <1>2 DEF AddOns!NoJob
<1>6. PluginTypes'
  BY <1>2, <1>4, Zenon DEF PluginInv, PluginTypes
<1>7. LockIsHeld'
  BY <1>2, <1>4 DEF PluginInv, LockIsHeld
<1>8. StatusIsCounted'
  BY <1>2 DEF PluginInv, StatusIsCounted
<1>9. HalvesAreReported'
  BY <1>2, <1>4, <1>5 DEF PluginInv, HalvesAreReported
<1>10. AddOns!Flagged <=> AddOns!Flagged'
  BY <1>2, <1>4, <1>5 DEF AddOns!Flagged, AddOns!Unflagged
<1>11. SeenOrFlagged' /\ LostOrFlagged'
  BY <1>2, <1>10, Zenon DEF PluginInv, SeenOrFlagged, LostOrFlagged, AddOns!Present
<1> QED
  BY <1>6, <1>7, <1>8, <1>9, <1>11 DEF PluginInv

LEMMA LapsePluginInv == ASSUME PluginInv, AddOns!Lapse PROVE PluginInv'
<1>1. /\ job' = job /\ dir' = dir /\ status' = status /\ answered' = answered /\ raced' = raced /\ changed' = changed
      /\ hidden' = hidden /\ toggle' = toggle /\ worker' = worker
      /\ overrun' = (overrun \/ AddOns!Runs(lock))
  BY Zenon DEF AddOns!Lapse, AddOns!unchangedServer
<1>2. overrun' \in BOOLEAN
  BY <1>1, Zenon
<1>3. PluginTypes'
  BY <1>1, <1>2, Zenon DEF PluginInv, PluginTypes
<1>4. LockIsHeld'
<2> SUFFICES ASSUME ~overrun', NEW k \in Jobs, job[k].pc \in {"write", "written", "report", "release"} PROVE FALSE
  BY <1>1, Zenon DEF LockIsHeld
<2>1. ~overrun /\ ~AddOns!Runs(lock)
  BY <1>1, Zenon
<2>2. lock = k
  BY <2>1, Zenon DEF PluginInv, LockIsHeld
<2> QED
  BY <2>1, <2>2 DEF AddOns!Runs
<1>5. StatusIsCounted' /\ HalvesAreReported' /\ SeenOrFlagged' /\ LostOrFlagged'
  BY <1>1, Zenon DEF PluginInv, StatusIsCounted, HalvesAreReported, SeenOrFlagged, LostOrFlagged,
     AddOns!Flagged, AddOns!Unflagged, AddOns!Present
<1> QED
  BY <1>3, <1>4, <1>5 DEF PluginInv

LEMMA RestartPluginInv ==
    ASSUME PluginInv, AddOns!Restarted, UNCHANGED <<dir, status, changed, lock, lockFile, overrun, answered, raced>>
    PROVE  PluginInv'
<1>1. /\ worker' = [w \in Processes |-> [pc |-> "list", listed |-> {}, todo |-> {}, read |-> "none"]]
      /\ job' = [j \in Jobs |-> IF AddOns!Runs(j) /\ ~job[j].cli THEN [job[j] EXCEPT !.pc = "done"] ELSE job[j]]
      /\ toggle' = [t \in Toggles |-> IF toggle[t].pc = "write" THEN [toggle[t] EXCEPT !.pc = "done"] ELSE toggle[t]]
      /\ hidden' = (hidden \/ \E j \in Jobs : ~job[j].cli /\ AddOns!Unflagged(j))
  BY Zenon DEF AddOns!Restarted
<1>2. \A j \in Jobs : /\ job'[j] \in JobRecords /\ job'[j].what = job[j].what /\ job'[j].item = job[j].item
                      /\ job'[j].pc = job[j].pc \/ job'[j].pc = "done"
                      /\ job[j].cli \/ ~AddOns!Runs(j) => job'[j] = job[j]
                      /\ job[j].pc = "new" => job'[j].pc = "new"
  BY <1>1 DEF PluginInv, PluginTypes, JobRecords, AddOns!Runs
<1>3. \A t \in Toggles : toggle'[t] \in ToggleRecords /\ toggle'[t].pc # "write"
  BY <1>1 DEF PluginInv, PluginTypes, ToggleRecords
<1>4. [pc |-> "list", listed |-> {}, todo |-> {}, read |-> "none"] \in WorkerRecords
  BY DEF WorkerRecords
<1>5. PluginTypes'
<2>1. job' \in [Jobs -> JobRecords] /\ toggle' \in [Toggles -> ToggleRecords] /\ worker' \in [Processes -> WorkerRecords]
  BY <1>1, <1>2, <1>3, <1>4
<2>2. hidden' \in BOOLEAN
  BY <1>1, Zenon
<2>3. \A j \in Jobs : job'[j].pc # "new" =>
           job'[j].item \in AddOns!Items /\ (job'[j].what = "generate" <=> job'[j].item \in Apps)
  BY <1>2, Zenon DEF PluginInv, PluginTypes
<2>4. \A w \in Processes : worker'[w].pc = "list"
  BY <1>1
<2>5. /\ dir' \in [AddOns!Items -> {"none", "part", "whole"}]
      /\ status' \in [Plugins -> Statuses] /\ answered' \in [Plugins -> Nat]
      /\ overrun' \in BOOLEAN /\ changed' \in BOOLEAN
  BY Zenon DEF PluginInv, PluginTypes
<2> QED
  BY <1>3, <2>1, <2>2, <2>3, <2>4, <2>5 DEF PluginTypes
<1>6. LockIsHeld'
  BY <1>2 DEF PluginInv, LockIsHeld
<1>7. StatusIsCounted'
  BY Zenon DEF PluginInv, StatusIsCounted
<1>8. HalvesAreReported'
<2> SUFFICES ASSUME NEW p \in Plugins, dir[p] = "part", ~hidden'
             PROVE  \E k \in Jobs : job'[k].pc = "written" /\ job'[k].what # "generate" /\ job'[k].item = p
  BY Zenon DEF HalvesAreReported
<2>1. ~hidden /\ \A j \in Jobs : AddOns!Unflagged(j) => job[j].cli
  BY <1>1, Zenon
<2>2. PICK k \in Jobs : job[k].pc = "written" /\ job[k].what # "generate" /\ job[k].item = p
  BY <2>1, Zenon DEF PluginInv, HalvesAreReported
<2>3. job[k].cli
  BY <2>1, <2>2, Zenon DEF AddOns!Unflagged
<2> QED
  BY <1>2, <2>2, <2>3, Zenon
<1>9. SeenOrFlagged' /\ LostOrFlagged'
  BY <1>1 DEF SeenOrFlagged, LostOrFlagged
<1> QED
  BY <1>5, <1>6, <1>7, <1>8, <1>9 DEF PluginInv

LEMMA WatchPluginInv == ASSUME PluginInv, AddOns!Watch PROVE PluginInv'
<1>1. UNCHANGED <<dir, status, changed, lock, lockFile, overrun, answered, raced>>
  BY Zenon DEF AddOns!Watch
<1>2. CASE AddOns!Restarted
  BY <1>1, <1>2, RestartPluginInv, Zenon
<1>3. CASE UNCHANGED <<job, toggle, worker, starts, hidden>>
<2>1. PluginTypes'
  BY <1>1, <1>3, Zenon DEF PluginInv, PluginTypes
<2> QED
  BY <1>1, <1>3, <2>1, Zenon DEF PluginInv, LockIsHeld, StatusIsCounted, HalvesAreReported, SeenOrFlagged,
     LostOrFlagged, AddOns!Flagged, AddOns!Unflagged, AddOns!Present
<1> QED
  BY <1>2, <1>3, Zenon DEF AddOns!Watch

\* A change of status turns it, unless another was written since it read.
LEMMA TogglePluginInv ==
    ASSUME PluginInv, NEW t \in Toggles, (\E p \in Plugins : AddOns!ReadStatus(t, p)) \/ AddOns!WriteStatus(t)
    PROVE  PluginInv'
<1>1. UNCHANGED <<dir, changed, lock, lockFile, job, worker, hidden, overrun>>
  BY Zenon DEF AddOns!ReadStatus, AddOns!WriteStatus
<1>2. ASSUME toggle' \in [Toggles -> ToggleRecords],
             \A u \in Toggles : toggle'[u].pc = "write" => toggle'[u].plugin \in Plugins /\ toggle'[u].read # "none",
             StatusIsCounted', status' \in [Plugins -> Statuses], answered' \in [Plugins -> Nat],
             \A p \in Plugins : status[p] # "none" => status'[p] # "none"
      PROVE  PluginInv'
<2>1. PluginTypes'
  BY <1>1, <1>2, Zenon DEF PluginInv, PluginTypes
<2>2. LockIsHeld' /\ HalvesAreReported' /\ SeenOrFlagged'
  BY <1>1, Zenon DEF PluginInv, LockIsHeld, HalvesAreReported, SeenOrFlagged, AddOns!Flagged, AddOns!Unflagged,
     AddOns!Present
<2>3. LostOrFlagged'
<3>1. AddOns!Flagged' <=> AddOns!Flagged
  BY <1>1, Zenon DEF AddOns!Flagged, AddOns!Unflagged
<3> QED
  BY <1>1, <1>2, <3>1 DEF PluginInv, LostOrFlagged
<2> QED
  BY <1>2, <2>1, <2>2, <2>3 DEF PluginInv
<1>3. CASE \E p \in Plugins : AddOns!ReadStatus(t, p)
<2>1. PICK p \in Plugins : AddOns!ReadStatus(t, p)
  BY <1>3
<2>2. /\ status[p] # "none" /\ toggle' = [toggle EXCEPT ![t] = [pc |-> "write", plugin |-> p, read |-> status[p]]]
      /\ status' = status /\ answered' = answered /\ raced' = raced
  BY <2>1, Zenon DEF AddOns!ReadStatus
<2>3. [pc |-> "write", plugin |-> p, read |-> status[p]] \in ToggleRecords
  BY DEF PluginInv, PluginTypes, ToggleRecords
<2>4. /\ toggle' \in [Toggles -> ToggleRecords]
      /\ \A u \in Toggles : toggle'[u].pc = "write" => toggle'[u].plugin \in Plugins /\ toggle'[u].read # "none"
  BY <2>2, <2>3 DEF PluginInv, PluginTypes
<2>5. StatusIsCounted'
  BY <2>2, Zenon DEF PluginInv, StatusIsCounted
<2>6. status' \in [Plugins -> Statuses] /\ answered' \in [Plugins -> Nat]
  BY <2>2 DEF PluginInv, PluginTypes
<2> QED
  BY <1>2, <2>2, <2>4, <2>5, <2>6, Zenon
<1>4. CASE AddOns!WriteStatus(t)
<2> DEFINE p == toggle[t].plugin
           read == toggle[t].read
<2>1. /\ toggle[t].pc = "write"
      /\ status' = [status EXCEPT ![p] = IF read = "0" THEN "1" ELSE "0"]
      /\ answered' = [answered EXCEPT ![p] = @ + 1]
      /\ raced' = IF status[p] = read THEN raced ELSE raced \cup {p}
      /\ toggle' = [toggle EXCEPT ![t].pc = "done"]
  BY <1>4, Zenon DEF AddOns!WriteStatus
<2>2. /\ p \in Plugins /\ read \in {"0", "1"} /\ toggle[t] \in ToggleRecords
      /\ status \in [Plugins -> Statuses] /\ answered \in [Plugins -> Nat] /\ toggle \in [Toggles -> ToggleRecords]
      /\ \A u \in Toggles : toggle[u].pc = "write" => toggle[u].plugin \in Plugins /\ toggle[u].read # "none"
  BY <2>1 DEF PluginInv, PluginTypes, ToggleRecords, Statuses
<2>3. /\ toggle' \in [Toggles -> ToggleRecords]
      /\ \A u \in Toggles : toggle'[u].pc = "write" => toggle'[u].plugin \in Plugins /\ toggle'[u].read # "none"
  BY <2>1, <2>2 DEF ToggleRecords
<2> HIDE DEF p, read
<2>4. status' \in [Plugins -> Statuses] /\ answered' \in [Plugins -> Nat]
  BY <2>1, <2>2 DEF Statuses
<2>5. /\ \A q \in Plugins : q # p => status'[q] = status[q] /\ answered'[q] = answered[q]
      /\ status'[p] = (IF read = "0" THEN "1" ELSE "0") /\ answered'[p] = answered[p] + 1 /\ answered[p] \in Nat
  BY <2>1, <2>2
<2>6. /\ \A q \in Plugins : q \notin raced' => q \notin raced
      /\ p \notin raced' => status[p] = read
  BY <2>1
<2>7. StatusIsCounted'
<3> SUFFICES ASSUME NEW q \in Plugins
             PROVE  /\ status'[q] = "none" => answered'[q] = 0
                    /\ status'[q] # "none" /\ q \notin raced' => (status'[q] = "0" <=> answered'[q] % 2 = 1)
  BY Zenon DEF StatusIsCounted
<3>1. /\ status[q] = "none" => answered[q] = 0
      /\ status[q] # "none" /\ q \notin raced => (status[q] = "0" <=> answered[q] % 2 = 1)
  BY Zenon DEF PluginInv, StatusIsCounted
<3>2. CASE q # p
  BY <2>5, <2>6, <3>1, <3>2
<3>3. CASE q = p
  BY <2>2, <2>5, <2>6, <3>1, <3>3
<3> QED
  BY <3>2, <3>3
<2>8. \A q \in Plugins : status[q] # "none" => status'[q] # "none"
  BY <2>5
<2> QED
  BY <1>2, <2>3, <2>4, <2>7, <2>8, Zenon
<1> QED
  BY <1>3, <1>4

\* The steps of a worker's start change neither directories nor jobs.
LEMMA WorkerTypes ==
    ASSUME PluginInv, UNCHANGED AddOns!jobVars,
           worker' \in [Processes -> WorkerRecords],
           \A w \in Processes : /\ worker'[w].pc = "set" => worker'[w].read \in Plugins \X Statuses
                                /\ worker'[w].pc \in {"clean", "get", "set"} => worker'[w].listed \subseteq Plugins,
           status' \in [Plugins -> Statuses], answered' \in [Plugins -> Nat],
           hidden' \in BOOLEAN, changed' \in BOOLEAN, hidden => hidden'
    PROVE  PluginTypes' /\ LockIsHeld' /\ HalvesAreReported'
<1>1. UNCHANGED <<dir, lock, lockFile, job, toggle, overrun>>
  BY Zenon DEF AddOns!jobVars
<1>2. PluginTypes'
  BY <1>1, Zenon DEF PluginInv, PluginTypes
<1>3. LockIsHeld' /\ HalvesAreReported'
  BY <1>1, Zenon DEF PluginInv, LockIsHeld, HalvesAreReported
<1> QED
  BY <1>2, <1>3

LEMMA ListPluginInv == ASSUME PluginInv, NEW w \in Processes, AddOns!List(w) PROVE PluginInv'
<1>1. /\ UNCHANGED AddOns!jobVars /\ UNCHANGED <<status, changed, hidden, answered, raced, dir, job>>
      /\ worker[w].pc = "list"
  BY Zenon DEF AddOns!List, AddOns!jobVars
<1>2. PICK missing \in SUBSET {p \in AddOns!Present : dir[p] = "part"} :
          worker' = [worker EXCEPT ![w].pc = "clean", ![w].listed = AddOns!Present \ missing]
  BY Zenon DEF AddOns!List
<1>3. worker \in [Processes -> WorkerRecords] /\ worker[w] \in WorkerRecords
  BY DEF PluginInv, PluginTypes
<1>4. AddOns!Present \subseteq Plugins /\ AddOns!Present \ missing \in SUBSET AddOns!Items
  BY DEF AddOns!Present, AddOns!Items
<1> DEFINE seen == AddOns!Present \ missing
<1> HIDE DEF seen
<1>5. /\ worker'[w].pc = "clean" /\ worker'[w].listed = seen /\ worker' \in [Processes -> WorkerRecords]
      /\ \A v \in Processes : v # w => worker'[v] = worker[v]
<2>1. seen \in SUBSET AddOns!Items
  BY <1>4 DEF seen
<2>2. worker' = [worker EXCEPT ![w].pc = "clean", ![w].listed = seen]
  BY <1>2 DEF seen
<2>3. /\ worker'[w].pc = "clean" /\ worker'[w].listed = seen /\ worker'[w] \in WorkerRecords
<3>1. worker'[w] = [worker[w] EXCEPT !.pc = "clean", !.listed = seen]
  BY <1>3, <2>2
<3> QED
  BY <1>3, <2>1, <3>1 DEF WorkerRecords
<2>4. \A v \in Processes : v # w => worker'[v] = worker[v]
  BY <1>3, <2>2
<2>5. worker' \in [Processes -> WorkerRecords]
  BY <1>3, <2>2, <2>3, <2>4
<2> QED
  BY <2>3, <2>4, <2>5
<1>6. PluginTypes' /\ LockIsHeld' /\ HalvesAreReported'
<2>1. seen \subseteq Plugins
  BY <1>4 DEF seen
<2>2. \A v \in Processes : /\ worker'[v].pc = "set" => worker'[v].read \in Plugins \X Statuses
                           /\ worker'[v].pc \in {"clean", "get", "set"} => worker'[v].listed \subseteq Plugins
  BY <1>5, <2>1 DEF PluginInv, PluginTypes
<2>3. status' \in [Plugins -> Statuses] /\ answered' \in [Plugins -> Nat] /\ hidden' \in BOOLEAN /\ changed' \in BOOLEAN
  BY <1>1, Zenon DEF PluginInv, PluginTypes
<2> QED
  BY <1>1, <1>5, <2>2, <2>3, WorkerTypes, Zenon
<1>7. AddOns!Flagged' <=> AddOns!Flagged
  BY <1>1, Zenon DEF AddOns!Flagged, AddOns!Unflagged
<1>8. SeenOrFlagged'
<2> SUFFICES ASSUME ~AddOns!Flagged, NEW v \in Processes, worker'[v].pc # "list"
             PROVE  worker'[v].listed \cap Plugins = AddOns!Present
  BY <1>1, <1>7, Zenon DEF SeenOrFlagged, AddOns!Present
<2>1. missing = {}
<3> SUFFICES ASSUME NEW p \in missing PROVE FALSE
  OBVIOUS
<3>1. p \in Plugins /\ dir[p] = "part"
  BY <1>4
<3>2. ~hidden /\ \A j \in Jobs : ~AddOns!Unflagged(j)
  BY Zenon DEF AddOns!Flagged
<3>3. PICK j \in Jobs : job[j].pc = "written" /\ job[j].what # "generate"
  BY <3>1, <3>2, Zenon DEF PluginInv, HalvesAreReported
<3> QED
  BY <3>2, <3>3, Zenon DEF AddOns!Unflagged
<2>2. CASE v = w
  BY <1>4, <1>5, <2>1, <2>2 DEF seen
<2>3. CASE v # w
  BY <1>5, <2>3, Zenon DEF PluginInv, SeenOrFlagged
<2> QED
  BY <2>2, <2>3
<1>9. LostOrFlagged' /\ StatusIsCounted'
  BY <1>1, <1>5, <1>7 DEF PluginInv, LostOrFlagged, StatusIsCounted
<1> QED
  BY <1>6, <1>8, <1>9 DEF PluginInv

\* The first flag taken down: not stale, it has been seen by all who looked.
LEMMA CleanPluginInv == ASSUME PluginInv, NEW w \in Processes, AddOns!Clean(w) PROVE PluginInv'
<1> DEFINE seen == worker[w].listed
<1>1. /\ UNCHANGED AddOns!jobVars /\ UNCHANGED <<raced, dir, job>>
      /\ worker[w].pc = "clean"
      /\ changed' = FALSE /\ hidden' = (hidden \/ AddOns!Stale)
      /\ status' = [p \in Plugins |-> IF p \in seen THEN status[p] ELSE "none"]
      /\ answered' = [p \in Plugins |-> IF p \in seen THEN answered[p] ELSE 0]
      /\ worker' = [worker EXCEPT ![w].pc = "get", ![w].todo = seen]
  BY Zenon DEF AddOns!Clean, AddOns!jobVars
<1>2. worker \in [Processes -> WorkerRecords] /\ worker[w] \in WorkerRecords /\ seen \subseteq Plugins
  BY <1>1 DEF PluginInv, PluginTypes
<1>3. /\ worker'[w].pc = "get" /\ worker'[w].listed = seen /\ worker' \in [Processes -> WorkerRecords]
      /\ \A v \in Processes : v # w => worker'[v] = worker[v]
<2>1. /\ worker'[w].pc = "get" /\ worker'[w].listed = seen /\ worker'[w].todo = seen
      /\ worker'[w].read = worker[w].read /\ worker'[w] \in WorkerRecords
  BY <1>1, <1>2 DEF WorkerRecords
<2>2. \A v \in Processes : v # w => worker'[v] = worker[v]
  BY <1>1, <1>2
<2>3. worker' \in [Processes -> WorkerRecords]
  BY <1>1, <1>2, <2>1, <2>2
<2> QED
  BY <2>1, <2>2, <2>3
<1>4. status' \in [Plugins -> Statuses] /\ answered' \in [Plugins -> Nat]
  BY <1>1 DEF PluginInv, PluginTypes, Statuses
<1>5. PluginTypes' /\ LockIsHeld' /\ HalvesAreReported'
<2>1. \A v \in Processes : /\ worker'[v].pc = "set" => worker'[v].read \in Plugins \X Statuses
                           /\ worker'[v].pc \in {"clean", "get", "set"} => worker'[v].listed \subseteq Plugins
  BY <1>2, <1>3 DEF PluginInv, PluginTypes
<2>2. hidden' \in BOOLEAN /\ changed' \in BOOLEAN /\ (hidden => hidden')
  BY <1>1, Zenon
<2> QED
  BY <1>1, <1>3, <1>4, <2>1, <2>2, WorkerTypes, Zenon
<1>6. StatusIsCounted'
  BY <1>1 DEF PluginInv, StatusIsCounted
<1>7. SeenOrFlagged'
<2> SUFFICES ASSUME ~AddOns!Flagged', NEW v \in Processes, worker'[v].pc # "list"
             PROVE  worker'[v].listed \cap Plugins = AddOns!Present
  BY <1>1, Zenon DEF SeenOrFlagged, AddOns!Present
<2>1. ~AddOns!Stale
  BY <1>1, Zenon DEF AddOns!Flagged
<2>2. worker[v].pc # "list" /\ worker'[v].listed = worker[v].listed
  BY <1>1, <1>3
<2> QED
  BY <2>1, <2>2, Zenon DEF AddOns!Stale
<1>8. LostOrFlagged'
  BY <1>3 DEF LostOrFlagged
<1> QED
  BY <1>5, <1>6, <1>7, <1>8 DEF PluginInv

LEMMA SetPluginInv == ASSUME PluginInv, NEW w \in Processes, AddOns!Get(w) \/ AddOns!Set(w) PROVE PluginInv'
<1>1. /\ UNCHANGED AddOns!jobVars /\ UNCHANGED <<changed, hidden, answered, dir, job>>
      /\ worker[w].pc \in {"get", "set"}
  BY Zenon DEF AddOns!Get, AddOns!Set, AddOns!jobVars
<1>2. worker \in [Processes -> WorkerRecords] /\ worker[w] \in WorkerRecords
  BY DEF PluginInv, PluginTypes
<1>3. ASSUME worker'[w].pc \in {"get", "set"}, worker'[w].listed = worker[w].listed,
             worker'[w].pc = "set" => worker'[w].read \in Plugins \X Statuses,
             worker' \in [Processes -> WorkerRecords],
             \A v \in Processes : v # w => worker'[v] = worker[v],
             status' \in [Plugins -> Statuses], StatusIsCounted'
      PROVE  PluginInv'
<2>1. \A v \in Processes : /\ worker'[v].pc = "set" => worker'[v].read \in Plugins \X Statuses
                           /\ worker'[v].pc \in {"clean", "get", "set"} => worker'[v].listed \subseteq Plugins
  BY <1>1, <1>3 DEF PluginInv, PluginTypes
<2>2. answered' \in [Plugins -> Nat] /\ hidden' \in BOOLEAN /\ changed' \in BOOLEAN
  BY <1>1, Zenon DEF PluginInv, PluginTypes
<2>3. PluginTypes' /\ LockIsHeld' /\ HalvesAreReported'
  BY <1>1, <1>3, <2>1, <2>2, WorkerTypes, Zenon
<2>4. AddOns!Flagged' <=> AddOns!Flagged
  BY <1>1, Zenon DEF AddOns!Flagged, AddOns!Unflagged
<2>5. SeenOrFlagged'
<3> SUFFICES ASSUME ~AddOns!Flagged, NEW v \in Processes, worker'[v].pc # "list"
             PROVE  worker'[v].listed \cap Plugins = AddOns!Present
  BY <1>1, <2>4, Zenon DEF SeenOrFlagged, AddOns!Present
<3>1. worker[v].pc # "list" /\ worker'[v].listed = worker[v].listed
  BY <1>1, <1>3
<3> QED
  BY <3>1, Zenon DEF PluginInv, SeenOrFlagged
<2>6. LostOrFlagged'
  BY <1>3 DEF LostOrFlagged
<2> QED
  BY <1>3, <2>3, <2>5, <2>6 DEF PluginInv
<1>4. CASE AddOns!Get(w)
<2>1. PICK p \in worker[w].todo :
          worker' = [worker EXCEPT ![w].pc = "set", ![w].todo = {p} \cup (@ \ {p}), ![w].read = <<p, status[p]>>]
  BY <1>4, Zenon DEF AddOns!Get
<2>2. status' = status /\ raced' = raced
  BY <1>4, Zenon DEF AddOns!Get
<2>3. worker[w].todo \subseteq Plugins /\ status \in [Plugins -> Statuses]
  BY DEF PluginInv, PluginTypes, WorkerRecords
<2>4. <<p, status[p]>> \in Plugins \X Statuses
  BY <2>3
<2> DEFINE read == <<p, status[p]>>
           todo == {p} \cup (worker[w].todo \ {p})
<2>5. read \in Plugins \X Statuses /\ todo \in SUBSET Plugins
  BY <2>3, <2>4
<2>6. worker' = [worker EXCEPT ![w].pc = "set", ![w].todo = todo, ![w].read = read]
  BY <1>2, <2>1
<2> HIDE DEF read, todo
<2>7. /\ worker'[w].pc = "set" /\ worker'[w].listed = worker[w].listed /\ worker'[w].read = read
      /\ worker'[w] \in WorkerRecords
  BY <1>2, <2>5, <2>6 DEF WorkerRecords
<2>8. \A v \in Processes : v # w => worker'[v] = worker[v]
  BY <1>2, <2>6
<2>9. worker' \in [Processes -> WorkerRecords]
  BY <1>2, <2>6, <2>7, <2>8
<2>10. StatusIsCounted'
  BY <1>1, <2>2, Zenon DEF PluginInv, StatusIsCounted
<2> QED
  BY <1>3, <2>2, <2>3, <2>5, <2>7, <2>8, <2>9, <2>10
<1>5. CASE AddOns!Set(w)
<2> DEFINE p == worker[w].read[1]
           read == worker[w].read[2]
           todo == worker[w].todo \ {p}
<2>1. /\ worker[w].pc = "set"
      /\ status' = [status EXCEPT ![p] = IF read = "none" THEN "1" ELSE read]
      /\ raced' = IF status[p] = read THEN raced ELSE raced \cup {p}
      /\ worker' = [worker EXCEPT ![w].pc = "get", ![w].todo = @ \ {p}, ![w].read = "none"]
  BY <1>5, Zenon DEF AddOns!Set
<2>2. worker[w].read \in Plugins \X Statuses
  BY <2>1, Zenon DEF PluginInv, PluginTypes
<2>3. p \in Plugins /\ read \in Statuses /\ todo \in SUBSET Plugins
  BY <1>2, <2>2 DEF WorkerRecords
<2>4. worker' = [worker EXCEPT ![w].pc = "get", ![w].todo = todo, ![w].read = "none"]
  BY <1>2, <2>1
<2> HIDE DEF p, read, todo
<2>5. /\ worker'[w].pc = "get" /\ worker'[w].listed = worker[w].listed /\ worker'[w] \in WorkerRecords
  BY <1>2, <2>3, <2>4 DEF WorkerRecords
<2>6. \A v \in Processes : v # w => worker'[v] = worker[v]
  BY <1>2, <2>4
<2>7. worker' \in [Processes -> WorkerRecords]
  BY <1>2, <2>4, <2>5, <2>6
<2>8. status \in [Plugins -> Statuses] /\ answered' = answered
  BY <1>1, Zenon DEF PluginInv, PluginTypes
<2>9. /\ \A q \in Plugins : q # p => status'[q] = status[q]
      /\ status'[p] = (IF read = "none" THEN "1" ELSE read) /\ status' \in [Plugins -> Statuses]
  BY <2>1, <2>3, <2>8 DEF Statuses
<2>10. /\ \A q \in Plugins : q \notin raced' => q \notin raced
       /\ p \notin raced' => status[p] = read
  BY <2>1
<2>11. StatusIsCounted'
<3> SUFFICES ASSUME NEW q \in Plugins
             PROVE  /\ status'[q] = "none" => answered'[q] = 0
                    /\ status'[q] # "none" /\ q \notin raced' => (status'[q] = "0" <=> answered'[q] % 2 = 1)
  BY Zenon DEF StatusIsCounted
<3>1. /\ status[q] = "none" => answered[q] = 0
      /\ status[q] # "none" /\ q \notin raced => (status[q] = "0" <=> answered[q] % 2 = 1)
  BY Zenon DEF PluginInv, StatusIsCounted
<3>2. CASE q # p
  BY <2>8, <2>9, <2>10, <3>1, <3>2
<3>3. CASE q = p
  BY <2>8, <2>9, <2>10, <3>1, <3>3
<3> QED
  BY <3>2, <3>3
<2> QED
  BY <1>3, <2>5, <2>6, <2>7, <2>9, <2>11
<1> QED
  BY <1>4, <1>5

\* A worker that goes on with what it has listed.
LEMMA WorkerGoes ==
    ASSUME PluginInv, NEW w \in Processes, worker[w].pc # "list",
           worker' \in [Processes -> WorkerRecords], worker'[w].pc \in {"load", "up", "down"},
           \A v \in Processes : v # w => worker'[v] = worker[v],
           worker'[w].listed \cap Plugins = worker[w].listed \cap Plugins,
           UNCHANGED AddOns!jobVars, status' = status, answered' = answered, raced' = raced,
           changed' \in BOOLEAN, hidden' \in BOOLEAN, hidden => hidden',
           changed' = changed \/ hidden' \/ ~AddOns!Stale
    PROVE  /\ PluginTypes' /\ LockIsHeld' /\ StatusIsCounted' /\ HalvesAreReported' /\ SeenOrFlagged'
           /\ dir' = dir /\ job' = job
<1>5. dir' = dir /\ job' = job
  BY Zenon DEF AddOns!jobVars
<1>6. PluginTypes' /\ LockIsHeld' /\ HalvesAreReported'
<2>1. \A v \in Processes : /\ worker'[v].pc = "set" => worker'[v].read \in Plugins \X Statuses
                           /\ worker'[v].pc \in {"clean", "get", "set"} => worker'[v].listed \subseteq Plugins
  BY DEF PluginInv, PluginTypes
<2>2. status' \in [Plugins -> Statuses] /\ answered' \in [Plugins -> Nat]
  BY Zenon DEF PluginInv, PluginTypes
<2> QED
  BY <2>1, <2>2, WorkerTypes, Zenon
<1>7. StatusIsCounted'
  BY Zenon DEF PluginInv, StatusIsCounted
<1>8. SeenOrFlagged'
<2> SUFFICES ASSUME ~AddOns!Flagged', NEW v \in Processes, worker'[v].pc # "list"
             PROVE  worker'[v].listed \cap Plugins = AddOns!Present
  BY <1>5, Zenon DEF SeenOrFlagged, AddOns!Present
<2>1. worker[v].pc # "list" /\ worker'[v].listed \cap Plugins = worker[v].listed \cap Plugins
  OBVIOUS
<2>2. ~AddOns!Flagged \/ ~AddOns!Stale
  BY <1>5, Zenon DEF AddOns!Flagged, AddOns!Unflagged
<2> QED
  BY <2>1, <2>2, Zenon DEF PluginInv, SeenOrFlagged, AddOns!Stale
<1> QED
  BY <1>5, <1>6, <1>7, <1>8

\* The second flag taken down: with every plugin given its status, and all
\* who looked having seen the same plugins, no worker misses one.
LEMMA ResetPluginInv == ASSUME PluginInv, NEW w \in Processes, AddOns!Reset(w) PROVE PluginInv'
<1>1. /\ UNCHANGED AddOns!jobVars /\ UNCHANGED <<status, answered, raced>>
      /\ worker[w].pc = "get" /\ changed' = FALSE
      /\ hidden' = (hidden \/ AddOns!Stale \/ \E p \in worker[w].listed : AddOns!Answer(p) = "lost")
      /\ worker' = [worker EXCEPT ![w].pc = "load"]
  BY Zenon DEF AddOns!Reset
<1>2. worker \in [Processes -> WorkerRecords] /\ worker[w] \in WorkerRecords
  BY DEF PluginInv, PluginTypes
<1>3. /\ worker'[w].pc = "load" /\ worker'[w].listed = worker[w].listed /\ worker' \in [Processes -> WorkerRecords]
      /\ \A v \in Processes : v # w => worker'[v] = worker[v]
<2>1. worker'[w].pc = "load" /\ worker'[w].listed = worker[w].listed /\ worker'[w] \in WorkerRecords
<3>1. worker'[w] = [worker[w] EXCEPT !.pc = "load"]
  BY <1>1, <1>2
<3> QED
  BY <1>2, <3>1 DEF WorkerRecords
<2> QED
  BY <1>1, <1>2, <2>1
<1>4. /\ PluginTypes' /\ LockIsHeld' /\ StatusIsCounted' /\ HalvesAreReported' /\ SeenOrFlagged'
      /\ dir' = dir /\ job' = job
<2>1. hidden' \in BOOLEAN /\ changed' \in BOOLEAN /\ (hidden => hidden') /\ (hidden' \/ ~AddOns!Stale)
  BY <1>1, Zenon
<2>2. worker[w].pc # "list" /\ worker'[w].pc \in {"load", "up", "down"}
  BY <1>1, <1>3
<2> QED
  BY <1>1, <1>3, <2>1, <2>2, WorkerGoes, Zenon
<1>5. LostOrFlagged'
<2> SUFFICES ASSUME ~AddOns!Flagged', NEW v \in Processes, worker'[v].pc \in {"load", "up"},
                    NEW p \in worker'[v].listed \cap Plugins
             PROVE  status'[p] # "none"
  BY Zenon DEF LostOrFlagged
<2>1. ~AddOns!Stale /\ \A q \in worker[w].listed : AddOns!Answer(q) # "lost"
  BY <1>1, Zenon DEF AddOns!Flagged
<2>2. worker[v].pc # "list" /\ worker'[v].listed = worker[v].listed
  BY <1>1, <1>3
<2>3. worker[v].listed \cap Plugins = worker[w].listed \cap Plugins
  BY <1>1, <2>1, <2>2 DEF AddOns!Stale
<2>4. p \in worker[w].listed
  BY <2>2, <2>3
<2> QED
  BY <1>1, <2>1, <2>4 DEF AddOns!Answer
<1> QED
  BY <1>4, <1>5 DEF PluginInv

LEMMA LoadPluginInv == ASSUME PluginInv, NEW w \in Processes, AddOns!Load(w) PROVE PluginInv'
<1> DEFINE listed == worker[w].listed \cup AddOns!Generated
<1>1. /\ UNCHANGED AddOns!jobVars /\ UNCHANGED <<status, changed, hidden, answered, raced>>
      /\ worker[w].pc = "load"
      /\ worker' = [worker EXCEPT ![w].pc = "up", ![w].listed = @ \cup AddOns!Generated]
  BY Zenon DEF AddOns!Load
<1>2. worker \in [Processes -> WorkerRecords] /\ worker[w] \in WorkerRecords
  BY DEF PluginInv, PluginTypes
<1>3. /\ listed \in SUBSET AddOns!Items
      /\ listed \cap Plugins = worker[w].listed \cap Plugins
  BY <1>2, NamesAreDistinct DEF WorkerRecords, AddOns!Generated, AddOns!Items
<1>4. worker' = [worker EXCEPT ![w].pc = "up", ![w].listed = listed]
  BY <1>1, <1>2
<1> HIDE DEF listed
<1>5. /\ worker'[w].pc = "up" /\ worker'[w].listed = listed /\ worker' \in [Processes -> WorkerRecords]
      /\ \A v \in Processes : v # w => worker'[v] = worker[v]
<2>1. worker'[w].pc = "up" /\ worker'[w].listed = listed /\ worker'[w] \in WorkerRecords
<3>1. worker'[w] = [worker[w] EXCEPT !.pc = "up", !.listed = listed]
  BY <1>2, <1>4
<3> QED
  BY <1>2, <1>3, <3>1 DEF WorkerRecords
<2> QED
  BY <1>2, <1>4, <2>1
<1>6. /\ PluginTypes' /\ LockIsHeld' /\ StatusIsCounted' /\ HalvesAreReported' /\ SeenOrFlagged'
      /\ dir' = dir /\ job' = job
<2>1. hidden' \in BOOLEAN /\ changed' \in BOOLEAN /\ (hidden => hidden') /\ changed' = changed
  BY <1>1, Zenon DEF PluginInv, PluginTypes
<2>2. worker[w].pc # "list" /\ worker'[w].pc \in {"load", "up", "down"}
      /\ worker'[w].listed \cap Plugins = worker[w].listed \cap Plugins
  BY <1>1, <1>3, <1>5
<2> QED
  BY <1>1, <1>5, <2>1, <2>2, WorkerGoes, Zenon
<1>7. AddOns!Flagged' <=> AddOns!Flagged
  BY <1>1, <1>6, Zenon DEF AddOns!Flagged, AddOns!Unflagged
<1>8. LostOrFlagged'
  BY <1>1, <1>3, <1>5, <1>7 DEF PluginInv, LostOrFlagged
<1> QED
  BY <1>6, <1>8 DEF PluginInv

LEMMA StartFailsPluginInv ==
    ASSUME PluginInv, NEW w \in Processes,
           AddOns!RequirementsFail(w) \/ AddOns!ConfigFails(w) \/ AddOns!InjectFails(w)
    PROVE  PluginInv'
<1>1. /\ UNCHANGED AddOns!jobVars /\ UNCHANGED <<status, changed, hidden, answered, raced>>
      /\ worker[w].pc \in {"clean", "get", "load"}
      /\ worker' = [worker EXCEPT ![w].pc = "down", ![w].todo = {}]
  BY Zenon DEF AddOns!RequirementsFail, AddOns!ConfigFails, AddOns!InjectFails, AddOns!StartFails
<1>2. worker \in [Processes -> WorkerRecords] /\ worker[w] \in WorkerRecords
  BY DEF PluginInv, PluginTypes
<1>3. /\ worker'[w].pc = "down" /\ worker'[w].listed = worker[w].listed /\ worker' \in [Processes -> WorkerRecords]
      /\ \A v \in Processes : v # w => worker'[v] = worker[v]
<2>1. worker'[w].pc = "down" /\ worker'[w].listed = worker[w].listed /\ worker'[w] \in WorkerRecords
<3>1. worker'[w] = [worker[w] EXCEPT !.pc = "down", !.todo = {}]
  BY <1>1, <1>2
<3> QED
  BY <1>2, <3>1 DEF WorkerRecords
<2> QED
  BY <1>1, <1>2, <2>1
<1>4. /\ PluginTypes' /\ LockIsHeld' /\ StatusIsCounted' /\ HalvesAreReported' /\ SeenOrFlagged'
      /\ dir' = dir /\ job' = job
<2>1. hidden' \in BOOLEAN /\ changed' \in BOOLEAN /\ (hidden => hidden') /\ changed' = changed
  BY <1>1, Zenon DEF PluginInv, PluginTypes
<2>2. worker[w].pc # "list" /\ worker'[w].pc \in {"load", "up", "down"}
      /\ worker'[w].listed \cap Plugins = worker[w].listed \cap Plugins
  BY <1>1, <1>3
<2> QED
  BY <1>1, <1>3, <2>1, <2>2, WorkerGoes, Zenon
<1>5. LostOrFlagged'
  BY <1>3 DEF LostOrFlagged
<1> QED
  BY <1>4, <1>5 DEF PluginInv

LEMMA NextPluginInv == ASSUME PluginInv, [AddOns!Next]_(AddOns!vars) PROVE PluginInv'
<1>1. CASE UNCHANGED AddOns!vars
<2>1. /\ UNCHANGED <<dir, router, status, changed, lock, lockFile, event, job, toggle, worker, starts, hidden, overrun, answered, raced>>
  BY <1>1, Zenon DEF AddOns!vars
<2>2. PluginTypes'
  BY <2>1, Zenon DEF PluginInv, PluginTypes
<2> QED
  BY <2>1, <2>2, Zenon DEF PluginInv, LockIsHeld, StatusIsCounted, HalvesAreReported, SeenOrFlagged,
     LostOrFlagged, AddOns!Flagged, AddOns!Unflagged, AddOns!Present
<1>2. CASE AddOns!Restart
  BY <1>2, RestartPluginInv, Zenon DEF AddOns!Restart
<1>3. CASE AddOns!Next
  BY <1>2, <1>3, JobPluginInv, BeginPluginInv, LapsePluginInv, WatchPluginInv, TogglePluginInv, ListPluginInv,
     CleanPluginInv, SetPluginInv, ResetPluginInv, LoadPluginInv, StartFailsPluginInv, Zenon DEF AddOns!Next
<1> QED
  BY <1>1, <1>3

LEMMA PluginsInvariant == AddOns!Spec => []PluginInv
<1>1. PluginInv /\ [AddOns!Next]_(AddOns!vars) => PluginInv'
  BY NextPluginInv
<1> QED
  BY <1>1, InitPluginInv, PTL DEF AddOns!Spec

\* A worker that serves other plugins than there are, or whose requests to a
\* plugin fail for want of its status, has the flag that asks for a restart.
THEOREM ChangesAlwaysFlagged == AddOns!Spec => []ChangesAreFlagged
<1>1. PluginInv => ChangesAreFlagged
<2> SUFFICES ASSUME PluginInv, NEW w \in Processes, worker[w].pc = "up"
             PROVE  /\ worker[w].listed \cap Plugins = AddOns!Present \/ AddOns!Flagged
                    /\ (\E p \in worker[w].listed \cap Plugins : AddOns!Answer(p) = "lost") =>
                           AddOns!Flagged \/ \E v \in Processes : worker[v].pc # "up"
  BY DEF ChangesAreFlagged, AddOns!ChangesAreFlagged
<2>1. worker[w].listed \cap Plugins = AddOns!Present \/ AddOns!Flagged
  BY DEF PluginInv, SeenOrFlagged
<2>2. ASSUME NEW p \in worker[w].listed \cap Plugins, AddOns!Answer(p) = "lost",
             ~AddOns!Flagged, \A v \in Processes : worker[v].pc = "up"
      PROVE  FALSE
<3>1. status[p] # "none"
  BY <2>2 DEF PluginInv, LostOrFlagged
<3> QED
  BY <2>2, <3>1 DEF AddOns!Answer
<2> QED
  BY <2>1, <2>2
<1> QED
  BY <1>1, PluginsInvariant, PTL

\* A plugin is disabled just if an odd number of changes has been answered,
\* where no two of them crossed.
THEOREM TogglesAlwaysCount == AddOns!Spec => []TogglesCount
<1>1. PluginInv => TogglesCount
  BY DEF PluginInv, StatusIsCounted, TogglesCount, AddOns!TogglesCount
<1> QED
  BY <1>1, PluginsInvariant, PTL

\* The watcher restarts no worker over a half written directory, but for a
\* job that runs without the lock.
THEOREM WritersAlwaysSpared == AddOns!Spec => WritersAreSpared
<1>1. PluginInv /\ [AddOns!Next]_(AddOns!vars) =>
          [AddOns!Watch /\ starts' # starts => overrun \/ \A j \in Jobs : job[j].pc # "written"]_(AddOns!vars)
<2> SUFFICES ASSUME PluginInv, AddOns!Watch, starts' # starts
             PROVE  overrun \/ \A j \in Jobs : job[j].pc # "written"
  OBVIOUS
<2>1. ~lockFile
  BY Zenon DEF AddOns!Watch, AddOns!Passes
<2> QED
  BY <2>1 DEF PluginInv, LockIsHeld
<1> QED
  BY <1>1, PluginsInvariant, PTL DEF AddOns!Spec, WritersAreSpared, AddOns!WritersAreSpared

=============================================================================
