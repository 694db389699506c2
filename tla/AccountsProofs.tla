--------------------------- MODULE AccountsProofs ---------------------------
(***************************************************************************)
(* Proofs about the parts of an account that MCAccounts runs: how many     *)
(* passwords two attempts can try, who unlocks, who owns a phone number or *)
(* a social account, which passwords come back, and what the copy of a     *)
(* user decides.  Each part has an inductive invariant of its own.         *)
(***************************************************************************)
EXTENDS MCAccounts, Sequences, FiniteSetTheorems, TLAPS

-----------------------------------------------------------------------------
(* The guard of the login, for any number of attempts, any threshold and   *)
(* any duration of the lock.                                               *)

\* While the lock is in force, whoever is past check_status got there before.
OvertakenAreMarked == Locked => \A a \in Attempts : pc[a] # "idle" => a \in overtaken

IInv == TypeOK /\ OvertakenAreMarked

LEMMA InitIInv == Init => IInv
BY LoginGuardAssumption DEF Init, IInv, TypeOK, OvertakenAreMarked, Locked, Gone, NoLock

\* One attempt's step keeps the invariant.
LEMMA StepIInv ==
    ASSUME IInv, NEW a \in Attempts, Step(a) \/ Die(a)
    PROVE IInv'
<1> USE LoginGuardAssumption DEF IInv, TypeOK, OvertakenAreMarked, Locked, Gone, NoLock, Goto, Leave
<1>1. CASE CheckStatus(a)
  BY <1>1 DEF CheckStatus
<1>2. CASE RemoveLock(a)
  BY <1>2 DEF RemoveLock
<1>3. CASE RemoveCounter(a)
  BY <1>3 DEF RemoveCounter
<1>4. CASE Verify(a)
  BY <1>4 DEF Verify
<1>5. CASE ReadCount(a)
  BY <1>5 DEF ReadCount
<1>6. CASE WriteCount(a)
  BY <1>6 DEF WriteCount, More
<1>7. CASE SetLock(a)
  BY <1>7 DEF SetLock
<1>8. CASE Die(a)
  BY <1>8 DEF Die
<1> QED
  BY <1>1, <1>2, <1>3, <1>4, <1>5, <1>6, <1>7, <1>8 DEF Step

\* So does a second.
LEMMA SecondIInv == IInv /\ Second => IInv'
<1> SUFFICES ASSUME IInv, Second PROVE IInv'
  OBVIOUS
<1> USE LoginGuardAssumption DEF IInv, TypeOK, OvertakenAreMarked, Locked, Gone
<1>1. failures' \in [count : 0 .. Threshold, left : 0 .. LockSeconds]
      /\ (failures'.left = 0 => failures' = Gone)
  BY DEF Second
<1>2. /\ lock' \in [left : 0 .. LockSeconds, held : 0 .. LockSeconds]
      /\ lock'.held <= lock'.left
      /\ lock'.held > 0 => lock.held > 0
  BY DEF Second, Down
<1> QED
  BY <1>1, <1>2 DEF Second

LEMMA NextIInv == IInv /\ [Next]_vars => IInv'
<1> SUFFICES ASSUME IInv, [Next]_vars PROVE IInv'
  OBVIOUS
<1>1. CASE Second
  BY <1>1, SecondIInv
<1>2. CASE \E a \in Attempts : Step(a) \/ Die(a)
  BY <1>2, StepIInv
<1>3. CASE UNCHANGED vars
  BY <1>3 DEF vars, IInv, TypeOK, OvertakenAreMarked, Locked, Gone
<1> QED
  BY <1>1, <1>2, <1>3 DEF Next

\* The strengthened invariant holds in every reachable state.
THEOREM Inductive == Spec => []IInv
BY InitIInv, NextIInv, PTL DEF Spec

\* Counter, lock and attempts keep their types, and neither key outlives
\* USER_LOCK_SECONDS.
THEOREM TypeCorrect == Spec => []TypeOK
BY Inductive, PTL DEF IInv

\* A lock in force is removed only by an attempt that passed check_status
\* before the lock was set, whatever the number of attempts.
THEOREM OnlyOvertakenUnlock == Spec => LockRemovedByOvertaken
<1>1. IInv /\ [Next]_vars =>
          [Locked /\ lock' = NoLock /\ lock.left > 1 => \E a \in overtaken : pc'[a] # pc[a]]_vars
  <2> SUFFICES ASSUME IInv, [Next]_vars, Locked, lock' = NoLock, lock.left > 1
               PROVE \E a \in overtaken : pc'[a] # pc[a]
    OBVIOUS
  <2> USE DEF IInv, TypeOK, Locked, NoLock
  <2>1. lock' # lock
    OBVIOUS
  <2>2. ~Second
    BY DEF Second, Down
  <2>3. PICK a \in Attempts : Step(a) \/ Die(a)
    BY <2>1, <2>2 DEF Next, vars
  <2>4. RemoveLock(a)
    BY <2>1, <2>3, LoginGuardAssumption
       DEF Step, Die, CheckStatus, RemoveCounter, Verify, ReadCount, WriteCount, SetLock
  <2>5. a \in overtaken
    BY <2>4 DEF RemoveLock, OvertakenAreMarked
  <2>6. pc'[a] # pc[a]
    BY <2>4 DEF RemoveLock, Goto
  <2> QED
    BY <2>5, <2>6
<1> QED
  BY <1>1, Inductive, PTL DEF Spec, LockRemovedByOvertaken

-----------------------------------------------------------------------------
(* How many wrong passwords two attempts at a time can try.                *)

\* Attempts whose wrong password is not counted yet, or whose lock is not set.
Busy == {a \in Attempts : pc[a] \in {"failed", "count", "lock"}}
\* Twice the wrong passwords that bring the count to n at most: two attempts
\* can try T to bring it to 1, T - 1 more to bring it to 2, and so on.
Tries(n) == n * (2 * Threshold - n + 1)
\* What can still be tried before the count must stop.
Room(n) == IF n < Threshold THEN Threshold - n ELSE 1
Load == Cardinality(Busy) + deaths

\* What was tried at the count there is, what it will be once a slow attempt
\* has written, and who has read the count that is there.
CountedInv == 2 * wrong + (IF failures.count < Threshold THEN 0 ELSE 2) <= Tries(failures.count) + 2 * Load
SlowInv(a) == pc[a] = "count" => 2 * wrong + 2 * Room(failures.count) <= Tries(More(seen[a])) + 2 * Load
FreshInv(a, b) ==
    a # b /\ pc[a] = "count" /\ pc[b] = "count" => failures.count \in {seen[a], seen[b]} \/ wrong = 0
GuessInv ==
    /\ CountedInv
    /\ \A a \in Attempts : SlowInv(a)
    /\ \A a, b \in Attempts : FreshInv(a, b)

LEMMA TriesGrow ==
    ASSUME Threshold \in Nat, NEW m \in 0 .. Threshold, NEW n \in 0 .. Threshold, m <= n
    PROVE  Tries(m) \in Int /\ Tries(n) \in Int /\ Tries(m) + 2 * (n - m) <= Tries(n)
<1> DEFINE x == n - m
           y == 2 * Threshold - m - n + 1
<1>1. Tries(n) - Tries(m) = x * y
  BY DEF Tries
<1>2. x \in Nat /\ y \in Int /\ (x = 0 \/ y >= 2)
  OBVIOUS
<1>3. x * y >= 2 * x
<2> HIDE DEF x, y
<2> QED
  BY <1>2
<1>4. Tries(m) \in Int /\ Tries(n) \in Int /\ x * y \in Int
  BY DEF Tries
<1> QED
  BY <1>1, <1>3, <1>4

LEMMA TriesNext ==
    ASSUME Threshold \in Nat, NEW n \in 0 .. Threshold, n < Threshold
    PROVE  Tries(n + 1) = Tries(n) + 2 * (Threshold - n) /\ Tries(n) \in Int
  BY DEF Tries

LEMMA TriesEnds == Threshold \in Nat => Tries(0) = 0 /\ Tries(1) = 2 * Threshold /\ Tries(Threshold) = Threshold * (Threshold + 1)
  BY DEF Tries

\* With two attempts there is no third.
LEMMA NoThird ==
    ASSUME Cardinality(Attempts) <= 2, NEW a \in Attempts, NEW b \in Attempts, NEW c \in Attempts, a # b
    PROVE  c \in {a, b}
<1> SUFFICES ASSUME c \notin {a, b} PROVE FALSE
  OBVIOUS
<1>1. IsFiniteSet({a}) /\ Cardinality({a}) = 1
  BY FS_Singleton
<1>2. IsFiniteSet({a} \union {b}) /\ Cardinality({a} \union {b}) = 2
  BY <1>1, FS_AddElement
<1>3. IsFiniteSet(({a} \union {b}) \union {c}) /\ Cardinality(({a} \union {b}) \union {c}) = 3
  BY <1>2, FS_AddElement
<1>4. ({a} \union {b}) \union {c} \subseteq Attempts
  OBVIOUS
<1>5. Cardinality(({a} \union {b}) \union {c}) <= Cardinality(Attempts)
  BY <1>4, FS_Subset, LoginGuardAssumption
<1>6. Cardinality(Attempts) \in Nat
  BY FS_CardinalityType, LoginGuardAssumption
<1> QED
  BY <1>3, <1>5, <1>6

LEMMA LoadCounts ==
    IInv => Load \in Nat /\ IsFiniteSet(Busy) /\ Cardinality(Busy) \in Nat /\ Cardinality(Busy) <= Cardinality(Attempts)
<1> SUFFICES ASSUME IInv
             PROVE  Load \in Nat /\ IsFiniteSet(Busy) /\ Cardinality(Busy) \in Nat /\ Cardinality(Busy) <= Cardinality(Attempts)
  OBVIOUS
<1>1. IsFiniteSet(Busy) /\ Cardinality(Busy) <= Cardinality(Attempts)
  BY FS_Subset, LoginGuardAssumption DEF Busy
<1>2. Cardinality(Busy) \in Nat /\ deaths \in Nat
  BY <1>1, FS_CardinalityType, LoginGuardAssumption DEF IInv, TypeOK
<1> QED
  BY <1>1, <1>2 DEF Load

LEMMA LoadCountsNext == IInv' => (Load \in Nat)'
BY LoadCounts, PTL

LEMMA OneMore ==
    ASSUME NEW S, IsFiniteSet(S), NEW b
    PROVE  /\ b \notin S => Cardinality(S \union {b}) = Cardinality(S) + 1
           /\ b \in S => Cardinality(S \ {b}) = Cardinality(S) - 1
           /\ Cardinality(S) \in Nat
  BY FS_AddElement, FS_RemoveElement, FS_CardinalityType

\* The types the arithmetic needs.
LEMMA GuessTypes ==
    ASSUME IInv
    PROVE  /\ wrong \in Nat /\ Load \in Nat /\ failures.count \in 0 .. Threshold /\ Threshold \in Nat
           /\ Tries(failures.count) \in Int /\ Room(failures.count) \in Nat
           /\ \A a \in Attempts : /\ seen[a] \in 0 .. Threshold /\ More(seen[a]) \in 0 .. Threshold
                                  /\ Tries(More(seen[a])) \in Int
<1>1. wrong \in Nat /\ Load \in Nat /\ failures.count \in 0 .. Threshold /\ Threshold \in Nat
  BY LoadCounts, LoginGuardAssumption DEF IInv, TypeOK
<1>2. \A a \in Attempts : seen[a] \in 0 .. Threshold /\ More(seen[a]) \in 0 .. Threshold
  BY LoginGuardAssumption DEF IInv, TypeOK, More
<1>3. \A n \in 0 .. Threshold : Tries(n) \in Int
  BY <1>1, TriesGrow
<1> QED
  BY <1>1, <1>2, <1>3 DEF Room

\* What may happen without a count being read or written.
LEMMA GuessKeeps ==
    ASSUME IInv, IInv', GuessInv, failures'.count = failures.count, wrong' - wrong <= Load' - Load,
           \A b \in Attempts : pc'[b] = "count" => pc[b] = "count" /\ seen'[b] = seen[b],
           wrong' = wrong \/ \A b, d \in Attempts : b # d => ~(pc'[b] = "count" /\ pc'[d] = "count")
    PROVE  GuessInv'
<1>1. wrong' \in Nat /\ Load' \in Nat
  BY LoadCountsNext DEF IInv, TypeOK
<1>2. CountedInv'
  BY <1>1, GuessTypes DEF GuessInv, CountedInv, Tries
<1>3. ASSUME NEW a \in Attempts, pc'[a] = "count"
      PROVE  2 * wrong' + 2 * Room(failures.count) <= Tries(More(seen[a])) + 2 * Load'
  BY <1>1, <1>3, GuessTypes DEF GuessInv, SlowInv
<1>4. \A a \in Attempts : SlowInv(a)'
  BY <1>3 DEF SlowInv, Room, Tries, More
<1>5. \A a, b \in Attempts : FreshInv(a, b)'
  BY DEF GuessInv, FreshInv
<1> QED
  BY <1>2, <1>4, <1>5 DEF GuessInv

\* A counter that is removed, or a lock that is set, begins anew.
LEMMA GuessAnew ==
    ASSUME Threshold > 0, IInv, wrong = 0
    PROVE  GuessInv
<1>1. Tries(0) = 0 /\ Tries(1) = 2 * Threshold /\ Tries(Threshold) = Threshold * (Threshold + 1)
  BY TriesEnds, LoginGuardAssumption
<1>2. CountedInv
  <2>1. Tries(0) + 2 * failures.count <= Tries(failures.count)
    BY TriesGrow, GuessTypes
  <2> QED
    BY <1>1, <2>1, GuessTypes DEF CountedInv
<1>3. ASSUME NEW a \in Attempts, pc[a] = "count"
      PROVE  2 * wrong + 2 * Room(failures.count) <= Tries(More(seen[a])) + 2 * Load
  <2>1. 1 <= More(seen[a]) /\ 1 \in 0 .. Threshold /\ Room(failures.count) <= Threshold
    BY GuessTypes DEF More, Room
  <2>2. Tries(1) + 2 * (More(seen[a]) - 1) <= Tries(More(seen[a]))
    BY <2>1, TriesGrow, GuessTypes
  <2> QED
    BY <1>1, <2>1, <2>2, GuessTypes
<1>4. \A a, b \in Attempts : FreshInv(a, b)
  BY DEF FreshInv
<1> QED
  BY <1>2, <1>3, <1>4 DEF GuessInv, SlowInv

LEMMA GuessAnewNext == (Threshold > 0 /\ IInv /\ wrong = 0)' => GuessInv'
<1>1. Threshold > 0 /\ IInv /\ wrong = 0 => GuessInv
  BY GuessAnew
<1> QED
  BY <1>1, PTL

\* The actions that leave the count and who has read it alone: whoever tries a
\* wrong password, or dies, adds to the load what it adds to the tries.
LEMMA GuessMoves ==
    ASSUME Threshold > 0, Cardinality(Attempts) <= 2, IInv, IInv', GuessInv, NEW a \in Attempts,
           CheckStatus(a) \/ RemoveLock(a) \/ Verify(a) \/ Die(a)
    PROVE  GuessInv'
<1> DEFINE busy == a \in Busy
<1>1. failures' = failures /\ seen' = seen /\ wrong \in Nat /\ deaths \in Nat
  BY LoginGuardAssumption DEF IInv, TypeOK, CheckStatus, RemoveLock, Verify, Die
<1>2. /\ \A b \in Attempts \ {a} : pc'[b] = pc[b]
      /\ pc'[a] # "count" \/ pc'[a] = pc[a]
  BY DEF IInv, TypeOK, CheckStatus, RemoveLock, Verify, Die, Goto, Leave
<1>3. IsFiniteSet(Busy) /\ Cardinality(Busy) \in Nat
  BY LoadCounts
<1>4. CASE Verify(a) /\ wrong' = wrong + 1
  <2>1. a \notin Busy /\ Busy' = Busy \union {a} /\ deaths' = deaths /\ pc'[a] = "failed"
    BY <1>2, <1>4 DEF Verify, Goto, Leave, Busy, IInv, TypeOK
  <2>2. Cardinality(Busy') = Cardinality(Busy) + 1
    BY <1>3, <2>1, OneMore
  <2>3. wrong' - wrong <= Load' - Load
    BY <1>1, <1>3, <1>4, <2>1, <2>2 DEF Load
  <2>4. \A b, d \in Attempts : b # d => ~(pc'[b] = "count" /\ pc'[d] = "count")
    BY <2>1, NoThird
  <2> QED
    BY <1>1, <1>2, <2>1, <2>3, <2>4, GuessKeeps
<1>5. CASE Die(a)
  <2>1. deaths' = deaths + 1 /\ wrong' = wrong /\ pc'[a] = "idle" /\ Busy' = Busy \ {a}
    BY <1>2, <1>5 DEF Die, Goto, Leave, Busy, IInv, TypeOK
  <2>2. Cardinality(Busy') \in Nat /\ Cardinality(Busy') >= Cardinality(Busy) - 1
    <3>1. CASE a \in Busy
      <4>1. Cardinality(Busy \ {a}) = Cardinality(Busy) - 1
        BY <1>3, <3>1, OneMore
      <4>2. IsFiniteSet(Busy \ {a})
        BY <1>3, FS_RemoveElement
      <4>3. Cardinality(Busy \ {a}) \in Nat
        BY <4>2, FS_CardinalityType
      <4> QED
        BY <1>3, <2>1, <4>1, <4>3
    <3>2. CASE a \notin Busy
      <4>1. Busy' = Busy
        BY <2>1, <3>2
      <4> QED
        BY <1>3, <4>1
    <3> QED
      BY <3>1, <3>2
  <2>3. wrong' - wrong <= Load' - Load
    BY <1>1, <1>3, <2>1, <2>2 DEF Load
  <2> QED
    BY <1>1, <1>2, <2>1, <2>3, GuessKeeps
<1>6. CASE CheckStatus(a) \/ RemoveLock(a) \/ (Verify(a) /\ wrong' # wrong + 1)
  <2>1. deaths' = deaths /\ wrong' = wrong /\ Busy' = Busy
    BY <1>2, <1>6 DEF CheckStatus, RemoveLock, Verify, Goto, Leave, Busy, IInv, TypeOK
  <2>2. wrong' - wrong <= Load' - Load
    BY <1>1, <1>3, <2>1 DEF Load
  <2> QED
    BY <1>1, <1>2, <2>1, <2>2, GuessKeeps
<1> QED
  BY <1>4, <1>5, <1>6

\* The actions that begin the tries anew.
LEMMA GuessRestarts ==
    ASSUME Threshold > 0, IInv', wrong' = 0
    PROVE  GuessInv'
  BY GuessAnewNext

LEMMA GuessSecond ==
    ASSUME Threshold > 0, IInv, IInv', GuessInv, Second
    PROVE  GuessInv'
<1>1. CASE failures.left > 1
  <2>1. /\ failures'.count = failures.count /\ wrong' = wrong /\ deaths' = deaths /\ Busy' = Busy
        /\ pc' = pc /\ seen' = seen
    BY <1>1 DEF Second, Busy, IInv, TypeOK
  <2>2. wrong' - wrong <= Load' - Load
    BY <2>1, LoadCounts, LoginGuardAssumption DEF Load, IInv, TypeOK
  <2> QED
    BY <2>1, <2>2, GuessKeeps
<1>2. CASE ~(failures.left > 1)
  BY <1>2, GuessRestarts DEF Second
<1> QED
  BY <1>1, <1>2

\* Who reads the count sees what has been tried since.
LEMMA GuessReads ==
    ASSUME Threshold > 0, IInv, IInv', GuessInv, NEW a \in Attempts, ReadCount(a)
    PROVE  GuessInv'
<1>1. /\ failures' = failures /\ wrong' = wrong /\ deaths' = deaths
      /\ seen'[a] = failures.count
      /\ \A b \in Attempts \ {a} : pc'[b] = pc[b] /\ seen'[b] = seen[b]
  BY DEF ReadCount, Goto, Leave, IInv, TypeOK
<1>2. Busy' = Busy
  BY DEF ReadCount, Goto, Leave, IInv, TypeOK, Busy
<1>3. Load' = Load
  BY <1>1, <1>2 DEF Load
<1>4. CountedInv'
  BY <1>1, <1>3 DEF GuessInv, CountedInv, Tries
<1>5. 2 * wrong + 2 * Room(failures.count) <= Tries(More(failures.count)) + 2 * Load
  <2>1. failures.count < Threshold => Tries(failures.count + 1) = Tries(failures.count) + 2 * (Threshold - failures.count)
    BY GuessTypes, TriesNext
  <2>2. CASE failures.count < Threshold
    <3>1. More(failures.count) = failures.count + 1 /\ Room(failures.count) = Threshold - failures.count
      BY <2>2, GuessTypes DEF More, Room
    <3> QED
      BY <2>1, <2>2, <3>1, GuessTypes DEF GuessInv, CountedInv
  <2>3. CASE failures.count = Threshold
    <3>1. More(failures.count) = failures.count /\ Room(failures.count) = 1
      BY <2>3, GuessTypes DEF More, Room
    <3> QED
      BY <2>3, <3>1, GuessTypes DEF GuessInv, CountedInv
  <2>4. failures.count < Threshold \/ failures.count = Threshold
    BY GuessTypes
  <2> QED
    BY <2>2, <2>3, <2>4
<1>6. ASSUME NEW b \in Attempts, pc'[b] = "count"
      PROVE  2 * wrong + 2 * Room(failures.count) <= Tries(More(seen'[b])) + 2 * Load
  BY <1>1, <1>5, <1>6 DEF GuessInv, SlowInv
<1>7. \A b \in Attempts : SlowInv(b)'
  BY <1>1, <1>3, <1>6 DEF SlowInv, Room, Tries, More
<1>8. \A b, d \in Attempts : FreshInv(b, d)'
  BY <1>1 DEF FreshInv, GuessInv
<1> QED
  BY <1>4, <1>7, <1>8 DEF GuessInv

\* The slow attempt a after b has written one more than the t it has read.
LEMMA GuessOvertakes ==
    ASSUME Threshold > 0, Threshold \in Nat, NEW c \in 0 .. Threshold, NEW s \in 0 .. Threshold, NEW t \in 0 .. Threshold,
           c \in {s, t}, NEW w \in Nat, NEW l \in Nat, NEW m \in Nat,
           m = IF More(t) = Threshold THEN l ELSE l - 1,
           2 * w + 2 * Room(c) <= Tries(More(s)) + 2 * l,
           2 * w + 2 * Room(c) <= Tries(More(t)) + 2 * l
    PROVE  2 * w + 2 * Room(More(t)) <= Tries(More(s)) + 2 * m
<1>1. More(s) \in 0 .. Threshold /\ More(t) \in 0 .. Threshold
  BY DEF More
<1>2. Tries(More(s)) \in Int /\ Tries(More(t)) \in Int
  BY <1>1, TriesGrow
<1>3. CASE t >= s \/ t = c
  <2>1. Room(More(t)) \in Nat /\ Room(c) \in Nat /\ (IF More(t) = Threshold THEN Room(More(t)) <= Room(c) ELSE Room(More(t)) <= Room(c) - 1)
    BY <1>3 DEF Room, More
  <2> QED
    BY <1>2, <2>1
<1>4. CASE t < s /\ s = c
  <2>1. Tries(More(t)) + 2 * (More(s) - More(t)) <= Tries(More(s))
    <3>1. More(t) <= More(s)
      BY <1>4 DEF More
    <3> QED
      BY <1>1, <3>1, TriesGrow
  <2>2. /\ Room(More(t)) \in Nat /\ Room(c) \in Nat /\ More(s) \in Int /\ More(t) \in Int
        /\ IF More(t) = Threshold THEN Room(More(t)) <= Room(c) + More(s) - More(t)
           ELSE Room(More(t)) <= Room(c) + More(s) - More(t) - 1
    BY <1>4 DEF Room, More
  <2> QED
    BY <1>2, <2>1, <2>2
<1> QED
  BY <1>3, <1>4

LEMMA GuessWrites ==
    ASSUME Threshold > 0, Cardinality(Attempts) <= 2, IInv, IInv', GuessInv, NEW b \in Attempts, WriteCount(b)
    PROVE  GuessInv'
<1> DEFINE t == seen[b]
<1>1. /\ failures'.count = More(t) /\ wrong' = wrong /\ deaths' = deaths /\ seen' = seen
      /\ pc[b] = "count" /\ pc'[b] = (IF More(t) = Threshold THEN "lock" ELSE "idle")
      /\ \A a \in Attempts \ {b} : pc'[a] = pc[a]
  BY DEF WriteCount, Goto, Leave, IInv, TypeOK
<1>2. IsFiniteSet(Busy) /\ Cardinality(Busy) \in Nat /\ deaths \in Nat
  BY LoadCounts, LoginGuardAssumption DEF IInv, TypeOK
<1>3. Load' = IF More(t) = Threshold THEN Load ELSE Load - 1
  <2>1. CASE More(t) = Threshold
    <3>1. Busy' = Busy
      BY <1>1, <2>1 DEF Busy
    <3> QED
      BY <1>1, <2>1, <3>1 DEF Load
  <2>2. CASE More(t) # Threshold
    <3>1. Busy' = Busy \ {b} /\ b \in Busy
      BY <1>1, <2>2 DEF Busy
    <3>2. Cardinality(Busy') = Cardinality(Busy) - 1
      BY <1>2, <3>1, OneMore
    <3> QED
      BY <1>1, <1>2, <2>2, <3>2 DEF Load
  <2> QED
    BY <2>1, <2>2
<1>4. 2 * wrong + 2 * Room(failures.count) <= Tries(More(t)) + 2 * Load
  BY <1>1 DEF GuessInv, SlowInv
<1>5. t \in 0 .. Threshold /\ More(t) \in 0 .. Threshold /\ Tries(More(t)) \in Int
  BY GuessTypes
<1>6. Load' \in Nat
  BY LoadCountsNext
<1> HIDE DEF t
<1>7. 2 * wrong + (IF More(t) < Threshold THEN 0 ELSE 2) <= Tries(More(t)) + 2 * Load'
  <2>1. Room(failures.count) >= 1
    BY GuessTypes DEF Room
  <2> QED
    BY <1>3, <1>4, <1>5, <2>1, GuessTypes
<1>8. CountedInv'
  BY <1>1, <1>7 DEF CountedInv, Tries
<1>9. \A a, d \in Attempts : FreshInv(a, d)'
  <2>1. \A a, d \in Attempts : a # d => ~(pc'[a] = "count" /\ pc'[d] = "count")
    BY <1>1, NoThird
  <2> QED
    BY <2>1 DEF FreshInv
<1>10. CASE wrong' = 0
  BY <1>10, GuessRestarts
<1>11. CASE wrong' # 0
  <2>1. ASSUME NEW a \in Attempts, pc'[a] = "count"
        PROVE  2 * wrong + 2 * Room(More(t)) <= Tries(More(seen[a])) + 2 * Load'
    <3>1. a # b /\ pc[a] = "count"
      BY <1>1, <2>1
    <3>2. failures.count \in {seen[a], t}
      BY <1>1, <1>11, <3>1 DEF GuessInv, FreshInv, t
    <3>3. 2 * wrong + 2 * Room(failures.count) <= Tries(More(seen[a])) + 2 * Load
      BY <3>1 DEF GuessInv, SlowInv
    <3>4. seen[a] \in 0 .. Threshold
      BY GuessTypes
    <3> QED
      <4>1. wrong \in Nat /\ Load \in Nat /\ failures.count \in 0 .. Threshold /\ Threshold \in Nat
        BY GuessTypes
      <4>2. failures.count = seen[a] \/ failures.count = t
        BY <3>2
      <4> QED
        BY <1>3, <1>4, <1>5, <1>6, <3>3, <3>4, <4>1, <4>2, GuessOvertakes
  <2>2. \A a \in Attempts : SlowInv(a)'
    BY <1>1, <2>1 DEF SlowInv, Room, Tries, More
  <2> QED
    BY <1>8, <1>9, <2>2 DEF GuessInv
<1> QED
  BY <1>10, <1>11

LEMMA GuessNext ==
    ASSUME Threshold > 0, Cardinality(Attempts) <= 2
    PROVE  IInv /\ GuessInv /\ [Next]_vars => GuessInv'
<1> SUFFICES ASSUME IInv, GuessInv, [Next]_vars PROVE GuessInv'
  OBVIOUS
<1>1. IInv'
  BY NextIInv
<1>2. CASE Second
  BY <1>1, <1>2, GuessSecond
<1>3. ASSUME NEW a \in Attempts, Step(a) \/ Die(a) PROVE GuessInv'
  <2>1. CASE CheckStatus(a) \/ RemoveLock(a) \/ Verify(a) \/ Die(a)
    BY <1>1, <2>1, GuessMoves
  <2>2. CASE RemoveCounter(a) \/ SetLock(a)
    <3>1. wrong' = 0
      BY <2>2 DEF RemoveCounter, SetLock
    <3> QED
      BY <1>1, <3>1, GuessRestarts
  <2>3. CASE ReadCount(a)
    BY <1>1, <2>3, GuessReads
  <2>4. CASE WriteCount(a)
    BY <1>1, <2>4, GuessWrites
  <2> QED
    BY <1>3, <2>1, <2>2, <2>3, <2>4 DEF Step
<1>4. CASE UNCHANGED vars
  <2>1. pc' = pc /\ seen' = seen /\ failures' = failures /\ wrong' = wrong /\ deaths' = deaths
    BY <1>4 DEF vars
  <2>2. Busy' = Busy
    BY <2>1 DEF Busy
  <2>3. wrong' - wrong <= Load' - Load
    BY <2>1, <2>2, LoadCounts, LoginGuardAssumption DEF Load, IInv, TypeOK
  <2> QED
    BY <1>1, <2>1, <2>3, GuessKeeps
<1> QED
  BY <1>2, <1>3, <1>4 DEF Next

\* What the sums come to.
LEMMA GuessEnds ==
    ASSUME Threshold > 0, Cardinality(Attempts) <= 2
    PROVE  IInv /\ GuessInv => GuessesBounded
<1> SUFFICES ASSUME IInv, GuessInv PROVE GuessesBounded
  OBVIOUS
<1>1. Cardinality(Busy) \in Nat /\ Cardinality(Busy) <= 2 /\ deaths \in Nat
  <2>1. Cardinality(Attempts) \in Nat
    BY FS_CardinalityType, LoginGuardAssumption
  <2> QED
    BY <2>1, LoadCounts, LoginGuardAssumption DEF IInv, TypeOK
<1>2. Tries(Threshold) = Threshold * (Threshold + 1)
  BY TriesEnds, LoginGuardAssumption
<1>3. Tries(failures.count) + 2 * (Threshold - failures.count) <= Tries(Threshold)
  BY TriesGrow, GuessTypes
<1>4. 2 * wrong <= Threshold * (Threshold + 1) + 2 + 2 * deaths
  <2> DEFINE y == Threshold * (Threshold + 1)
  <2>1. y \in Nat
    BY LoginGuardAssumption
  <2> HIDE DEF y
  <2>2. 2 * wrong + (IF failures.count < Threshold THEN 0 ELSE 2) <= Tries(failures.count) + 2 * Cardinality(Busy) + 2 * deaths
    BY <1>1, GuessTypes DEF GuessInv, CountedInv, Load
  <2>3. Tries(failures.count) + 2 * (Threshold - failures.count) <= y
    BY <1>2, <1>3 DEF y
  <2>4. 2 * wrong <= y + 2 + 2 * deaths
    BY <1>1, <2>1, <2>2, <2>3, GuessTypes
  <2> QED
    BY <2>4 DEF y
<1> DEFINE z == Threshold * (Threshold + 1)
<1>5. z \in Nat
  BY LoginGuardAssumption
<1>6. 2 * wrong <= z + 2 + 2 * deaths
  BY <1>4
<1> HIDE DEF z
<1>7. wrong <= (z \div 2) + 1 + deaths
  BY <1>1, <1>5, <1>6, GuessTypes
<1> QED
  BY <1>7 DEF z, GuessesBounded

LEMMA GuessBegins == Threshold > 0 /\ Init => GuessInv
<1> SUFFICES ASSUME Threshold > 0, Init PROVE GuessInv
  OBVIOUS
<1> QED
  BY InitIInv, GuessAnew DEF Init

\* Two attempts at a time, who read the count and write it back by separate
\* commands, try at most that many wrong passwords before the counter is
\* removed or the lock set, whatever the threshold and however the attempts,
\* the seconds and the deaths interleave.
THEOREM TwoGuessersBounded ==
    ASSUME Threshold > 0, Cardinality(Attempts) <= 2
    PROVE  Spec => []GuessesBounded
<1>1. Init => GuessInv
  BY GuessBegins
<1>2. IInv /\ GuessInv /\ [Next]_vars => GuessInv'
  BY GuessNext
<1>3. IInv /\ GuessInv => GuessesBounded
  BY GuessEnds
<1> QED
  BY <1>1, <1>2, <1>3, Inductive, PTL DEF Spec

-----------------------------------------------------------------------------
(* Who logs in with a phone or a social account is one user.               *)

IsCall(r) ==
    r \in [n : {r.n}, op : {r.op}, subject : {r.subject}, user : {r.user}, at : {r.at},
           newUser : {r.newUser}, newSocial : {r.newSocial}, gone : {r.gone}]

\* A code that has been accepted is not the one in Redis.
CodesInv ==
    /\ code \in [Phones -> Nat] /\ sent \in [Phones -> Nat]
    /\ \A p \in Phones : code[p] <= sent[p]
    /\ \A x \in uses : x[1] \in Phones /\ x[2] \in Nat \ {0} /\ x[2] <= sent[x[1]] /\ x[2] # code[x[1]]

\* A request that has compared a code: who used it ran beside it.
CodeOfCall(r) ==
    /\ r.at \in {"code", "spend"} =>
           r.subject[1] \in Phones /\ r.subject[2] \in Nat \ {0} /\ r.subject[2] <= sent[r.subject[1]]
    /\ r.at = "spend" =>
           \A x \in uses : x[1] = r.subject[1] /\ x[2] = r.subject[2] /\ x[3] # r.n => SignUps!Together(x[3], r.n)

\* A request that inserts a user or a social account, or has found that there
\* is none: whoever inserted one since ran beside it.
UserOfCall(r) ==
    \A v \in r.newUser :
        /\ r.newUser = {v} /\ v.id = r.n
        /\ \A u \in users : u.phone = v.phone /\ u.phone # NoPhone => SignUps!Together(u.id, r.n)
Unknown(r) == \A d \in socials : d.sid = r.subject => SignUps!Together(d.by, r.n)
SocialOfCall(r) ==
    /\ r.at \in {"mail", "insert"} => Unknown(r)
    /\ \A b \in r.newSocial : r.newSocial = {b} /\ b.by = r.n /\ b.sid = r.subject /\ Unknown(r)

CallInv(r) == IsCall(r) /\ r.n \in Nat /\ r.n <= begun /\ CodeOfCall(r) /\ UserOfCall(r) /\ SocialOfCall(r)

SignInv ==
    /\ begun \in Nat /\ CodesInv
    /\ \A r \in calls : CallInv(r)
    /\ \A r, q \in calls : r # q => r.n # q.n /\ SignUps!Together(r.n, q.n)
    /\ OwnersAreUsers

LEMMA PairsAreSets == \A m, n : SignUps!Together(m, n) <=> SignUps!Together(n, m)
<1> SUFFICES ASSUME NEW m, NEW n PROVE SignUps!Together(m, n) <=> SignUps!Together(n, m)
  OBVIOUS
<1>1. {m, n} = {n, m}
  OBVIOUS
<1> QED
  BY <1>1 DEF SignUps!Together

\* A step of one request that writes nothing but its own progress.
LEMMA SignKeeps ==
    ASSUME SignInv, NEW r \in calls, NEW S, calls' = (calls \ {r}) \union S,
           \A s \in S : S = {s} /\ s.n = r.n /\ CallInv(s),
           UNCHANGED <<code, users, socials, sent, uses, begun, together>>
    PROVE  SignInv'
<1>1. \A q \in calls' : CallInv(q)
  BY DEF SignInv
<1>2. \A q \in calls' : CallInv(q)'
  BY <1>1 DEF CallInv, IsCall, CodeOfCall, UserOfCall, SocialOfCall, Unknown, SignUps!Together
<1>3. ASSUME NEW q \in calls', NEW t \in calls', q # t PROVE q.n # t.n /\ SignUps!Together(q.n, t.n)
  <2>1. CASE q \in calls \ {r} /\ t \in calls \ {r}
    BY <1>3, <2>1 DEF SignInv
  <2>2. CASE q \in S /\ t \in calls \ {r}
    BY <2>2 DEF SignInv
  <2>3. CASE t \in S /\ q \in calls \ {r}
    BY <2>3 DEF SignInv
  <2>4. CASE t \in S /\ q \in S
    BY <1>3, <2>4
  <2> QED
    BY <2>1, <2>2, <2>3, <2>4
<1>4. OwnersAreUsers'
  BY DEF SignInv, OwnersAreUsers, SignUps!OwnersAreUsers, SignUps!CodeUsedOnce,
         SignUps!OneUserPerPhone, SignUps!OneUserPerAccount, SignUps!Together
<1>5. CodesInv' /\ begun' \in Nat
  BY DEF SignInv, CodesInv
<1> QED
  BY <1>2, <1>3, <1>4, <1>5 DEF SignInv, SignUps!Together

LEMMA SignFails ==
    ASSUME SignInv, NEW r \in calls, SignUps!Fail(r),
           UNCHANGED <<code, users, socials, sent, uses, begun, together>>
    PROVE  SignInv'
<1> DEFINE S == {}
<1>1. calls' = (calls \ {r}) \union S
  BY DEF SignUps!Fail
<1>2. \A s \in S : S = {s} /\ s.n = r.n /\ CallInv(s)
  OBVIOUS
<1> HIDE DEF S
<1> QED
  BY <1>1, <1>2, SignKeeps

LEMMA SignBecomes ==
    ASSUME SignInv, NEW r \in calls, NEW s, SignUps!Become(r, s), s.n = r.n, CallInv(s),
           UNCHANGED <<code, users, socials, sent, uses, begun, together>>
    PROVE  SignInv'
<1> DEFINE S == {s}
<1>1. calls' = (calls \ {r}) \union S
  BY DEF SignUps!Become
<1>2. \A q \in S : S = {q} /\ q.n = r.n /\ CallInv(q)
  OBVIOUS
<1> HIDE DEF S
<1> QED
  BY <1>1, <1>2, SignKeeps

\* What a request may become.
LEMMA CallGoes ==
    ASSUME NEW r, CallInv(r), NEW l, l \notin {"code", "spend", "mail", "insert"}
    PROVE  CallInv([r EXCEPT !.at = l]) /\ [r EXCEPT !.at = l].n = r.n
<1> DEFINE s == [r EXCEPT !.at = l]
<1>1. /\ IsCall(s) /\ s.n = r.n /\ s.at = l /\ s.newUser = r.newUser /\ s.newSocial = r.newSocial
      /\ s.subject = r.subject
  BY DEF CallInv, IsCall
<1> HIDE DEF s
<1>2. CallInv(s)
  BY <1>1 DEF CallInv, CodeOfCall, UserOfCall, SocialOfCall, Unknown
<1> QED
  BY <1>1, <1>2 DEF s

LEMMA CallInserts ==
    ASSUME NEW r, CallInv(r), NEW s,
           IsCall(s), s.n = r.n, s.subject = r.subject, s.at \in {"commit", "phone", "free", "socials"},
           \A v \in s.newUser : \/ s.newUser = r.newUser
                                \/ /\ s.newUser = {v} /\ v.id = r.n
                                   /\ \A u \in users : u.phone = v.phone /\ u.phone # NoPhone =>
                                          SignUps!Together(u.id, r.n),
           \A b \in s.newSocial : \/ s.newSocial = r.newSocial
                                  \/ s.newSocial = {b} /\ b.by = r.n /\ b.sid = r.subject /\ Unknown(r)
    PROVE  CallInv(s)
<1>1. CodeOfCall(s)
  BY DEF CallInv, CodeOfCall
<1>2. UserOfCall(s)
  BY DEF CallInv, UserOfCall
<1>3. SocialOfCall(s)
  BY DEF CallInv, SocialOfCall, Unknown
<1> QED
  BY <1>1, <1>2, <1>3 DEF CallInv

\* The actions of the phone login.
LEMMA SignCode ==
    ASSUME SignInv, NEW r \in calls, SignUps!CheckCode(r)
    PROVE  SignInv'
<1>1. CallInv(r) /\ r.at = "code"
  BY DEF SignInv, SignUps!CheckCode
<1>2. CASE code[r.subject[1]] # r.subject[2]
  BY <1>2, SignFails DEF SignUps!CheckCode, SignUps!database
<1>3. CASE code[r.subject[1]] = r.subject[2]
  <2> DEFINE s == [r EXCEPT !.at = "spend"]
  <2>1. /\ IsCall(s) /\ s.n = r.n /\ s.at = "spend" /\ s.newUser = r.newUser /\ s.newSocial = r.newSocial
        /\ s.subject = r.subject
    BY <1>1 DEF CallInv, IsCall
  <2>2. SignUps!Become(r, s) /\ UNCHANGED <<code, users, socials, sent, uses, begun, together>>
    BY <1>3 DEF SignUps!CheckCode, SignUps!Goto, SignUps!database
  <2> HIDE DEF s
  <2>3. CodeOfCall(s)
    BY <1>1, <1>3, <2>1 DEF SignInv, CodesInv, CallInv, CodeOfCall
  <2>4. CallInv(s)
    BY <1>1, <2>1, <2>3 DEF CallInv, UserOfCall, SocialOfCall, Unknown
  <2> QED
    BY <2>1, <2>2, <2>4, SignBecomes
<1> QED
  BY <1>2, <1>3

LEMMA SignPhone ==
    ASSUME SignInv, NEW r \in calls, SignUps!FindPhone(r)
    PROVE  SignInv'
<1>1. CallInv(r) /\ r.at = "phone"
  BY DEF SignInv, SignUps!FindPhone
<1>2. CASE \E u \in users : u.phone = r.subject[1]
  <2> DEFINE s == [r EXCEPT !.at = "commit"]
  <2>1. CallInv(s) /\ s.n = r.n
    BY <1>1, CallGoes
  <2>2. SignUps!Become(r, s) /\ UNCHANGED <<code, users, socials, sent, uses, begun, together>>
    BY <1>2 DEF SignUps!FindPhone, SignUps!Goto, SignUps!database
  <2> HIDE DEF s
  <2> QED
    BY <2>1, <2>2, SignBecomes
<1>3. CASE ~\E u \in users : u.phone = r.subject[1]
  <2> DEFINE U == {[id |-> r.n, phone |-> r.subject[1], mail |-> NoMail]}
             s == [r EXCEPT !.at = "commit", !.newUser = U]
  <2>1. SignUps!Become(r, s) /\ UNCHANGED <<code, users, socials, sent, uses, begun, together>>
    BY <1>3 DEF SignUps!FindPhone, SignUps!database
  <2>2. \A v \in U : U = {v} /\ v.id = r.n /\ v.phone = r.subject[1]
    OBVIOUS
  <2> HIDE DEF U
  <2>3. /\ IsCall(s) /\ s.n = r.n /\ s.subject = r.subject /\ s.at = "commit"
        /\ s.newUser = U /\ s.newSocial = r.newSocial
    BY <1>1 DEF CallInv, IsCall
  <2> HIDE DEF s
  <2>4. CallInv(s)
    BY <1>1, <1>3, <2>2, <2>3, CallInserts
  <2> QED
    BY <2>1, <2>3, <2>4, SignBecomes
<1> QED
  BY <1>2, <1>3

\* The actions of the login with a social account, of binding and unbinding.
LEMMA SignSid ==
    ASSUME SignInv, NEW r \in calls, SignUps!FindSid(r)
    PROVE  SignInv'
<1>1. CallInv(r) /\ r.at = "sid"
  BY DEF SignInv, SignUps!FindSid
<1>2. UNCHANGED <<code, users, socials, sent, uses, begun, together>>
  BY DEF SignUps!FindSid, SignUps!database
<1>3. CASE SignUps!Fail(r)
  BY <1>2, <1>3, SignFails
<1>4. CASE SignUps!Goto(r, "commit")
  <2> DEFINE s == [r EXCEPT !.at = "commit"]
  <2>1. CallInv(s) /\ s.n = r.n
    BY <1>1, CallGoes
  <2>2. SignUps!Become(r, s)
    BY <1>4 DEF SignUps!Goto
  <2> HIDE DEF s
  <2> QED
    BY <1>2, <2>1, <2>2, SignBecomes
<1>5. CASE SignUps!Goto(r, "mail") /\ \A b \in socials : b.sid # r.subject
  <2> DEFINE s == [r EXCEPT !.at = "mail"]
  <2>1. /\ IsCall(s) /\ s.n = r.n /\ s.at = "mail" /\ s.newUser = r.newUser /\ s.newSocial = r.newSocial
        /\ s.subject = r.subject
    BY <1>1 DEF CallInv, IsCall
  <2>2. SignUps!Become(r, s)
    BY <1>5 DEF SignUps!Goto
  <2> HIDE DEF s
  <2>3. CallInv(s)
    BY <1>1, <1>5, <2>1 DEF CallInv, CodeOfCall, UserOfCall, SocialOfCall, Unknown
  <2> QED
    BY <1>2, <2>1, <2>2, <2>3, SignBecomes
<1> QED
  BY <1>3, <1>4, <1>5 DEF SignUps!FindSid

\* A request that binds its account, which it knows to be free, and may
\* insert a user that has no phone number.
LEMMA SignBinds ==
    ASSUME SignInv, NEW r \in calls, NEW s, NEW user, SignUps!Become(r, s), Unknown(r),
           IsCall(s), s.n = r.n, s.subject = r.subject, s.at = "commit",
           s.newSocial = SignUps!Bound(r, user),
           s.newUser = r.newUser
              \/ \E m : s.newUser = {[id |-> r.n, phone |-> NoPhone, mail |-> m]},
           UNCHANGED <<code, users, socials, sent, uses, begun, together>>
    PROVE  SignInv'
<1>1. CallInv(r)
  BY DEF SignInv
<1>2. \A b \in s.newSocial : s.newSocial = {b} /\ b.by = r.n /\ b.sid = r.subject
  BY DEF SignUps!Bound
<1>3. \A v \in s.newUser : s.newUser = r.newUser \/ (s.newUser = {v} /\ v.id = r.n /\ v.phone = NoPhone)
  <2>1. CASE \E m : s.newUser = {[id |-> r.n, phone |-> NoPhone, mail |-> m]}
    <3>1. PICK m : s.newUser = {[id |-> r.n, phone |-> NoPhone, mail |-> m]}
      BY <2>1
    <3> QED
      BY <3>1
  <2> QED
    BY <2>1
<1>4. CallInv(s)
  BY <1>1, <1>2, <1>3, CallInserts
<1> QED
  BY <1>4, SignBecomes

LEMMA SignMail ==
    ASSUME SignInv, NEW r \in calls, SignUps!FindMail(r)
    PROVE  SignInv'
<1>1. CallInv(r) /\ r.at = "mail" /\ Unknown(r)
  BY DEF SignInv, SignUps!FindMail, CallInv, SocialOfCall
<1>2. UNCHANGED <<code, users, socials, sent, uses, begun, together>>
  BY DEF SignUps!FindMail, SignUps!database
<1>3. CASE \E u \in users : SignUps!Become(r, [r EXCEPT !.at = "commit", !.newSocial = SignUps!Bound(r, u.id)])
  <2>1. PICK u \in users : SignUps!Become(r, [r EXCEPT !.at = "commit", !.newSocial = SignUps!Bound(r, u.id)])
    BY <1>3
  <2> DEFINE B == SignUps!Bound(r, u.id)
             s == [r EXCEPT !.at = "commit", !.newSocial = B]
  <2> HIDE DEF B
  <2>2. /\ IsCall(s) /\ s.n = r.n /\ s.subject = r.subject /\ s.at = "commit"
        /\ s.newUser = r.newUser /\ s.newSocial = B
    BY <1>1 DEF CallInv, IsCall
  <2>3. SignUps!Become(r, s)
    BY <2>1 DEF B
  <2> HIDE DEF s
  <2>4. s.newSocial = SignUps!Bound(r, u.id)
    BY <2>2 DEF B
  <2> QED
    BY <1>1, <1>2, <2>2, <2>3, <2>4, SignBinds
<1>4. CASE SignUps!Goto(r, "insert")
  <2> DEFINE s == [r EXCEPT !.at = "insert"]
  <2>1. /\ IsCall(s) /\ s.n = r.n /\ s.at = "insert" /\ s.newUser = r.newUser /\ s.newSocial = r.newSocial
        /\ s.subject = r.subject
    BY <1>1 DEF CallInv, IsCall
  <2>2. SignUps!Become(r, s)
    BY <1>4 DEF SignUps!Goto
  <2> HIDE DEF s
  <2>3. CallInv(s)
    BY <1>1, <2>1 DEF CallInv, CodeOfCall, UserOfCall, SocialOfCall, Unknown
  <2> QED
    BY <1>2, <2>1, <2>2, <2>3, SignBecomes
<1> QED
  BY <1>3, <1>4 DEF SignUps!FindMail

LEMMA SignInsert ==
    ASSUME SignInv, NEW r \in calls, SignUps!InsertUser(r)
    PROVE  SignInv'
<1>1. CallInv(r) /\ r.at = "insert" /\ Unknown(r)
  BY DEF SignInv, SignUps!InsertUser, CallInv, SocialOfCall
<1>2. UNCHANGED <<code, users, socials, sent, uses, begun, together>>
  BY DEF SignUps!InsertUser, SignUps!database
<1>3. CASE SignUps!Fail(r)
  BY <1>2, <1>3, SignFails
<1>4. CASE ~SignUps!Fail(r)
  <2> DEFINE B == SignUps!Bound(r, r.n)
             U == {[id |-> r.n, phone |-> NoPhone, mail |-> MailOf[r.subject]]}
             s == [r EXCEPT !.at = "commit", !.newSocial = B, !.newUser = U]
  <2>1. SignUps!Become(r, s)
    BY <1>4 DEF SignUps!InsertUser
  <2> HIDE DEF B, U
  <2>2. /\ IsCall(s) /\ s.n = r.n /\ s.subject = r.subject /\ s.at = "commit"
        /\ s.newUser = U /\ s.newSocial = B
    BY <1>1 DEF CallInv, IsCall
  <2> HIDE DEF s
  <2>3. s.newSocial = SignUps!Bound(r, r.n)
    BY <2>2 DEF B
  <2>4. \E m : s.newUser = {[id |-> r.n, phone |-> NoPhone, mail |-> m]}
    BY <2>2 DEF U
  <2> QED
    BY <1>1, <1>2, <2>1, <2>2, <2>3, <2>4, SignBinds
<1> QED
  BY <1>3, <1>4

LEMMA SignBinding ==
    ASSUME SignInv, NEW r \in calls, SignUps!CheckBinding(r)
    PROVE  SignInv'
<1>1. CallInv(r)
  BY DEF SignInv
<1>2. UNCHANGED <<code, users, socials, sent, uses, begun, together>>
  BY DEF SignUps!CheckBinding, SignUps!database
<1>3. CASE SignUps!Fail(r)
  BY <1>2, <1>3, SignFails
<1>4. CASE SignUps!Goto(r, "free")
  <2> DEFINE s == [r EXCEPT !.at = "free"]
  <2>1. CallInv(s) /\ s.n = r.n
    BY <1>1, CallGoes
  <2>2. SignUps!Become(r, s)
    BY <1>4 DEF SignUps!Goto
  <2> HIDE DEF s
  <2> QED
    BY <1>2, <2>1, <2>2, SignBecomes
<1>5. CASE /\ ~\E b \in socials : b.sid = r.subject
           /\ SignUps!Become(r, [r EXCEPT !.at = "commit", !.newSocial = SignUps!Bound(r, r.user)])
  <2> DEFINE B == SignUps!Bound(r, r.user)
             s == [r EXCEPT !.at = "commit", !.newSocial = B]
  <2>1. SignUps!Become(r, s) /\ Unknown(r)
    BY <1>5 DEF Unknown
  <2> HIDE DEF B
  <2>2. /\ IsCall(s) /\ s.n = r.n /\ s.subject = r.subject /\ s.at = "commit"
        /\ s.newUser = r.newUser /\ s.newSocial = B
    BY <1>1 DEF CallInv, IsCall
  <2> HIDE DEF s
  <2>3. s.newSocial = SignUps!Bound(r, r.user)
    BY <2>2 DEF B
  <2> QED
    BY <1>2, <2>1, <2>2, <2>3, SignBinds
<1> QED
  BY <1>3, <1>4, <1>5 DEF SignUps!CheckBinding

LEMMA SignUnbinding ==
    ASSUME SignInv, NEW r \in calls, SignUps!Unbind(r)
    PROVE  SignInv'
<1>1. CallInv(r)
  BY DEF SignInv
<1>2. UNCHANGED <<code, users, socials, sent, uses, begun, together>>
  BY DEF SignUps!Unbind, SignUps!database
<1>3. CASE SignUps!Fail(r)
  BY <1>2, <1>3, SignFails
<1>4. CASE SignUps!Goto(r, "socials")
  <2> DEFINE s == [r EXCEPT !.at = "socials"]
  <2>1. CallInv(s) /\ s.n = r.n
    BY <1>1, CallGoes
  <2>2. SignUps!Become(r, s)
    BY <1>4 DEF SignUps!Goto
  <2> HIDE DEF s
  <2> QED
    BY <1>2, <2>1, <2>2, SignBecomes
<1>5. CASE SignUps!Become(r, [r EXCEPT !.at = "commit", !.gone = {b \in socials : b.user = r.user}])
  <2> DEFINE G == {b \in socials : b.user = r.user}
             s == [r EXCEPT !.at = "commit", !.gone = G]
  <2>1. SignUps!Become(r, s)
    BY <1>5
  <2> HIDE DEF G
  <2>2. /\ IsCall(s) /\ s.n = r.n /\ s.subject = r.subject /\ s.at = "commit"
        /\ s.newUser = r.newUser /\ s.newSocial = r.newSocial
    BY <1>1 DEF CallInv, IsCall
  <2> HIDE DEF s
  <2>3. CallInv(s)
    BY <1>1, <2>2, CallInserts
  <2> QED
    BY <1>2, <2>1, <2>2, <2>3, SignBecomes
<1> QED
  BY <1>3, <1>4, <1>5 DEF SignUps!Unbind

\* A code is sent or expires.
LEMMA SignSend ==
    ASSUME SignInv, NEW p \in Phones, SignUps!SendCode(p) \/ SignUps!ExpireCode(p)
    PROVE  SignInv'
<1>1. UNCHANGED <<users, socials, calls, uses, begun, together>>
  BY DEF SignUps!SendCode, SignUps!ExpireCode
<1>2. CodesInv' /\ \A q \in Phones : sent[q] <= sent'[q] /\ sent[q] \in Nat /\ sent'[q] \in Nat
  <2>1. CASE SignUps!SendCode(p)
    <3>1. /\ code' \in [Phones -> Nat] /\ sent' \in [Phones -> Nat]
          /\ sent'[p] = sent[p] + 1 /\ code'[p] = sent[p] + 1
          /\ \A q \in Phones \ {p} : sent'[q] = sent[q] /\ code'[q] = code[q]
      BY <2>1 DEF SignInv, CodesInv, SignUps!SendCode
    <3> QED
      BY <1>1, <3>1 DEF SignInv, CodesInv
  <2>2. CASE SignUps!ExpireCode(p)
    <3>1. /\ code' \in [Phones -> Nat] /\ sent' = sent /\ code'[p] = 0
          /\ \A q \in Phones \ {p} : code'[q] = code[q]
      BY <2>2 DEF SignInv, CodesInv, SignUps!ExpireCode
    <3> QED
      BY <1>1, <3>1 DEF SignInv, CodesInv
  <2> QED
    BY <2>1, <2>2
<1>3. ASSUME NEW r \in calls PROVE CallInv(r)'
  <2>1. CallInv(r)
    BY DEF SignInv
  <2>2. CodeOfCall(r)'
    BY <1>1, <1>2, <2>1 DEF CallInv, CodeOfCall, SignUps!Together
  <2> QED
    BY <1>1, <2>1, <2>2 DEF CallInv, IsCall, UserOfCall, SocialOfCall, Unknown, SignUps!Together
<1>4. OwnersAreUsers'
  BY <1>1 DEF SignInv, OwnersAreUsers, SignUps!OwnersAreUsers, SignUps!CodeUsedOnce,
         SignUps!OneUserPerPhone, SignUps!OneUserPerAccount, SignUps!Together
<1> QED
  BY <1>1, <1>2, <1>3, <1>4 DEF SignInv, SignUps!Together

\* The code is deleted when it is accepted: whoever else holds it by then has
\* compared it before.
LEMMA SignSpend ==
    ASSUME SignInv, NEW r \in calls, SignUps!SpendCode(r)
    PROVE  SignInv'
<1> DEFINE p == r.subject[1]
           c == r.subject[2]
           x0 == <<p, c, r.n>>
           s == [r EXCEPT !.at = "phone"]
<1>1. CallInv(r) /\ r.at = "spend" /\ begun \in Nat
  BY DEF SignInv, SignUps!SpendCode
<1>2. p \in Phones /\ c \in Nat \ {0} /\ c <= sent[p]
  BY <1>1 DEF CallInv, CodeOfCall
<1>3. UNCHANGED <<users, socials, sent, begun, together>> /\ uses' = uses \union {x0}
  BY DEF SignUps!SpendCode, SignUps!database
<1>4. code' = [code EXCEPT ![p] = 0]
  BY DEF SignUps!SpendCode
<1>5. calls' = (calls \ {r}) \union {s}
  BY DEF SignUps!SpendCode, SignUps!Goto, SignUps!Become
<1>6. x0[1] = p /\ x0[2] = c /\ x0[3] = r.n
  OBVIOUS
<1>7. CallInv(s) /\ s.n = r.n /\ s.at = "phone"
  <2>1. CallInv(s) /\ s.n = r.n
    BY <1>1, CallGoes
  <2>2. s.at = "phone"
    BY <1>1 DEF CallInv, IsCall
  <2> QED
    BY <2>1, <2>2
<1> HIDE DEF x0, s
<1>8. CodesInv'
  <2>1. code' \in [Phones -> Nat] /\ code'[p] = 0 /\ \A q \in Phones \ {p} : code'[q] = code[q]
    BY <1>2, <1>4 DEF SignInv, CodesInv
  <2> HIDE DEF p, c
  <2>2. \A q \in Phones : code'[q] = code[q] \/ code'[q] = 0
    BY <1>2, <2>1
  <2>3. \A x \in uses' : x[1] \in Phones /\ x[2] \in Nat \ {0} /\ x[2] <= sent[x[1]] /\ x[2] # code'[x[1]]
    BY <1>2, <1>3, <1>6, <2>1, <2>2 DEF SignInv, CodesInv
  <2> QED
    BY <1>3, <2>1, <2>2, <2>3 DEF SignInv, CodesInv
<1>9. ASSUME NEW q \in calls' PROVE CallInv(q)'
  <2>1. CASE q = s
    BY <1>3, <1>7, <2>1 DEF CallInv, IsCall, CodeOfCall, UserOfCall, SocialOfCall, Unknown, SignUps!Together
  <2>2. CASE q \in calls \ {r}
    <3>1. CallInv(q) /\ SignUps!Together(r.n, q.n)
      BY <2>2 DEF SignInv
    <3>2. CodeOfCall(q)'
      BY <1>3, <1>6, <3>1 DEF CallInv, CodeOfCall, SignUps!Together
    <3> QED
      BY <1>3, <3>1, <3>2 DEF CallInv, IsCall, UserOfCall, SocialOfCall, Unknown, SignUps!Together
  <2> QED
    BY <1>5, <2>1, <2>2
<1>10. ASSUME NEW q \in calls', NEW t \in calls', q # t PROVE q.n # t.n /\ SignUps!Together(q.n, t.n)
  <2>1. CASE q \in calls \ {r} /\ t \in calls \ {r}
    BY <1>10, <2>1 DEF SignInv
  <2>2. CASE q = s /\ t \in calls \ {r}
    BY <1>7, <2>2 DEF SignInv
  <2>3. CASE t = s /\ q \in calls \ {r}
    BY <1>7, <2>3 DEF SignInv
  <2> QED
    BY <1>5, <1>10, <2>1, <2>2, <2>3
<1>11. SignUps!CodeUsedOnce'
  <2>1. ASSUME NEW x \in uses', NEW y \in uses', x[1] = y[1], x[2] = y[2], x[3] # y[3]
        PROVE  SignUps!Together(x[3], y[3])
    <3>1. \A z \in uses : z[1] = p /\ z[2] = c /\ z[3] # r.n => SignUps!Together(z[3], r.n)
      BY <1>1 DEF CallInv, CodeOfCall
    <3>2. CASE x \in uses /\ y \in uses
      BY <2>1, <3>2 DEF SignInv, OwnersAreUsers, SignUps!OwnersAreUsers, SignUps!CodeUsedOnce
    <3>3. CASE x \in uses /\ y = x0
      BY <1>6, <2>1, <3>1, <3>3
    <3>4. CASE y \in uses /\ x = x0
      BY <1>6, <2>1, <3>1, <3>4, PairsAreSets
    <3> QED
      BY <1>3, <2>1, <3>2, <3>3, <3>4
  <2> QED
    BY <1>3, <2>1 DEF SignUps!CodeUsedOnce, SignUps!Together
<1>12. OwnersAreUsers'
  BY <1>3, <1>11 DEF SignInv, OwnersAreUsers, SignUps!OwnersAreUsers,
         SignUps!OneUserPerPhone, SignUps!OneUserPerAccount, SignUps!Together
<1> QED
  BY <1>1, <1>3, <1>8, <1>9, <1>10, <1>12 DEF SignInv, SignUps!Together

\* A request that begins runs beside those in progress.
LEMMA SignBegins ==
    ASSUME SignInv, NEW op, NEW subject, NEW user, NEW first, SignUps!Begin(op, subject, user, first),
           first \in {"code", "sid", "source", "bound", "socials"},
           first = "code" => subject[1] \in Phones /\ subject[2] \in 1 .. sent[subject[1]]
    PROVE  SignInv'
<1> DEFINE new == [n |-> begun + 1, op |-> op, subject |-> subject, user |-> user,
                   at |-> first, newUser |-> {}, newSocial |-> {}, gone |-> {}]
           pairs == {{begun + 1, r.n} : r \in calls}
<1>1. /\ UNCHANGED <<code, users, socials, sent, uses>> /\ begun' = begun + 1
      /\ together' = together \union pairs /\ calls' = calls \union {new}
  BY DEF SignUps!Begin
<1>2. begun \in Nat /\ CodesInv
  BY DEF SignInv
<1>0. PICK s : s = new
  OBVIOUS
<1>3. /\ calls' = calls \union {s}
      /\ IsCall(s) /\ s.n = begun + 1 /\ s.at = first /\ s.subject = subject
      /\ s.newUser = {} /\ s.newSocial = {}
  BY <1>0, <1>1 DEF IsCall
<1>4. \A r \in calls : {begun + 1, r.n} \in together'
  BY <1>1
<1> HIDE DEF new, pairs
<1>5. \A m, n : SignUps!Together(m, n) => SignUps!Together(m, n)'
  BY <1>1 DEF SignUps!Together
<1>6. ASSUME NEW q \in calls' PROVE CallInv(q)'
  <2>1. CASE q = s
    <3>1. CodeOfCall(s)'
      BY <1>1, <1>2, <1>3 DEF CodeOfCall, CodesInv
    <3>2. UserOfCall(s)' /\ SocialOfCall(s)'
      BY <1>3 DEF UserOfCall, SocialOfCall
    <3>3. IsCall(s)' /\ s.n \in Nat /\ s.n <= begun'
      BY <1>1, <1>2, <1>3 DEF IsCall
    <3> QED
      BY <2>1, <3>1, <3>2, <3>3 DEF CallInv
  <2>2. CASE q \in calls
    <3>1. CallInv(q)
      BY <2>2 DEF SignInv
    <3>2. CodeOfCall(q)'
      BY <1>1, <1>5, <3>1 DEF CallInv, CodeOfCall
    <3>3. UserOfCall(q)' /\ SocialOfCall(q)'
      BY <1>1, <1>5, <3>1 DEF CallInv, UserOfCall, SocialOfCall, Unknown
    <3>4. IsCall(q)' /\ q.n \in Nat /\ q.n <= begun'
      BY <1>1, <1>2, <3>1 DEF CallInv, IsCall
    <3> QED
      BY <3>2, <3>3, <3>4 DEF CallInv
  <2> QED
    BY <1>3, <2>1, <2>2
<1>7. ASSUME NEW q \in calls', NEW t \in calls', q # t PROVE q.n # t.n /\ SignUps!Together(q.n, t.n)'
  <2>1. CASE q \in calls /\ t \in calls
    BY <1>5, <1>7, <2>1 DEF SignInv
  <2>2. ASSUME NEW r \in calls PROVE r.n # s.n /\ {s.n, r.n} \in together' /\ {r.n, s.n} \in together'
    <3>1. r.n \in Nat /\ r.n <= begun
      BY DEF SignInv, CallInv
    <3>2. {s.n, r.n} = {r.n, s.n}
      OBVIOUS
    <3> QED
      BY <1>2, <1>3, <1>4, <3>1, <3>2
  <2> QED
    BY <1>3, <1>7, <2>1, <2>2 DEF SignUps!Together
<1>8. OwnersAreUsers'
  <2>1. SignUps!CodeUsedOnce'
    BY <1>1, <1>5 DEF SignInv, OwnersAreUsers, SignUps!OwnersAreUsers, SignUps!CodeUsedOnce
  <2>2. SignUps!OneUserPerPhone'
    BY <1>1, <1>5 DEF SignInv, OwnersAreUsers, SignUps!OwnersAreUsers, SignUps!OneUserPerPhone
  <2>3. SignUps!OneUserPerAccount'
    BY <1>1, <1>5 DEF SignInv, OwnersAreUsers, SignUps!OwnersAreUsers, SignUps!OneUserPerAccount
  <2> QED
    BY <2>1, <2>2, <2>3 DEF OwnersAreUsers, SignUps!OwnersAreUsers
<1>9. CodesInv' /\ begun' \in Nat
  BY <1>1, <1>2 DEF CodesInv
<1> QED
  BY <1>6, <1>7, <1>8, <1>9 DEF SignInv

\* A request commits what it has found to be new: whoever committed the same
\* since ran beside it.
LEMMA SignCommit ==
    ASSUME SignInv, NEW r \in calls, SignUps!Commit(r)
    PROVE  SignInv'
<1>1. /\ UNCHANGED <<code, sent, uses, begun, together>> /\ calls' = calls \ {r}
      /\ \A u \in users' : u \in users \/ u \in r.newUser
      /\ \A b \in socials' : b \in socials \/ b \in r.newSocial
  BY DEF SignUps!Commit, SignUps!Fail
<1>2. CallInv(r) /\ begun \in Nat /\ CodesInv
  BY DEF SignInv
<1>3. ASSUME NEW q \in calls' PROVE CallInv(q)'
  <2>1. CallInv(q) /\ SignUps!Together(r.n, q.n)
    BY <1>1 DEF SignInv
  <2>2. ASSUME Unknown(q) PROVE Unknown(q)'
    <3>1. \A b \in r.newSocial : b.by = r.n
      BY <1>2 DEF CallInv, SocialOfCall
    <3> QED
      BY <1>1, <2>1, <2>2, <3>1 DEF Unknown, SignUps!Together
  <2>3. UserOfCall(q)'
    <3>1. \A v \in r.newUser : v.id = r.n
      BY <1>2 DEF CallInv, UserOfCall
    <3> QED
      BY <1>1, <2>1, <3>1 DEF CallInv, UserOfCall, SignUps!Together
  <2>4. SocialOfCall(q)'
    BY <2>1, <2>2 DEF CallInv, SocialOfCall
  <2>5. CodeOfCall(q)'
    BY <1>1, <2>1 DEF CallInv, CodeOfCall, SignUps!Together
  <2> QED
    BY <1>1, <2>1, <2>3, <2>4, <2>5 DEF CallInv, IsCall
<1>4. SignUps!OneUserPerPhone'
  <2>1. ASSUME NEW u \in users', NEW v \in users', u # v, u.phone = v.phone, u.phone # NoPhone
        PROVE  SignUps!Together(u.id, v.id)
    <3>1. \A w \in r.newUser : /\ r.newUser = {w} /\ w.id = r.n
                               /\ \A z \in users : z.phone = w.phone /\ z.phone # NoPhone => SignUps!Together(z.id, r.n)
      BY <1>2 DEF CallInv, UserOfCall
    <3>2. CASE u \in users /\ v \in users
      BY <2>1, <3>2 DEF SignInv, OwnersAreUsers, SignUps!OwnersAreUsers, SignUps!OneUserPerPhone
    <3>3. CASE u \in users /\ v \in r.newUser
      BY <2>1, <3>1, <3>3
    <3>4. CASE v \in users /\ u \in r.newUser
      BY <2>1, <3>1, <3>4, PairsAreSets
    <3>5. CASE v \in r.newUser /\ u \in r.newUser
      BY <2>1, <3>1, <3>5
    <3> QED
      BY <1>1, <3>2, <3>3, <3>4, <3>5
  <2> QED
    BY <1>1, <2>1 DEF SignUps!OneUserPerPhone, SignUps!Together
<1>5. SignUps!OneUserPerAccount'
  <2>1. ASSUME NEW b \in socials', NEW d \in socials', b # d, b.sid = d.sid
        PROVE  SignUps!Together(b.by, d.by)
    <3>1. \A w \in r.newSocial : /\ r.newSocial = {w} /\ w.by = r.n
                                 /\ \A z \in socials : z.sid = w.sid => SignUps!Together(z.by, r.n)
      BY <1>2 DEF CallInv, SocialOfCall, Unknown
    <3>2. CASE b \in socials /\ d \in socials
      BY <2>1, <3>2 DEF SignInv, OwnersAreUsers, SignUps!OwnersAreUsers, SignUps!OneUserPerAccount
    <3>3. CASE b \in socials /\ d \in r.newSocial
      BY <2>1, <3>1, <3>3
    <3>4. CASE d \in socials /\ b \in r.newSocial
      BY <2>1, <3>1, <3>4, PairsAreSets
    <3>5. CASE d \in r.newSocial /\ b \in r.newSocial
      BY <2>1, <3>1, <3>5
    <3> QED
      BY <1>1, <3>2, <3>3, <3>4, <3>5
  <2> QED
    BY <1>1, <2>1 DEF SignUps!OneUserPerAccount, SignUps!Together
<1>6. SignUps!CodeUsedOnce'
  BY <1>1 DEF SignInv, OwnersAreUsers, SignUps!OwnersAreUsers, SignUps!CodeUsedOnce, SignUps!Together
<1>7. CodesInv' /\ begun' \in Nat
  BY <1>1, <1>2 DEF CodesInv
<1>8. \A q, t \in calls' : q # t => q.n # t.n /\ SignUps!Together(q.n, t.n)'
  BY <1>1 DEF SignInv, SignUps!Together
<1> QED
  BY <1>3, <1>4, <1>5, <1>6, <1>7, <1>8 DEF SignInv, OwnersAreUsers, SignUps!OwnersAreUsers

LEMMA SignNext == SignInv /\ [SignUps!Next]_signUpVars => SignInv'
<1> SUFFICES ASSUME SignInv, [SignUps!Next]_signUpVars PROVE SignInv'
  OBVIOUS
<1>1. ASSUME NEW r \in calls, SignUps!Step(r) PROVE SignInv'
  <2>1. CASE SignUps!Abort(r)
    BY <2>1, SignFails DEF SignUps!Abort, SignUps!database
  <2>2. CASE SignUps!CheckCode(r) \/ SignUps!SpendCode(r) \/ SignUps!FindPhone(r) \/ SignUps!Commit(r)
    BY <2>2, SignCode, SignSpend, SignPhone, SignCommit
  <2>3. CASE \/ SignUps!FindSid(r) \/ SignUps!FindMail(r) \/ SignUps!InsertUser(r)
             \/ SignUps!CheckBinding(r) \/ SignUps!Unbind(r)
    BY <2>3, SignSid, SignMail, SignInsert, SignBinding, SignUnbinding
  <2> QED
    BY <1>1, <2>1, <2>2, <2>3 DEF SignUps!Step
<1>2. ASSUME NEW p \in Phones, SignUps!SendCode(p) \/ SignUps!ExpireCode(p) PROVE SignInv'
  BY <1>2, SignSend
<1>3. ASSUME NEW p \in Phones, SignUps!BeginPhone(p) PROVE SignInv'
  <2>1. PICK c \in 1 .. sent[p] : SignUps!Begin("phone", <<p, c>>, 0, "code")
    BY <1>3 DEF SignUps!BeginPhone
  <2> DEFINE x == <<p, c>>
  <2>2. x[1] = p /\ x[2] = c /\ SignUps!Begin("phone", x, 0, "code")
    BY <2>1
  <2> HIDE DEF x
  <2> QED
    BY <2>1, <2>2, SignBegins
<1>4. ASSUME NEW s \in Sids, SignUps!BeginSocial(s) \/ SignUps!BeginBinding(s) PROVE SignInv'
  BY <1>4, SignBegins DEF SignUps!BeginSocial, SignUps!BeginBinding
<1>5. CASE SignUps!BeginUnbinding \/ SignUps!BeginDeletion
  BY <1>5, SignBegins DEF SignUps!BeginUnbinding, SignUps!BeginDeletion
<1>6. CASE UNCHANGED signUpVars
  BY <1>6 DEF signUpVars, SignInv, CodesInv, CallInv, IsCall, CodeOfCall, UserOfCall, SocialOfCall, Unknown,
         OwnersAreUsers, SignUps!OwnersAreUsers, SignUps!CodeUsedOnce,
         SignUps!OneUserPerPhone, SignUps!OneUserPerAccount, SignUps!Together
<1> QED
  BY <1>1, <1>2, <1>3, <1>4, <1>5, <1>6 DEF SignUps!Next

LEMMA SignInit == SignUps!Init => SignInv
BY DEF SignUps!Init, SignInv, CodesInv, OwnersAreUsers, SignUps!OwnersAreUsers, SignUps!CodeUsedOnce,
       SignUps!OneUserPerPhone, SignUps!OneUserPerAccount

\* A code is accepted once, a phone number names one user and a social account
\* is bound to one, but for requests that ran together, whatever the number of
\* requests, phones and accounts.
THEOREM OwnersAlwaysUsers == AccountsSpec => []OwnersAreUsers
<1>1. AccountsInit => SignInv
  BY SignInit DEF AccountsInit
<1>2. SignInv /\ [AccountsNext]_<<part, guardVars, signUpVars, passwordVars, permitVars>> => SignInv'
  BY SignNext DEF AccountsNext
<1>3. SignInv => OwnersAreUsers
  BY DEF SignInv
<1> QED
  BY <1>1, <1>2, <1>3, PTL DEF AccountsSpec

-----------------------------------------------------------------------------
(* Passwords that do not come back.                                        *)

IsChange(c) == c \in [n : {c.n}, word : {c.word}, at : {c.at}] /\ c.n \in Nat /\ c.n <= asked
Rows == [word : Words, by : Nat]

\* A change that has been validated: who has its password among the recent
\* ones recorded it beside the change.
Validated(c) ==
    c.at \in {"update", "record"} =>
        \A i \in DOMAIN past : i <= CheckCount /\ past[i].word = c.word => {past[i].by, c.n} \in beside

ReuseInv ==
    /\ asked \in Nat /\ past \in Seq(Rows)
    /\ \A c \in changes : IsChange(c) /\ c.word \in Words /\ Validated(c)
    /\ \A c, d \in changes : c # d => c.n # d.n /\ {c.n, d.n} \in beside
    /\ NoRecentReuse

\* What Recent compares with.
LEMMA RecentHasNewest ==
    ASSUME CheckCount \in Nat, NEW s \in Seq(Rows), NEW i \in DOMAIN s, i <= CheckCount
    PROVE  s[i].word \in Passwords!Recent(s)
<1> DEFINE m == IF Len(s) < CheckCount THEN Len(s) ELSE CheckCount
           t == SubSeq(s, 1, m)
<1>1. m \in 0 .. Len(s) /\ i \in 1 .. m
  OBVIOUS
<1> HIDE DEF m
<1>2. DOMAIN t = 1 .. m
  BY <1>1
<1> HIDE DEF t
<1>3. i \in DOMAIN t
  BY <1>1, <1>2
<1> QED
  BY <1>3 DEF Passwords!Recent, t, m

\* A step of one change that records nothing.
LEMMA ReuseKeeps ==
    ASSUME ReuseInv, NEW c \in changes, NEW S, changes' = (changes \ {c}) \union S,
           \A d \in S : S = {d} /\ d.n = c.n /\ IsChange(d) /\ d.word \in Words /\ Validated(d),
           UNCHANGED <<password, past, asked, beside>>
    PROVE  ReuseInv'
<1>1. \A d \in changes' : IsChange(d) /\ d.word \in Words /\ Validated(d)
  BY DEF ReuseInv
<1>2. \A d \in changes' : IsChange(d)' /\ d.word \in Words /\ Validated(d)'
  BY <1>1 DEF IsChange, Validated
<1>3. ASSUME NEW d \in changes', NEW e \in changes', d # e PROVE d.n # e.n /\ {d.n, e.n} \in beside
  <2>1. CASE d \in changes \ {c} /\ e \in changes \ {c}
    BY <1>3, <2>1 DEF ReuseInv
  <2>2. CASE d \in S /\ e \in changes \ {c}
    BY <2>2 DEF ReuseInv
  <2>3. CASE e \in S /\ d \in changes \ {c}
    BY <2>3 DEF ReuseInv
  <2>4. CASE e \in S /\ d \in S
    BY <1>3, <2>4
  <2> QED
    BY <2>1, <2>2, <2>3, <2>4
<1> QED
  BY <1>2, <1>3 DEF ReuseInv, NoRecentReuse, Passwords!NoRecentReuse

LEMMA ReuseDrops ==
    ASSUME ReuseInv, NEW c \in changes, Passwords!Drop(c), UNCHANGED <<password, past, asked, beside>>
    PROVE  ReuseInv'
<1> DEFINE S == {}
<1>1. changes' = (changes \ {c}) \union S
  BY DEF Passwords!Drop
<1>2. \A d \in S : S = {d} /\ d.n = c.n /\ IsChange(d) /\ d.word \in Words /\ Validated(d)
  OBVIOUS
<1> HIDE DEF S
<1> QED
  BY <1>1, <1>2, ReuseKeeps

LEMMA ReuseBecomes ==
    ASSUME ReuseInv, NEW c \in changes, NEW l, Passwords!Become(c, [c EXCEPT !.at = l]),
           \A i \in DOMAIN past : i <= CheckCount /\ past[i].word = c.word => {past[i].by, c.n} \in beside,
           UNCHANGED <<password, past, asked, beside>>
    PROVE  ReuseInv'
<1> DEFINE d == [c EXCEPT !.at = l]
           S == {d}
<1>1. d.n = c.n /\ d.word = c.word /\ IsChange(d) /\ d.word \in Words
  BY DEF ReuseInv, IsChange
<1>2. changes' = (changes \ {c}) \union S
  BY DEF Passwords!Become
<1> HIDE DEF d
<1>3. \A e \in S : S = {e} /\ e.n = c.n /\ IsChange(e) /\ e.word \in Words /\ Validated(e)
  BY <1>1 DEF Validated
<1> HIDE DEF S
<1> QED
  BY <1>2, <1>3, ReuseKeeps

LEMMA ReuseValidates ==
    ASSUME CheckCount \in Nat, ReuseInv, NEW c \in changes, Passwords!Validate(c)
    PROVE  ReuseInv'
<1>1. UNCHANGED <<password, past, asked, beside>>
  BY DEF Passwords!Validate
<1>2. CASE c.word \in Passwords!Recent(past)
  BY <1>1, <1>2, ReuseDrops DEF Passwords!Validate
<1>3. CASE c.word \notin Passwords!Recent(past)
  <2>1. Passwords!Become(c, [c EXCEPT !.at = "update"])
    BY <1>3 DEF Passwords!Validate
  <2>2. \A i \in DOMAIN past : i <= CheckCount => past[i].word # c.word
    BY <1>3, RecentHasNewest DEF ReuseInv
  <2> QED
    BY <1>1, <2>1, <2>2, ReuseBecomes
<1> QED
  BY <1>2, <1>3

LEMMA ReuseUpdates ==
    ASSUME ReuseInv, NEW c \in changes, Passwords!Update(c)
    PROVE  ReuseInv'
<1>1. UNCHANGED <<password, past, asked, beside>> /\ Passwords!Become(c, [c EXCEPT !.at = "record"])
  BY DEF Passwords!Update
<1>2. \A i \in DOMAIN past : i <= CheckCount /\ past[i].word = c.word => {past[i].by, c.n} \in beside
  BY DEF ReuseInv, Validated, Passwords!Update
<1> QED
  BY <1>1, <1>2, ReuseBecomes

\* The newest password joins those it was compared with.
LEMMA ReuseRecords ==
    ASSUME CheckCount \in Nat, ReuseInv, NEW c \in changes, Passwords!Record(c)
    PROVE  ReuseInv'
<1> DEFINE row == [word |-> c.word, by |-> c.n]
<1>1. /\ changes' = changes \ {c} /\ past' = <<row>> \o past /\ asked' = asked /\ beside' = beside
      /\ c.at = "record"
  BY DEF Passwords!Record, Passwords!Drop
<1>2. row \in Rows /\ row.word = c.word /\ row.by = c.n /\ past \in Seq(Rows)
  BY DEF Rows, ReuseInv, IsChange
<1> HIDE DEF row
<1>3. /\ past' \in Seq(Rows) /\ past'[1] = row /\ Len(past') = Len(past) + 1 /\ Len(past) \in Nat
      /\ DOMAIN past' = 1 .. Len(past') /\ DOMAIN past = 1 .. Len(past)
      /\ \A i \in 2 .. Len(past') : past'[i] = past[i - 1]
  BY <1>1, <1>2
<1>4. \A i \in DOMAIN past' : i = 1 \/ (i - 1 \in DOMAIN past /\ past'[i] = past[i - 1] /\ i \in Int)
  BY <1>3
<1>5. ASSUME NEW d \in changes' PROVE Validated(d)'
  <2>1. Validated(d) /\ {c.n, d.n} \in beside
    BY <1>1 DEF ReuseInv
  <2> SUFFICES ASSUME d.at \in {"update", "record"}, NEW i \in DOMAIN past', i <= CheckCount, past'[i].word = d.word
               PROVE  {past'[i].by, d.n} \in beside
    BY <1>1 DEF Validated
  <2>2. CASE i = 1
    BY <1>2, <1>3, <2>1, <2>2
  <2>3. CASE i # 1
    BY <1>4, <2>1, <2>3 DEF Validated
  <2> QED
    BY <2>2, <2>3
<1>6. NoRecentReuse'
  <2>1. ASSUME NEW i \in DOMAIN past', NEW j \in DOMAIN past', i < j, j <= i + CheckCount,
               past'[i].word = past'[j].word
        PROVE  {past'[i].by, past'[j].by} \in beside
    <3>1. j # 1 /\ j - 1 \in DOMAIN past /\ past'[j] = past[j - 1] /\ i \in Int /\ j \in Int
      BY <1>3, <2>1
    <3>2. CASE i = 1
      <4>1. Validated(c)
        BY DEF ReuseInv
      <4>2. {past[j - 1].by, c.n} \in beside
        BY <1>1, <1>2, <1>3, <2>1, <3>1, <3>2, <4>1 DEF Validated
      <4>3. {past[j - 1].by, c.n} = {c.n, past[j - 1].by}
        OBVIOUS
      <4> QED
        BY <1>2, <1>3, <3>1, <3>2, <4>2, <4>3
    <3>3. CASE i # 1
      <4>1. i - 1 \in DOMAIN past /\ past'[i] = past[i - 1] /\ i - 1 < j - 1 /\ j - 1 <= (i - 1) + CheckCount
        BY <1>3, <1>4, <2>1, <3>1, <3>3
      <4> QED
        BY <2>1, <3>1, <4>1 DEF ReuseInv, NoRecentReuse, Passwords!NoRecentReuse
    <3> QED
      BY <3>2, <3>3
  <2> QED
    BY <1>1, <2>1 DEF NoRecentReuse, Passwords!NoRecentReuse
<1> QED
  BY <1>1, <1>3, <1>5, <1>6 DEF ReuseInv, IsChange

LEMMA ReuseAsks ==
    ASSUME ReuseInv, NEW w \in Words, Passwords!Ask(w)
    PROVE  ReuseInv'
<1> DEFINE new == [n |-> asked + 1, word |-> w, at |-> "validate"]
           pairs == {{asked + 1, c.n} : c \in changes}
<1>1. /\ UNCHANGED past /\ asked' = asked + 1 /\ asked \in Nat
      /\ beside' = beside \union pairs /\ changes' = changes \union {new}
  BY DEF Passwords!Ask, ReuseInv
<1>2. PICK c : c = new
  OBVIOUS
<1>3. changes' = changes \union {c} /\ IsChange(c)' /\ c.n = asked + 1 /\ c.word \in Words /\ c.at = "validate"
  BY <1>1, <1>2 DEF IsChange
<1>4. \A d \in changes : {asked + 1, d.n} \in beside'
  BY <1>1
<1> HIDE DEF new, pairs
<1>5. \A d \in changes' : IsChange(d)' /\ d.word \in Words /\ Validated(d)'
  BY <1>1, <1>3 DEF ReuseInv, Validated, IsChange
<1>6. ASSUME NEW d \in changes', NEW e \in changes', d # e PROVE d.n # e.n /\ {d.n, e.n} \in beside'
  <2>1. CASE d \in changes /\ e \in changes
    BY <1>1, <1>6, <2>1 DEF ReuseInv
  <2>2. ASSUME NEW f \in changes PROVE f.n # c.n /\ {c.n, f.n} \in beside' /\ {f.n, c.n} \in beside'
    <3>1. f.n \in Nat /\ f.n <= asked
      BY DEF ReuseInv, IsChange
    <3>2. {c.n, f.n} = {f.n, c.n}
      OBVIOUS
    <3> QED
      BY <1>1, <1>3, <1>4, <3>1, <3>2
  <2> QED
    BY <1>3, <1>6, <2>1, <2>2
<1>7. NoRecentReuse'
  BY <1>1 DEF ReuseInv, NoRecentReuse, Passwords!NoRecentReuse
<1>8. asked' \in Nat /\ past' \in Seq(Rows)
  BY <1>1 DEF ReuseInv
<1> QED
  BY <1>5, <1>6, <1>7, <1>8 DEF ReuseInv

LEMMA ReuseNext ==
    ASSUME CheckCount \in Nat
    PROVE  ReuseInv /\ [Passwords!Next]_passwordVars => ReuseInv'
<1> SUFFICES ASSUME ReuseInv, [Passwords!Next]_passwordVars PROVE ReuseInv'
  OBVIOUS
<1>1. ASSUME NEW c \in changes, Passwords!Validate(c) \/ Passwords!Update(c) \/ Passwords!Record(c) \/ Passwords!Abandon(c)
      PROVE  ReuseInv'
  <2>1. CASE Passwords!Abandon(c)
    BY <2>1, ReuseDrops DEF Passwords!Abandon
  <2> QED
    BY <1>1, <2>1, ReuseValidates, ReuseUpdates, ReuseRecords
<1>2. ASSUME NEW w \in Words, Passwords!Ask(w) PROVE ReuseInv'
  BY <1>2, ReuseAsks
<1>3. CASE UNCHANGED passwordVars
  BY <1>3 DEF passwordVars, ReuseInv, IsChange, Validated, NoRecentReuse, Passwords!NoRecentReuse
<1> QED
  BY <1>1, <1>2, <1>3 DEF Passwords!Next

LEMMA ReuseInit == Passwords!Init => ReuseInv
BY DEF Passwords!Init, ReuseInv, NoRecentReuse, Passwords!NoRecentReuse

\* Of the last CheckCount passwords and the one that follows them no two are
\* the same, unless their changes ran together, however many there are.
THEOREM NoReuseAlways ==
    ASSUME CheckCount \in Nat
    PROVE  AccountsSpec => []NoRecentReuse
<1>1. AccountsInit => ReuseInv
  BY ReuseInit DEF AccountsInit
<1>2. ReuseInv /\ [AccountsNext]_<<part, guardVars, signUpVars, passwordVars, permitVars>> => ReuseInv'
  BY ReuseNext DEF AccountsNext
<1>3. ReuseInv => NoRecentReuse
  BY DEF ReuseInv
<1> QED
  BY <1>1, <1>2, <1>3, PTL DEF AccountsSpec

-----------------------------------------------------------------------------
(* What a copy decides.                                                    *)

\* The rows of the tables, and of the links between them.
RowsOK(rows) ==
    /\ rows \in [super : {rows.super}, staff : {rows.staff}, dept : {rows.dept},
                 roles : {rows.roles}, roleOn : {rows.roleOn}, filters : {rows.filters},
                 menus : {rows.menus}, menuOn : {rows.menuOn}, scopes : {rows.scopes}, scopeOn : {rows.scopeOn},
                 rules : {rows.rules}, version : {rows.version}, userRole : {rows.userRole},
                 roleMenu : {rows.roleMenu}, roleScope : {rows.roleScope}, scopeRule : {rows.scopeRule}]
    /\ rows.super \in [Users -> BOOLEAN] /\ rows.staff \in [Users -> BOOLEAN] /\ rows.dept \in BOOLEAN
    /\ rows.roleOn \in [Roles -> BOOLEAN] /\ rows.filters \in [Roles -> BOOLEAN]
    /\ rows.menuOn \in [Menus -> BOOLEAN] /\ rows.scopeOn \in [Scopes -> BOOLEAN] /\ rows.version \in [Rules -> {0, 1}]
    /\ rows.roles \subseteq Roles /\ rows.menus \subseteq Menus /\ rows.scopes \subseteq Scopes /\ rows.rules \subseteq Rules
    /\ rows.userRole \subseteq Users \X Roles /\ rows.roleMenu \subseteq Roles \X Menus
    /\ rows.roleScope \subseteq Roles \X Scopes /\ rows.scopeRule \subseteq Scopes \X Rules

\* What the rows new and old have in common for the user u: what hangs on u.
SameFor(old, new, u) ==
    /\ new.dept = old.dept /\ new.super[u] = old.super[u] /\ new.staff[u] = old.staff[u]
    /\ \A r \in Roles : <<u, r>> \in new.userRole <=> <<u, r>> \in old.userRole
    /\ \A r \in Roles : <<u, r>> \in old.userRole =>
           /\ r \in new.roles <=> r \in old.roles
           /\ new.roleOn[r] = old.roleOn[r] /\ new.filters[r] = old.filters[r]
           /\ \A m \in Menus : <<r, m>> \in new.roleMenu <=> <<r, m>> \in old.roleMenu
           /\ \A m \in Menus : <<r, m>> \in old.roleMenu =>
                  (m \in new.menus <=> m \in old.menus) /\ new.menuOn[m] = old.menuOn[m]
           /\ \A s \in Scopes : <<r, s>> \in new.roleScope <=> <<r, s>> \in old.roleScope
           /\ \A s \in Scopes : <<r, s>> \in old.roleScope =>
                  /\ (s \in new.scopes <=> s \in old.scopes) /\ new.scopeOn[s] = old.scopeOn[s]
                  /\ \A d \in Rules : <<s, d>> \in new.scopeRule <=> <<s, d>> \in old.scopeRule
                  /\ \A d \in Rules : <<s, d>> \in old.scopeRule =>
                         (d \in new.rules <=> d \in old.rules) /\ new.version[d] = old.version[d]

\* The change c does not concern the user u.
Apart(rows, c, u) == u \in Users /\ u \notin Permits!Holders(rows, c)

LEMMA WriteUser ==
    ASSUME NEW old, RowsOK(old), NEW c \in Permits!Requests, c.what \in {"super", "staff", "roles"},
           NEW u
    PROVE  RowsOK(Permits!Write(old, c)) /\ (Apart(old, c, u) => SameFor(old, Permits!Write(old, c), u))
<1>1. c.of \in Users /\ (Apart(old, c, u) => u \in Users /\ u # c.of)
  BY KindsDiffer DEF Permits!Requests, Permits!Holders, Apart
<1>2. Permits!Write(old, c) = Permits!UserRows(old, c)
  BY <1>1, KindsDiffer DEF Permits!Write
<1>3. CASE c.what = "super"
  <2> DEFINE x == [old.super EXCEPT ![c.of] = ~@]
             new == [old EXCEPT !.super = x]
  <2>1. x \in [Users -> BOOLEAN] /\ \A v \in Users \ {c.of} : x[v] = old.super[v]
    BY <1>1 DEF RowsOK
  <2>2. Permits!UserRows(old, c) = new
    BY <1>3 DEF Permits!UserRows
  <2> HIDE DEF x
  <2>3. RowsOK(new) /\ (Apart(old, c, u) => SameFor(old, new, u))
    BY <1>1, <2>1 DEF RowsOK, SameFor
  <2> QED
    BY <1>2, <2>2, <2>3
<1>4. CASE c.what = "staff"
  <2> DEFINE x == [old.staff EXCEPT ![c.of] = ~@]
             new == [old EXCEPT !.staff = x]
  <2>1. x \in [Users -> BOOLEAN] /\ \A v \in Users \ {c.of} : x[v] = old.staff[v]
    BY <1>1 DEF RowsOK
  <2>2. Permits!UserRows(old, c) = new
    BY <1>4 DEF Permits!UserRows
  <2> HIDE DEF x
  <2>3. RowsOK(new) /\ (Apart(old, c, u) => SameFor(old, new, u))
    BY <1>1, <2>1 DEF RowsOK, SameFor
  <2> QED
    BY <1>2, <2>2, <2>3
<1>5. CASE c.what = "roles"
  <2> DEFINE x == Permits!Replace(old.userRole, c.of, c.to \cap old.roles)
             new == [old EXCEPT !.userRole = x]
  <2>1. x \subseteq Users \X Roles /\ \A v \in Users \ {c.of}, r \in Roles : <<v, r>> \in x <=> <<v, r>> \in old.userRole
    BY <1>1 DEF RowsOK, Permits!Replace
  <2>2. Permits!UserRows(old, c) = new
    BY <1>5 DEF Permits!UserRows
  <2> HIDE DEF x
  <2>3. RowsOK(new) /\ (Apart(old, c, u) => SameFor(old, new, u))
    BY <1>1, <2>1 DEF RowsOK, SameFor
  <2> QED
    BY <1>2, <2>2, <2>3
<1> QED
  BY <1>3, <1>4, <1>5

LEMMA WriteRole ==
    ASSUME NEW old, RowsOK(old), NEW c \in Permits!Requests, c.what \in {"role", "roleMenus", "roleScopes", "roleDelete"},
           NEW u
    PROVE  RowsOK(Permits!Write(old, c)) /\ (Apart(old, c, u) => SameFor(old, Permits!Write(old, c), u))
<1>1. c.of \in Roles /\ (Apart(old, c, u) => u \in Users /\ <<u, c.of>> \notin old.userRole)
  BY KindsDiffer DEF Permits!Requests, Permits!Holders, Permits!RolesHolders, Apart
<1>2. Permits!Write(old, c) = Permits!RoleRows(old, c)
  BY <1>1, KindsDiffer DEF Permits!Write
<1>3. CASE c.what = "role"
  <2> DEFINE x == [old.roleOn EXCEPT ![c.of] = c.on]
             y == [old.filters EXCEPT ![c.of] = c.filters]
             new == [old EXCEPT !.roleOn = x, !.filters = y]
  <2>1. c.on \in BOOLEAN /\ c.filters \in BOOLEAN
    BY <1>3 DEF Permits!Requests
  <2>2. /\ x \in [Roles -> BOOLEAN] /\ y \in [Roles -> BOOLEAN]
        /\ \A r \in Roles \ {c.of} : x[r] = old.roleOn[r] /\ y[r] = old.filters[r]
    BY <1>1, <2>1 DEF RowsOK
  <2>3. Permits!RoleRows(old, c) = new
    BY <1>3 DEF Permits!RoleRows
  <2> HIDE DEF x, y
  <2>4. RowsOK(new) /\ (Apart(old, c, u) => SameFor(old, new, u))
    BY <1>1, <2>2 DEF RowsOK, SameFor
  <2> QED
    BY <1>2, <2>3, <2>4
<1>4. CASE c.what = "roleMenus"
  <2> DEFINE x == Permits!Replace(old.roleMenu, c.of, c.to)
             new == [old EXCEPT !.roleMenu = x]
  <2>1. x \subseteq Roles \X Menus /\ \A r \in Roles \ {c.of}, m \in Menus : <<r, m>> \in x <=> <<r, m>> \in old.roleMenu
    BY <1>1, <1>4 DEF RowsOK, Permits!Replace, Permits!Requests
  <2>2. Permits!RoleRows(old, c) = new
    BY <1>4 DEF Permits!RoleRows
  <2> HIDE DEF x
  <2>3. RowsOK(new) /\ (Apart(old, c, u) => SameFor(old, new, u))
    BY <1>1, <2>1 DEF RowsOK, SameFor
  <2> QED
    BY <1>2, <2>2, <2>3
<1>5. CASE c.what = "roleScopes"
  <2> DEFINE x == Permits!Replace(old.roleScope, c.of, c.to)
             new == [old EXCEPT !.roleScope = x]
  <2>1. x \subseteq Roles \X Scopes /\ \A r \in Roles \ {c.of}, s \in Scopes : <<r, s>> \in x <=> <<r, s>> \in old.roleScope
    BY <1>1, <1>5 DEF RowsOK, Permits!Replace, Permits!Requests
  <2>2. Permits!RoleRows(old, c) = new
    BY <1>5 DEF Permits!RoleRows
  <2> HIDE DEF x
  <2>3. RowsOK(new) /\ (Apart(old, c, u) => SameFor(old, new, u))
    BY <1>1, <2>1 DEF RowsOK, SameFor
  <2> QED
    BY <1>2, <2>2, <2>3
<1>6. CASE c.what = "roleDelete"
  <2> DEFINE x == old.roles \ {c.of}
             new == [old EXCEPT !.roles = x]
  <2>1. x \subseteq Roles /\ \A r \in Roles \ {c.of} : r \in x <=> r \in old.roles
    BY <1>1 DEF RowsOK
  <2>2. Permits!RoleRows(old, c) = new
    BY <1>6 DEF Permits!RoleRows
  <2> HIDE DEF x
  <2>3. RowsOK(new) /\ (Apart(old, c, u) => SameFor(old, new, u))
    BY <1>1, <2>1 DEF RowsOK, SameFor
  <2> QED
    BY <1>2, <2>2, <2>3
<1> QED
  BY <1>3, <1>4, <1>5, <1>6

LEMMA WriteMenu ==
    ASSUME NEW old, RowsOK(old), NEW c \in Permits!Requests, c.what \in {"menu"},
           NEW u
    PROVE  RowsOK(Permits!Write(old, c)) /\ (Apart(old, c, u) => SameFor(old, Permits!Write(old, c), u))
<1>1. c.of \in Menus /\ (Apart(old, c, u) => u \in Users /\ \A r \in Roles : <<u, r>> \in old.userRole => <<r, c.of>> \notin old.roleMenu)
  BY KindsDiffer DEF Permits!Requests, Permits!Holders, Permits!MenuHolders, Permits!RolesHolders, Apart
<1>2. Permits!Write(old, c) = Permits!MenuRows(old, c)
  BY <1>1, KindsDiffer DEF Permits!Write
<1>3. CASE c.what = "menu"
  <2> DEFINE x == [old.menuOn EXCEPT ![c.of] = ~@]
             new == [old EXCEPT !.menuOn = x]
  <2>1. x \in [Menus -> BOOLEAN] /\ \A m \in Menus \ {c.of} : x[m] = old.menuOn[m]
    BY <1>1 DEF RowsOK
  <2>2. Permits!MenuRows(old, c) = new
    BY <1>3 DEF Permits!MenuRows
  <2> HIDE DEF x
  <2>3. RowsOK(new) /\ (Apart(old, c, u) => SameFor(old, new, u))
    BY <1>1, <2>1 DEF RowsOK, SameFor
  <2> QED
    BY <1>2, <2>2, <2>3
<1> QED
  BY <1>3

LEMMA WriteScope ==
    ASSUME NEW old, RowsOK(old), NEW c \in Permits!Requests, c.what \in {"scope", "scopeRules", "scopeDelete"},
           NEW u
    PROVE  RowsOK(Permits!Write(old, c)) /\ (Apart(old, c, u) => SameFor(old, Permits!Write(old, c), u))
<1>1. c.of \in Scopes /\ (Apart(old, c, u) => u \in Users /\ \A r \in Roles : <<u, r>> \in old.userRole => <<r, c.of>> \notin old.roleScope)
  BY KindsDiffer DEF Permits!Requests, Permits!Holders, Permits!ScopeHolders, Permits!RolesHolders, Apart
<1>2. Permits!Write(old, c) = Permits!ScopeRows(old, c)
  BY <1>1, KindsDiffer DEF Permits!Write
<1>3. CASE c.what = "scope"
  <2> DEFINE x == [old.scopeOn EXCEPT ![c.of] = ~@]
             new == [old EXCEPT !.scopeOn = x]
  <2>1. x \in [Scopes -> BOOLEAN] /\ \A s \in Scopes \ {c.of} : x[s] = old.scopeOn[s]
    BY <1>1 DEF RowsOK
  <2>2. Permits!ScopeRows(old, c) = new
    BY <1>3 DEF Permits!ScopeRows
  <2> HIDE DEF x
  <2>3. RowsOK(new) /\ (Apart(old, c, u) => SameFor(old, new, u))
    BY <1>1, <2>1 DEF RowsOK, SameFor
  <2> QED
    BY <1>2, <2>2, <2>3
<1>4. CASE c.what = "scopeRules"
  <2> DEFINE x == Permits!Replace(old.scopeRule, c.of, c.to)
             new == [old EXCEPT !.scopeRule = x]
  <2>1. x \subseteq Scopes \X Rules /\ \A s \in Scopes \ {c.of}, d \in Rules : <<s, d>> \in x <=> <<s, d>> \in old.scopeRule
    BY <1>1, <1>4 DEF RowsOK, Permits!Replace, Permits!Requests
  <2>2. Permits!ScopeRows(old, c) = new
    BY <1>4 DEF Permits!ScopeRows
  <2> HIDE DEF x
  <2>3. RowsOK(new) /\ (Apart(old, c, u) => SameFor(old, new, u))
    BY <1>1, <2>1 DEF RowsOK, SameFor
  <2> QED
    BY <1>2, <2>2, <2>3
<1>5. CASE c.what = "scopeDelete"
  <2> DEFINE x == old.scopes \ {c.of}
             new == [old EXCEPT !.scopes = x]
  <2>1. x \subseteq Scopes /\ \A s \in Scopes \ {c.of} : s \in x <=> s \in old.scopes
    BY <1>1 DEF RowsOK
  <2>2. Permits!ScopeRows(old, c) = new
    BY <1>5 DEF Permits!ScopeRows
  <2> HIDE DEF x
  <2>3. RowsOK(new) /\ (Apart(old, c, u) => SameFor(old, new, u))
    BY <1>1, <2>1 DEF RowsOK, SameFor
  <2> QED
    BY <1>2, <2>2, <2>3
<1> QED
  BY <1>3, <1>4, <1>5

LEMMA WriteRule ==
    ASSUME NEW old, RowsOK(old), NEW c \in Permits!Requests, c.what \in {"rule", "ruleDelete"},
           NEW u
    PROVE  RowsOK(Permits!Write(old, c)) /\ (Apart(old, c, u) => SameFor(old, Permits!Write(old, c), u))
<1>1. /\ c.of \in Rules
      /\ Apart(old, c, u) =>
             u \in Users /\ \A r \in Roles, s \in Scopes :
                 <<u, r>> \in old.userRole /\ <<r, s>> \in old.roleScope => <<s, c.of>> \notin old.scopeRule
  BY KindsDiffer DEF Permits!Requests, Permits!Holders, Permits!RuleHolders, Permits!ScopeHolders, Permits!RolesHolders, Apart
<1>2. Permits!Write(old, c) = Permits!RuleRows(old, c)
  BY <1>1, KindsDiffer DEF Permits!Write
<1>3. CASE c.what = "rule"
  <2> DEFINE x == [old.version EXCEPT ![c.of] = 1 - @]
             new == [old EXCEPT !.version = x]
  <2>1. x \in [Rules -> {0, 1}] /\ \A d \in Rules \ {c.of} : x[d] = old.version[d]
    BY <1>1 DEF RowsOK
  <2>2. Permits!RuleRows(old, c) = new
    BY <1>3 DEF Permits!RuleRows
  <2> HIDE DEF x
  <2>3. RowsOK(new) /\ (Apart(old, c, u) => SameFor(old, new, u))
    BY <1>1, <2>1 DEF RowsOK, SameFor
  <2> QED
    BY <1>2, <2>2, <2>3
<1>4. CASE c.what = "ruleDelete"
  <2> DEFINE x == old.rules \ {c.of}
             new == [old EXCEPT !.rules = x]
  <2>1. x \subseteq Rules /\ \A d \in Rules \ {c.of} : d \in x <=> d \in old.rules
    BY <1>1 DEF RowsOK
  <2>2. Permits!RuleRows(old, c) = new
    BY <1>4 DEF Permits!RuleRows
  <2> HIDE DEF x
  <2>3. RowsOK(new) /\ (Apart(old, c, u) => SameFor(old, new, u))
    BY <1>1, <2>1 DEF RowsOK, SameFor
  <2> QED
    BY <1>2, <2>2, <2>3
<1> QED
  BY <1>3, <1>4

\* A change keeps the types of the rows, and for whom it does not concern what
\* hangs on them.
LEMMA WriteKeeps ==
    ASSUME NEW old, RowsOK(old), NEW c \in Permits!Requests
    PROVE  /\ RowsOK(Permits!Write(old, c))
           /\ \A u : Apart(old, c, u) /\ c.what \notin {"dept", "menuDelete"} =>
                         SameFor(old, Permits!Write(old, c), u)
<1>1. CASE c.what = "dept"
  <2> DEFINE x == ~old.dept
             new == [old EXCEPT !.dept = x]
  <2>1. Permits!Write(old, c) = new
    BY <1>1, KindsDiffer DEF Permits!Requests, Permits!Write
  <2>2. x \in BOOLEAN
    OBVIOUS
  <2> HIDE DEF x
  <2>3. RowsOK(new)
    BY <2>2 DEF RowsOK
  <2> QED
    BY <1>1, <2>1, <2>3
<1>2. CASE c.what = "menuDelete"
  <2> DEFINE x == old.menus \ {c.of}
             y == {k \in old.roleMenu : k[2] # c.of}
             new == [old EXCEPT !.menus = x, !.roleMenu = y]
  <2>1. Permits!Write(old, c) = new
    BY <1>2, KindsDiffer DEF Permits!Requests, Permits!Write, Permits!MenuRows
  <2>2. x \subseteq Menus /\ y \subseteq Roles \X Menus
    BY DEF RowsOK
  <2> HIDE DEF x, y
  <2>3. RowsOK(new)
    BY <2>2 DEF RowsOK
  <2> QED
    BY <1>2, <2>1, <2>3
<1>3. c.what \in {"super", "staff", "roles", "role", "roleMenus", "roleScopes", "scopeRules", "menu", "menuDelete",
                  "scope", "scopeDelete", "rule", "ruleDelete", "roleDelete", "dept"}
  BY DEF Permits!Requests
<1> QED
  BY <1>1, <1>2, <1>3, WriteUser, WriteRole, WriteMenu, WriteScope, WriteRule

\* Whose copies a change clears follows from what hangs on them.
LEMMA SameHolders ==
    ASSUME NEW old, NEW new, NEW u \in Users, SameFor(old, new, u), NEW c \in Permits!Requests
    PROVE  u \in Permits!Holders(new, c) <=> u \in Permits!Holders(old, c)
<1>1. CASE c.of \in Users \cup {"dept"}
  BY <1>1, KindsDiffer DEF Permits!Holders
<1>2. CASE c.of \in Roles
  BY <1>2, KindsDiffer DEF Permits!Holders, Permits!RolesHolders, SameFor
<1>3. CASE c.of \in Menus
  BY <1>3, KindsDiffer DEF Permits!Holders, Permits!MenuHolders, Permits!RolesHolders, SameFor
<1>4. CASE c.of \in Scopes
  BY <1>4, KindsDiffer DEF Permits!Holders, Permits!ScopeHolders, Permits!RolesHolders, SameFor
<1>5. CASE c.of \in Rules
  BY <1>5, KindsDiffer DEF Permits!Holders, Permits!RuleHolders, Permits!ScopeHolders, Permits!RolesHolders, SameFor
<1> QED
  BY <1>1, <1>2, <1>3, <1>4, <1>5 DEF Permits!Requests

\* A change looks them up when it has written, and finds whom it concerned
\* before; but for the deletion of a menu, which has deleted the links.
LEMMA HoldersWritten ==
    ASSUME NEW old, RowsOK(old), NEW c \in Permits!Requests, c.what \notin {"dept", "menuDelete"}
    PROVE  Permits!Holders(Permits!Write(old, c), c) = Permits!Holders(old, c)
<1> DEFINE new == Permits!Write(old, c)
<1>1. CASE c.of \in Users
  BY <1>1, KindsDiffer DEF Permits!Holders
<1>2. CASE c.of \in Roles
  <2>1. new.userRole = old.userRole
    BY <1>2, KindsDiffer DEF Permits!Write, Permits!RoleRows, RowsOK, Permits!Requests
  <2> HIDE DEF new
  <2> QED
    BY <1>2, <2>1, KindsDiffer DEF Permits!Holders, Permits!RolesHolders, new
<1>3. CASE c.of \in Menus
  <2>1. new.userRole = old.userRole /\ new.roleMenu = old.roleMenu
    BY <1>3, KindsDiffer DEF Permits!Write, Permits!MenuRows, RowsOK, Permits!Requests
  <2> HIDE DEF new
  <2> QED
    BY <1>3, <2>1, KindsDiffer DEF Permits!Holders, Permits!MenuHolders, Permits!RolesHolders, new
<1>4. CASE c.of \in Scopes
  <2>1. new.userRole = old.userRole /\ new.roleScope = old.roleScope
    BY <1>4, KindsDiffer DEF Permits!Write, Permits!ScopeRows, RowsOK, Permits!Requests
  <2> HIDE DEF new
  <2> QED
    BY <1>4, <2>1, KindsDiffer DEF Permits!Holders, Permits!ScopeHolders, Permits!RolesHolders, new
<1>5. CASE c.of \in Rules
  <2>1. new.userRole = old.userRole /\ new.roleScope = old.roleScope /\ new.scopeRule = old.scopeRule
    BY <1>5, KindsDiffer DEF Permits!Write, Permits!RuleRows, RowsOK, Permits!Requests
  <2> HIDE DEF new
  <2> QED
    BY <1>5, <2>1, KindsDiffer DEF Permits!Holders, Permits!RuleHolders, Permits!ScopeHolders, Permits!RolesHolders, new
<1> QED
  BY <1>1, <1>2, <1>3, <1>4, <1>5 DEF Permits!Requests

\* What hangs on a role and on a data scope.
Shows(rows, r) == {m \in rows.menus : <<r, m>> \in rows.roleMenu}
Has(rows, r) == {t \in rows.scopes : <<r, t>> \in rows.roleScope}
Follows(rows, s) == {d \in rows.rules : <<s, d>> \in rows.scopeRule}
Limits(rows, r) == {[id |-> s, rules |-> Follows(rows, s)] : s \in Has(rows, r)}

\* What hangs on a user, and what a copy of it holds, is the same in the rows
\* that have it in common.
LEMMA SameLinked ==
    ASSUME NEW old, NEW new, NEW u \in Users, RowsOK(old), RowsOK(new), SameFor(old, new, u)
    PROVE  Permits!Linked(new, u) = Permits!Linked(old, u)
<1> DEFINE Own(rows) == {q \in rows.roles : <<u, q>> \in rows.userRole}
<1>1. Own(new) = Own(old)
  BY DEF SameFor, RowsOK
<1>2. ASSUME NEW r \in Own(old) PROVE Shows(new, r) = Shows(old, r)
  BY DEF SameFor, RowsOK, Shows
<1>3. ASSUME NEW r \in Own(old) PROVE Limits(new, r) = Limits(old, r)
  <2>1. Has(new, r) = Has(old, r)
    BY DEF SameFor, RowsOK, Has
  <2>2. ASSUME NEW s \in Has(old, r) PROVE Follows(new, s) = Follows(old, s)
    BY DEF SameFor, RowsOK, Has, Follows
  <2> QED
    BY <2>1, <2>2 DEF Limits
<1> HIDE DEF Own
<1>4. {[id |-> r, menus |-> Shows(new, r), scopes |-> Limits(new, r)] : r \in Own(new)}
        = {[id |-> r, menus |-> Shows(old, r), scopes |-> Limits(old, r)] : r \in Own(old)}
  BY <1>1, <1>2, <1>3
<1> QED
  BY <1>4 DEF Permits!Linked, Own, Shows, Limits, Has, Follows

LEMMA LinkedRole ==
    ASSUME NEW rows, RowsOK(rows), NEW u, NEW role \in Permits!Linked(rows, u)
    PROVE  /\ role.id \in rows.roles /\ role.id \in Roles /\ <<u, role.id>> \in rows.userRole
           /\ role.menus = Shows(rows, role.id) /\ role.scopes = Limits(rows, role.id)
<1>1. PICK r \in rows.roles : /\ <<u, r>> \in rows.userRole
                              /\ role = [id |-> r, menus |-> Shows(rows, r), scopes |-> Limits(rows, r)]
  BY DEF Permits!Linked, Shows, Limits, Has, Follows
<1>2. role.id = r /\ role.menus = Shows(rows, r) /\ role.scopes = Limits(rows, r) /\ r \in Roles
  BY <1>1 DEF RowsOK
<1> QED
  BY <1>1, <1>2

LEMMA SameScope ==
    ASSUME NEW old, NEW new, NEW u, SameFor(old, new, u), RowsOK(old),
           NEW r \in Roles, <<u, r>> \in old.userRole, NEW scope \in Limits(old, r)
    PROVE  new.scopeOn[scope.id] = old.scopeOn[scope.id] /\ \A d \in scope.rules : new.version[d] = old.version[d]
<1>1. PICK s \in Has(old, r) : scope = [id |-> s, rules |-> Follows(old, s)]
  BY DEF Limits
<1>2. scope.id = s /\ scope.rules = Follows(old, s)
  BY <1>1
<1>3. s \in Scopes /\ <<r, s>> \in old.roleScope
  BY <1>1 DEF Has, RowsOK
<1>4. new.scopeOn[s] = old.scopeOn[s]
  BY <1>3 DEF SameFor
<1>5. \A d \in Rules : <<s, d>> \in old.scopeRule => new.version[d] = old.version[d]
  BY <1>3 DEF SameFor
<1>6. \A d \in Follows(old, s) : new.version[d] = old.version[d]
  BY <1>5 DEF Follows, RowsOK
<1> QED
  BY <1>2, <1>4, <1>6

LEMMA SameView ==
    ASSUME NEW old, NEW new, NEW u \in Users, RowsOK(old), RowsOK(new), SameFor(old, new, u)
    PROVE  Permits!ViewOf(new, u, Permits!Linked(new, u)) = Permits!ViewOf(old, u, Permits!Linked(old, u))
<1> DEFINE L == Permits!Linked(old, u)
<1>1. Permits!Linked(new, u) = L
  BY SameLinked
<1>2. ASSUME NEW role \in L PROVE Permits!Role(new, role) = Permits!Role(old, role)
  <2>1. /\ role.id \in Roles /\ <<u, role.id>> \in old.userRole
        /\ role.menus = Shows(old, role.id) /\ role.scopes = Limits(old, role.id)
    BY LinkedRole
  <2>2. new.roleOn[role.id] = old.roleOn[role.id] /\ new.filters[role.id] = old.filters[role.id]
    BY <2>1 DEF SameFor
  <2>3. \A m \in role.menus : new.menuOn[m] = old.menuOn[m]
    BY <2>1 DEF SameFor, RowsOK, Shows
  <2>4. \A scope \in role.scopes : /\ new.scopeOn[scope.id] = old.scopeOn[scope.id]
                                   /\ \A d \in scope.rules : new.version[d] = old.version[d]
    BY <2>1, SameScope
  <2> DEFINE V(rows, scope) == {<<d, rows.version[d]>> : d \in scope.rules}
  <2>5. \A scope \in role.scopes : V(new, scope) = V(old, scope)
    BY <2>4
  <2>6. {<<m, new.menuOn[m]>> : m \in role.menus} = {<<m, old.menuOn[m]>> : m \in role.menus}
    BY <2>3
  <2> HIDE DEF V
  <2>7. {<<new.scopeOn[scope.id], V(new, scope)>> : scope \in role.scopes}
          = {<<old.scopeOn[scope.id], V(old, scope)>> : scope \in role.scopes}
    BY <2>4, <2>5
  <2> QED
    BY <2>2, <2>6, <2>7 DEF Permits!Role, V
<1>3. {Permits!Role(new, role) : role \in L} = {Permits!Role(old, role) : role \in L}
  BY <1>2
<1>4. Permits!Locked(new, {role.id : role \in L}) = Permits!Locked(old, {role.id : role \in L})
  <2>1. \A r \in {role.id : role \in L} : r \in Roles /\ <<u, r>> \in old.userRole
    BY LinkedRole
  <2> DEFINE ids == {role.id : role \in L}
  <2> HIDE DEF ids, L
  <2>2. new.dept = old.dept /\ \A r \in ids : new.roleOn[r] = old.roleOn[r]
    BY <2>1 DEF SameFor, ids
  <2>3. Permits!Locked(new, ids) <=> Permits!Locked(old, ids)
    BY <2>2 DEF Permits!Locked
  <2>4. Permits!Locked(new, ids) \in BOOLEAN /\ Permits!Locked(old, ids) \in BOOLEAN
    BY DEF Permits!Locked, RowsOK
  <2> QED
    BY <2>3, <2>4 DEF ids
<1>5. new.super[u] = old.super[u] /\ new.staff[u] = old.staff[u]
  BY DEF SameFor
<1> HIDE DEF L
<1> QED
  BY <1>1, <1>3, <1>4, <1>5 DEF Permits!ViewOf, L

\* An outer join finds the matches, and something in any case.
LEMMA MatchesAre ==
    ASSUME NEW links, NEW from, NEW there, "null" \notin there
    PROVE  /\ \A x : x # "null" => (x \in Permits!Matches(links, from, there) <=> x \in there /\ <<from, x>> \in links)
           /\ \E x : x \in Permits!Matches(links, from, there)
<1> DEFINE found == {to \in there : <<from, to>> \in links}
<1>1. Permits!Matches(links, from, there) = IF found = {} THEN {"null"} ELSE found
  BY DEF Permits!Matches, Permits!Null
<1>2. \A x : x \in found <=> x \in there /\ <<from, x>> \in links
  OBVIOUS
<1> HIDE DEF found
<1>3. CASE found = {}
  BY <1>1, <1>2, <1>3
<1>4. CASE found # {}
  BY <1>1, <1>2, <1>4
<1> QED
  BY <1>3, <1>4

\* A row of the join has an element of each type that matches the one before.
LEMMA JoinedAre ==
    ASSUME NEW rows, NEW u, NEW row
    PROVE  row \in Permits!JoinRows(rows, u) <=>
               \E r \in Permits!Matches(rows.userRole, u, rows.roles) :
               \E m \in Permits!Matches(rows.roleMenu, r, rows.menus) :
               \E s \in Permits!Matches(rows.roleScope, r, rows.scopes) :
               \E d \in Permits!Matches(rows.scopeRule, s, rows.rules) :
                   row = [user |-> u, role |-> r, menu |-> m, scope |-> s, rule |-> d]
BY DEF Permits!JoinRows

\* The elements that hang under another, folded back from the rows.
LEMMA RolesFold ==
    ASSUME NEW rows, RowsOK(rows), NEW u
    PROVE  Permits!Hierarchy(Permits!JoinRows(rows, u), "role", u)
               = {q \in rows.roles : <<u, q>> \in rows.userRole}
<1> DEFINE J == Permits!JoinRows(rows, u)
           H == Permits!Hierarchy(J, "role", u)
<1>0. "null" \notin rows.roles /\ "null" \notin rows.menus /\ "null" \notin rows.scopes /\ "null" \notin rows.rules
  BY KindsDiffer DEF RowsOK
<1>1. \A x : x \in H <=> x # "null" /\ \E row \in J : row.user = u /\ row.role = x
  <2>1. H = {row["role"] : row \in {j \in J : j["user"] = u}} \ {"null"}
    BY DEF Permits!Hierarchy, Permits!ParentType, Permits!Null
  <2> HIDE DEF J, H
  <2> QED
    BY <2>1
<1>2. ASSUME NEW x, x # "null" PROVE (\E row \in J : row.user = u /\ row.role = x) <=> x \in rows.roles /\ <<u, x>> \in rows.userRole
  <2>1. ASSUME NEW row \in J, row.user = u, row.role = x PROVE x \in rows.roles /\ <<u, x>> \in rows.userRole
    <3>1. PICK r \in Permits!Matches(rows.userRole, u, rows.roles) : row.role = r
      BY JoinedAre
    <3> QED
      BY <1>0, <1>2, <2>1, <3>1, MatchesAre
  <2>2. ASSUME x \in rows.roles, <<u, x>> \in rows.userRole PROVE \E row \in J : row.user = u /\ row.role = x
    <3>1. x \in Permits!Matches(rows.userRole, u, rows.roles)
      BY <1>0, <1>2, <2>2, MatchesAre
    <3>2. PICK m \in Permits!Matches(rows.roleMenu, x, rows.menus) : TRUE
      BY <1>0, MatchesAre
    <3>3. PICK s \in Permits!Matches(rows.roleScope, x, rows.scopes) : TRUE
      BY <1>0, MatchesAre
    <3>4. PICK d \in Permits!Matches(rows.scopeRule, s, rows.rules) : TRUE
      BY <1>0, MatchesAre
    <3> DEFINE row == [user |-> u, role |-> x, menu |-> m, scope |-> s, rule |-> d]
    <3>5. row \in J
      BY <3>1, <3>2, <3>3, <3>4, JoinedAre
    <3> QED
      BY <3>5
  <2> QED
    BY <2>1, <2>2
<1> HIDE DEF J, H
<1>3. H = {q \in rows.roles : <<u, q>> \in rows.userRole}
  BY <1>0, <1>1, <1>2
<1> QED
  BY <1>3 DEF H, J

\* A role that the user has is in some row, with any menu of it and any scope
\* of it, and with any rule of that scope.
LEMMA JoinedHas ==
    ASSUME NEW rows, RowsOK(rows), NEW u, NEW r \in rows.roles, <<u, r>> \in rows.userRole
    PROVE  /\ \A m \in Shows(rows, r) : \E row \in Permits!JoinRows(rows, u) : row.role = r /\ row.menu = m
           /\ \A s \in Has(rows, r) : \E row \in Permits!JoinRows(rows, u) : row.role = r /\ row.scope = s
           /\ \A s \in Has(rows, r) : \A d \in Follows(rows, s) :
                  \E row \in Permits!JoinRows(rows, u) : row.scope = s /\ row.rule = d
<1>0. /\ "null" \notin rows.roles /\ "null" \notin rows.menus /\ "null" \notin rows.scopes /\ "null" \notin rows.rules
  BY KindsDiffer DEF RowsOK
<1>1. r \in Permits!Matches(rows.userRole, u, rows.roles)
  BY <1>0, MatchesAre
<1>2. PICK m0 \in Permits!Matches(rows.roleMenu, r, rows.menus) : TRUE
  BY <1>0, MatchesAre
<1>3. PICK s0 \in Permits!Matches(rows.roleScope, r, rows.scopes) : TRUE
  BY <1>0, MatchesAre
<1>4. ASSUME NEW m \in Permits!Matches(rows.roleMenu, r, rows.menus),
             NEW s \in Permits!Matches(rows.roleScope, r, rows.scopes),
             NEW d \in Permits!Matches(rows.scopeRule, s, rows.rules)
      PROVE  \E row \in Permits!JoinRows(rows, u) :
                 row.role = r /\ row.menu = m /\ row.scope = s /\ row.rule = d
  <2> DEFINE row == [user |-> u, role |-> r, menu |-> m, scope |-> s, rule |-> d]
  <2>1. row \in Permits!JoinRows(rows, u)
    BY <1>1, JoinedAre
  <2> QED
    BY <2>1
<1>5. \A s : \E d : d \in Permits!Matches(rows.scopeRule, s, rows.rules)
  BY <1>0, MatchesAre
<1>6. \A m \in Shows(rows, r) : m \in Permits!Matches(rows.roleMenu, r, rows.menus)
  BY <1>0, MatchesAre DEF Shows
<1>7. \A s \in Has(rows, r) : s \in Permits!Matches(rows.roleScope, r, rows.scopes)
  BY <1>0, MatchesAre DEF Has
<1>8. \A s \in Has(rows, r) : \A d \in Follows(rows, s) : d \in Permits!Matches(rows.scopeRule, s, rows.rules)
  BY <1>0, MatchesAre DEF Follows
<1>9. ASSUME NEW m \in Shows(rows, r)
      PROVE  \E row \in Permits!JoinRows(rows, u) : row.role = r /\ row.menu = m
  <2>1. PICK d : d \in Permits!Matches(rows.scopeRule, s0, rows.rules)
    BY <1>5
  <2>2. \E row \in Permits!JoinRows(rows, u) : row.role = r /\ row.menu = m /\ row.scope = s0 /\ row.rule = d
    BY <1>3, <1>4, <1>6, <2>1
  <2> QED
    BY <2>2
<1>10. ASSUME NEW s \in Has(rows, r)
       PROVE  \E row \in Permits!JoinRows(rows, u) : row.role = r /\ row.scope = s
  <2>1. PICK d : d \in Permits!Matches(rows.scopeRule, s, rows.rules)
    BY <1>5
  <2>2. \E row \in Permits!JoinRows(rows, u) : row.role = r /\ row.menu = m0 /\ row.scope = s /\ row.rule = d
    BY <1>2, <1>4, <1>7, <2>1
  <2> QED
    BY <2>2
<1>11. ASSUME NEW s \in Has(rows, r), NEW d \in Follows(rows, s)
       PROVE  \E row \in Permits!JoinRows(rows, u) : row.scope = s /\ row.rule = d
  <2>1. \E row \in Permits!JoinRows(rows, u) : row.role = r /\ row.menu = m0 /\ row.scope = s /\ row.rule = d
    BY <1>2, <1>4, <1>7, <1>8
  <2> QED
    BY <2>1
<1> QED
  BY <1>9, <1>10, <1>11

\* What a row names under a role or a scope is linked to it.
LEMMA JoinedLinks ==
    ASSUME NEW rows, RowsOK(rows), NEW u, NEW row \in Permits!JoinRows(rows, u)
    PROVE  /\ row.menu # "null" => row.menu \in Shows(rows, row.role)
           /\ row.scope # "null" => row.scope \in Has(rows, row.role)
           /\ row.rule # "null" => row.rule \in Follows(rows, row.scope)
<1>0. "null" \notin rows.menus /\ "null" \notin rows.scopes /\ "null" \notin rows.rules
  BY KindsDiffer DEF RowsOK
<1>1. PICK r : \E m \in Permits!Matches(rows.roleMenu, r, rows.menus) :
               \E s \in Permits!Matches(rows.roleScope, r, rows.scopes) :
               \E d \in Permits!Matches(rows.scopeRule, s, rows.rules) :
                   row = [user |-> u, role |-> r, menu |-> m, scope |-> s, rule |-> d]
  BY JoinedAre
<1>2. PICK m \in Permits!Matches(rows.roleMenu, r, rows.menus) :
               \E s \in Permits!Matches(rows.roleScope, r, rows.scopes) :
               \E d \in Permits!Matches(rows.scopeRule, s, rows.rules) :
                   row = [user |-> u, role |-> r, menu |-> m, scope |-> s, rule |-> d]
  BY <1>1
<1>3. PICK s \in Permits!Matches(rows.roleScope, r, rows.scopes) :
               \E d \in Permits!Matches(rows.scopeRule, s, rows.rules) :
                   row = [user |-> u, role |-> r, menu |-> m, scope |-> s, rule |-> d]
  BY <1>2
<1>4. PICK d \in Permits!Matches(rows.scopeRule, s, rows.rules) :
                   row = [user |-> u, role |-> r, menu |-> m, scope |-> s, rule |-> d]
  BY <1>3
<1>5. row.role = r /\ row.menu = m /\ row.scope = s /\ row.rule = d
  BY <1>4
<1>6. m # "null" => m \in Shows(rows, r)
  BY <1>0, MatchesAre DEF Shows
<1>7. s # "null" => s \in Has(rows, r)
  BY <1>0, MatchesAre DEF Has
<1>8. d # "null" => d \in Follows(rows, s)
  BY <1>0, MatchesAre DEF Follows
<1> QED
  BY <1>5, <1>6, <1>7, <1>8

LEMMA UnderFold ==
    ASSUME NEW rows, RowsOK(rows), NEW u, NEW r \in rows.roles, <<u, r>> \in rows.userRole
    PROVE  /\ Permits!Hierarchy(Permits!JoinRows(rows, u), "menu", r) = Shows(rows, r)
           /\ Permits!Hierarchy(Permits!JoinRows(rows, u), "scope", r) = Has(rows, r)
           /\ \A s \in Has(rows, r) : Permits!Hierarchy(Permits!JoinRows(rows, u), "rule", s) = Follows(rows, s)
<1> DEFINE J == Permits!JoinRows(rows, u)
<1>0. /\ "null" \notin Shows(rows, r) /\ "null" \notin Has(rows, r)
      /\ \A s : "null" \notin Follows(rows, s)
  BY KindsDiffer DEF RowsOK, Shows, Has, Follows
<1> HIDE DEF J
<1>1. Permits!Hierarchy(J, "menu", r) = {row["menu"] : row \in {j \in J : j["role"] = r}} \ {"null"}
  BY DEF Permits!Hierarchy, Permits!ParentType, Permits!Null
<1>2. Permits!Hierarchy(J, "scope", r) = {row["scope"] : row \in {j \in J : j["role"] = r}} \ {"null"}
  BY DEF Permits!Hierarchy, Permits!ParentType, Permits!Null
<1>3. \A s : Permits!Hierarchy(J, "rule", s) = {row["rule"] : row \in {j \in J : j["scope"] = s}} \ {"null"}
  BY DEF Permits!Hierarchy, Permits!ParentType, Permits!Null
<1>4. \A row \in J : /\ row.menu # "null" => row.menu \in Shows(rows, row.role)
                     /\ row.scope # "null" => row.scope \in Has(rows, row.role)
                     /\ row.rule # "null" => row.rule \in Follows(rows, row.scope)
  BY JoinedLinks DEF J
<1>5. /\ \A m \in Shows(rows, r) : \E row \in J : row.role = r /\ row.menu = m
      /\ \A s \in Has(rows, r) : \E row \in J : row.role = r /\ row.scope = s
      /\ \A s \in Has(rows, r) : \A d \in Follows(rows, s) : \E row \in J : row.scope = s /\ row.rule = d
  BY JoinedHas DEF J
<1>6. Permits!Hierarchy(J, "menu", r) = Shows(rows, r)
  BY <1>0, <1>1, <1>4, <1>5
<1>7. Permits!Hierarchy(J, "scope", r) = Has(rows, r)
  BY <1>0, <1>2, <1>4, <1>5
<1>8. ASSUME NEW s \in Has(rows, r) PROVE Permits!Hierarchy(J, "rule", s) = Follows(rows, s)
  <2>1. \A row \in J : row.scope = s /\ row.rule # "null" => row.rule \in Follows(rows, s)
    BY <1>4
  <2>2. \A d \in Follows(rows, s) : \E row \in J : row.scope = s /\ row.rule = d
    BY <1>5
  <2>3. Permits!Hierarchy(J, "rule", s) = {row["rule"] : row \in {j \in J : j["scope"] = s}} \ {"null"}
    BY <1>3
  <2>4. "null" \notin Follows(rows, s)
    BY <1>0
  <2> QED
    BY <2>1, <2>2, <2>3, <2>4
<1> QED
  BY <1>6, <1>7, <1>8 DEF J

\* select_join_serialize folds the joined rows back into what the tables link,
\* whatever the rows are, links to rows that are gone and rows without links
\* among them.
THEOREM FoldsBack ==
    ASSUME NEW rows, RowsOK(rows), NEW u
    PROVE  Permits!Serialized(rows, u) = Permits!Linked(rows, u)
<1> DEFINE J == Permits!JoinRows(rows, u)
           Own == {q \in rows.roles : <<u, q>> \in rows.userRole}
<1>1. Permits!Hierarchy(J, "role", u) = Own
  BY RolesFold
<1>2. ASSUME NEW r \in Own
      PROVE  Permits!Hierarchy(J, "menu", r) = Shows(rows, r) /\ Permits!BuildScopes(J, r) = Limits(rows, r)
  <2>1. /\ Permits!Hierarchy(J, "menu", r) = Shows(rows, r) /\ Permits!Hierarchy(J, "scope", r) = Has(rows, r)
        /\ \A s \in Has(rows, r) : Permits!Hierarchy(J, "rule", s) = Follows(rows, s)
    BY UnderFold
  <2> HIDE DEF J
  <2>2. Permits!BuildScopes(J, r) = {[id |-> s, rules |-> Permits!Hierarchy(J, "rule", s)] : s \in Has(rows, r)}
    BY <2>1 DEF Permits!BuildScopes, Permits!BuildRules
  <2> QED
    BY <2>1, <2>2 DEF Limits
<1> HIDE DEF J, Own
<1>3. Permits!BuildRoles(J, u)
        = {[id |-> r, menus |-> Permits!Hierarchy(J, "menu", r), scopes |-> Permits!BuildScopes(J, r)] : r \in Own}
  BY <1>1 DEF Permits!BuildRoles
<1>4. Permits!BuildRoles(J, u) = {[id |-> r, menus |-> Shows(rows, r), scopes |-> Limits(rows, r)] : r \in Own}
  BY <1>2, <1>3
<1> QED
  BY <1>4 DEF Permits!Serialized, Permits!Linked, J, Own, Shows, Limits, Has, Follows

-----------------------------------------------------------------------------
(* A copy that was not loaded across a change, and changes under way.      *)

RowsView(u) == Permits!ViewOf(db, u, Permits!Linked(db, u))
Fresh(u) == cache[u].kept /\ ~mixed[u] /\ ~missed[u]
\* The changes that have looked up whose copies they clear.
Ahead(c) == change[c].pc \in {"clear", "commit"}

ChangeTypes ==
    /\ change = [c \in Changes |-> change[c]]
    /\ \A c \in Changes :
           change[c] = [pc |-> "free"]
           \/ change[c] \in [pc : {"write", "look", "clear", "commit"}, request : Permits!Requests,
                             holders : {change[c].holders}]
CopyTypes ==
    /\ cache = [u \in Users |-> cache[u]] /\ mixed \in [Users -> BOOLEAN] /\ missed \in [Users -> BOOLEAN]
    /\ load = [l \in Loads |-> load[l]]
    /\ \A l \in Loads :
           load[l] = Permits!NoLoad
           \/ load[l] \in [user : Users, view : {load[l].view}, mixed : BOOLEAN]

\* A change that has looked up the holders does not concern who has a copy
\* that it is not about to clear.
Spares(c, u) ==
    change[c].request.what \notin {"dept", "menuDelete"} =>
        \/ change[c].pc = "clear" /\ u \in change[c].holders
        \/ u \notin Permits!Holders(db, change[c].request)

ViewInv == \A u \in Users : Fresh(u) => cache[u] = RowsView(u)
SpareInv == \A u \in Users, c \in Changes : Fresh(u) /\ Ahead(c) => Spares(c, u)
LoadInv ==
    \A l \in Loads : load[l] # Permits!NoLoad /\ ~load[l].mixed =>
        load[l].view = RowsView(load[l].user) /\ \A c \in Changes : ~Ahead(c)

PermInv == RowsOK(db) /\ ChangeTypes /\ CopyTypes /\ ViewInv /\ SpareInv /\ LoadInv

LEMMA PermSelect ==
    ASSUME PermInv, NEW l \in Loads, NEW u \in Users, Permits!Select(l, u)
    PROVE  PermInv'
<1> DEFINE new == [user |-> u, view |-> Permits!View(db, u),
                   mixed |-> \E c \in Changes : change[c].pc \in {"clear", "commit"}]
<1>1. UNCHANGED <<db, change, cache, altered, mixed, missed>> /\ load' = [load EXCEPT ![l] = new]
  BY DEF Permits!Select
<1>2. Permits!View(db, u) = RowsView(u)
  BY FoldsBack DEF PermInv, Permits!View, RowsView
<1>3. /\ new.user = u /\ new.view = RowsView(u) /\ new.mixed \in BOOLEAN
      /\ new \in [user : Users, view : {new.view}, mixed : BOOLEAN]
      /\ ~new.mixed => \A c \in Changes : ~Ahead(c)
  BY <1>2 DEF Ahead
<1>4. PICK n : n = new
  OBVIOUS
<1> HIDE DEF new
<1>5. load' = [k \in Loads |-> load'[k]] /\ load'[l] = n /\ \A k \in Loads \ {l} : load'[k] = load[k]
  BY <1>1, <1>4 DEF PermInv, CopyTypes
<1>6. CopyTypes'
  BY <1>1, <1>3, <1>4, <1>5 DEF PermInv, CopyTypes, Permits!NoLoad, Permits!NoView
<1>7. \A v \in Users : RowsView(v)' = RowsView(v)
  BY <1>1 DEF RowsView
<1>8. LoadInv'
  <2>1. ASSUME NEW k \in Loads, load'[k] # Permits!NoLoad, ~load'[k].mixed
        PROVE  load'[k].view = RowsView(load'[k].user) /\ \A c \in Changes : ~Ahead(c)
    BY <1>3, <1>4, <1>5, <2>1 DEF PermInv, LoadInv
  <2> QED
    BY <1>1, <2>1 DEF LoadInv, Ahead, RowsView, Permits!NoLoad, Permits!NoView
<1> QED
  BY <1>1, <1>6, <1>8 DEF PermInv, ViewInv, SpareInv, Fresh, Ahead, Spares, ChangeTypes, RowsView

LEMMA PermFill ==
    ASSUME PermInv, NEW l \in Loads, Permits!Fill(l)
    PROVE  PermInv'
<1>0. PICK u : u = load[l].user
  OBVIOUS
<1>1. /\ UNCHANGED <<db, change, altered>> /\ load[l] # Permits!NoLoad
      /\ cache' = [cache EXCEPT ![u] = load[l].view]
      /\ mixed' = [mixed EXCEPT ![u] = load[l].mixed]
      /\ missed' = [missed EXCEPT ![u] = FALSE]
      /\ load' = [load EXCEPT ![l] = Permits!NoLoad]
  BY <1>0 DEF Permits!Fill
<1>2. u \in Users /\ load[l].mixed \in BOOLEAN
  BY <1>0, <1>1 DEF PermInv, CopyTypes
<1>3. /\ cache' = [v \in Users |-> cache'[v]] /\ mixed' \in [Users -> BOOLEAN] /\ missed' \in [Users -> BOOLEAN]
      /\ cache'[u] = load[l].view /\ mixed'[u] = load[l].mixed /\ ~missed'[u]
      /\ \A v \in Users \ {u} : cache'[v] = cache[v] /\ mixed'[v] = mixed[v] /\ missed'[v] = missed[v]
  BY <1>1, <1>2 DEF PermInv, CopyTypes
<1>4. load' = [k \in Loads |-> load'[k]] /\ load'[l] = Permits!NoLoad /\ \A k \in Loads \ {l} : load'[k] = load[k]
  BY <1>1 DEF PermInv, CopyTypes
<1>5. CopyTypes'
  BY <1>3, <1>4 DEF PermInv, CopyTypes, Permits!NoLoad, Permits!NoView
<1>6. ~mixed'[u] => cache'[u] = RowsView(u) /\ \A c \in Changes : ~Ahead(c)
  BY <1>0, <1>1, <1>3 DEF PermInv, LoadInv
<1>7. ASSUME NEW v \in Users, Fresh(v)' PROVE cache'[v] = RowsView(v) /\ \A c \in Changes : Ahead(c) => Spares(c, v)
  <2>1. CASE v = u
    BY <1>6, <1>7, <2>1 DEF Fresh
  <2>2. CASE v # u
    BY <1>3, <1>7, <2>2 DEF PermInv, ViewInv, SpareInv, Fresh
  <2> QED
    BY <2>1, <2>2
<1>8. ViewInv' /\ SpareInv'
  BY <1>1, <1>7 DEF ViewInv, SpareInv, RowsView, Ahead, Spares
<1>9. LoadInv'
  <2>1. ASSUME NEW k \in Loads, load'[k] # Permits!NoLoad, ~load'[k].mixed
        PROVE  load'[k].view = RowsView(load'[k].user) /\ \A c \in Changes : ~Ahead(c)
    BY <1>4, <2>1 DEF PermInv, LoadInv
  <2> QED
    BY <1>1, <2>1 DEF LoadInv, Ahead, RowsView, Permits!NoLoad, Permits!NoView
<1> QED
  BY <1>1, <1>5, <1>8, <1>9 DEF PermInv, ChangeTypes

\* What removes copies, and lets the changes that have looked up go on.
LEMMA PermClears ==
    ASSUME PermInv, UNCHANGED <<db, load, mixed, missed>>, ChangeTypes',
           cache' = [u \in Users |-> cache'[u]],
           \A u \in Users : cache'[u] = cache[u] \/ cache'[u] = Permits!NoView,
           \A c \in Changes : Ahead(c)' => Ahead(c),
           \A c \in Changes, u \in Users : Ahead(c)' /\ Fresh(u)' /\ Spares(c, u) => Spares(c, u)'
    PROVE  PermInv'
<1>1. \A u \in Users : Fresh(u)' => cache'[u] = cache[u] /\ Fresh(u)
  BY DEF Fresh, Permits!NoView
<1>2. ViewInv'
  BY <1>1 DEF PermInv, ViewInv, RowsView
<1>3. SpareInv'
  BY <1>1 DEF PermInv, SpareInv
<1>4. LoadInv'
  <2>1. ASSUME NEW k \in Loads, load[k] # Permits!NoLoad, ~load[k].mixed
        PROVE  load[k].view = RowsView(load[k].user) /\ \A c \in Changes : ~Ahead(c)'
    BY <2>1 DEF PermInv, LoadInv
  <2> QED
    BY <2>1 DEF LoadInv, RowsView, Permits!NoLoad, Permits!NoView
<1>5. CopyTypes'
  BY DEF PermInv, CopyTypes, Permits!NoLoad, Permits!NoView
<1> QED
  BY <1>2, <1>3, <1>4, <1>5 DEF PermInv

LEMMA PermExpire ==
    ASSUME PermInv, NEW u \in Users, Permits!Expire(u)
    PROVE  PermInv'
<1>1. UNCHANGED <<db, change, load, mixed, missed>> /\ cache' = [cache EXCEPT ![u] = Permits!NoView]
  BY DEF Permits!Expire
<1>2. cache' = [v \in Users |-> cache'[v]] /\ \A v \in Users : cache'[v] = cache[v] \/ cache'[v] = Permits!NoView
  BY <1>1 DEF PermInv, CopyTypes
<1>3. ChangeTypes' /\ \A c \in Changes : Ahead(c)' <=> Ahead(c)
  BY <1>1 DEF PermInv, ChangeTypes, Ahead
<1>4. \A c \in Changes, v \in Users : Spares(c, v) => Spares(c, v)'
  BY <1>1 DEF Spares
<1> QED
  BY <1>1, <1>2, <1>3, <1>4, PermClears

\* A change begins, writes its rows or is rolled back.
LEMMA PermPasses ==
    ASSUME PermInv, NEW c \in Changes,
           (\E request \in Permits!Requests : Permits!Begin(c, request)) \/ Permits!WriteRows(c) \/ Permits!Rollback(c)
    PROVE  PermInv'
<1>1. UNCHANGED <<db, cache, load, mixed, missed>>
  BY DEF Permits!Begin, Permits!WriteRows, Permits!Rollback
<1>2. change' = [d \in Changes |-> change'[d]] /\ \A d \in Changes \ {c} : change'[d] = change[d]
  BY DEF Permits!Begin, Permits!WriteRows, Permits!Rollback, PermInv, ChangeTypes
<1>3. /\ \/ change'[c] = [pc |-> "free"]
         \/ change'[c] \in [pc : {"write", "look", "clear", "commit"}, request : Permits!Requests,
                            holders : {change'[c].holders}]
      /\ change'[c].pc \notin {"clear", "commit"}
  <2>1. CASE Permits!Rollback(c)
    BY <2>1 DEF Permits!Rollback, Permits!NoChange, PermInv, ChangeTypes
  <2>2. CASE Permits!WriteRows(c)
    BY <2>2 DEF Permits!WriteRows, PermInv, ChangeTypes
  <2>3. CASE \E request \in Permits!Requests : Permits!Begin(c, request)
    BY <2>3 DEF Permits!Begin, PermInv, ChangeTypes
  <2> QED
    BY <2>1, <2>2, <2>3
<1>4. ChangeTypes'
  BY <1>2, <1>3 DEF PermInv, ChangeTypes
<1>5. \A d \in Changes : Ahead(d)' => d # c /\ Ahead(d)
  BY <1>2, <1>3 DEF Ahead
<1>6. \A d \in Changes, v \in Users : Ahead(d)' /\ Spares(d, v) => Spares(d, v)'
  BY <1>1, <1>2, <1>5 DEF Spares
<1>7. cache' = [v \in Users |-> cache'[v]] /\ \A v \in Users : cache'[v] = cache[v]
  BY <1>1 DEF PermInv, CopyTypes
<1> QED
  BY <1>1, <1>4, <1>5, <1>6, <1>7, PermClears
\* A change looks up whose copies it must clear, when it has written.
LEMMA PermLookUp ==
    ASSUME PermInv, NEW c \in Changes, Permits!LookUp(c)
    PROVE  PermInv'
<1>0. PICK q, h : q = change[c].request /\ h = Permits!Holders(Permits!Write(db, q), q)
  OBVIOUS
<1>1. /\ UNCHANGED <<db, cache, altered, mixed, missed>> /\ change[c].pc = "look"
      /\ change' = [change EXCEPT ![c].pc = "clear", ![c].holders = h]
      /\ load' = [l \in Loads |-> IF load[l] = Permits!NoLoad THEN Permits!NoLoad ELSE [load[l] EXCEPT !.mixed = TRUE]]
  BY <1>0 DEF Permits!LookUp
<1>2. /\ change' = [d \in Changes |-> change'[d]] /\ \A d \in Changes \ {c} : change'[d] = change[d]
      /\ change'[c].pc = "clear" /\ change'[c].request = q /\ change'[c].holders = h /\ q \in Permits!Requests
      /\ change'[c] \in [pc : {"write", "look", "clear", "commit"}, request : Permits!Requests,
                         holders : {change'[c].holders}]
  <2>1. /\ change' = [d \in Changes |-> change'[d]] /\ \A d \in Changes \ {c} : change'[d] = change[d]
        /\ change'[c] = [change[c] EXCEPT !.pc = "clear", !.holders = h]
    BY <1>1 DEF PermInv, ChangeTypes
  <2>2. change[c] \in [pc : {"write", "look", "clear", "commit"}, request : Permits!Requests,
                        holders : {change[c].holders}]
    BY <1>1 DEF PermInv, ChangeTypes
  <2>3. q \in Permits!Requests /\ change'[c].pc = "clear" /\ change'[c].request = q /\ change'[c].holders = h
    BY <1>0, <2>1, <2>2
  <2>4. change'[c] \in [pc : {"write", "look", "clear", "commit"}, request : Permits!Requests, holders : {h}]
    BY <2>1, <2>2
  <2> QED
    BY <2>1, <2>3, <2>4
<1>3. ChangeTypes'
  BY <1>2 DEF PermInv, ChangeTypes
<1>4. /\ load' = [l \in Loads |-> load'[l]]
      /\ \A l \in Loads : load'[l] = Permits!NoLoad
                          \/ (load'[l].mixed /\ load'[l] \in [user : Users, view : {load'[l].view}, mixed : BOOLEAN])
  BY <1>1 DEF PermInv, CopyTypes
<1>5. CopyTypes'
  BY <1>1, <1>4 DEF PermInv, CopyTypes, Permits!NoLoad, Permits!NoView
<1>6. LoadInv'
  BY <1>4 DEF LoadInv, Permits!NoLoad, Permits!NoView
<1>7. ViewInv'
  BY <1>1 DEF PermInv, ViewInv, Fresh, RowsView
<1>8. SpareInv'
  <2>1. ASSUME NEW u \in Users, NEW d \in Changes, Fresh(u)', Ahead(d)' PROVE Spares(d, u)'
    <3>1. Fresh(u)
      BY <1>1, <2>1 DEF Fresh
    <3>2. CASE d = c
      <4>1. q.what \notin {"dept", "menuDelete"} => h = Permits!Holders(db, q)
        BY <1>0, <1>2, HoldersWritten DEF PermInv
      <4> QED
        BY <1>1, <1>2, <3>2, <4>1 DEF Spares
    <3>3. CASE d # c
      <4>1. Spares(d, u)
        BY <1>2, <2>1, <3>1, <3>3 DEF PermInv, SpareInv, Ahead
      <4> QED
        BY <1>1, <1>2, <3>3, <4>1 DEF Spares
    <3> QED
      BY <3>2, <3>3
  <2> QED
    BY <2>1 DEF SpareInv
<1> QED
  BY <1>1, <1>3, <1>5, <1>6, <1>7, <1>8 DEF PermInv

LEMMA PermClear ==
    ASSUME PermInv, NEW c \in Changes, Permits!Clear(c)
    PROVE  PermInv'
<1>1. /\ UNCHANGED <<db, load, altered, mixed, missed>> /\ change[c].pc = "clear"
      /\ cache' = [u \in Users |-> IF u \in change[c].holders THEN Permits!NoView ELSE cache[u]]
      /\ change' = [change EXCEPT ![c].pc = "commit"]
  BY DEF Permits!Clear
<1>2. /\ change' = [d \in Changes |-> change'[d]] /\ \A d \in Changes \ {c} : change'[d] = change[d]
      /\ change'[c].pc = "commit" /\ change'[c].request = change[c].request
      /\ change'[c] \in [pc : {"write", "look", "clear", "commit"}, request : Permits!Requests,
                         holders : {change'[c].holders}]
  BY <1>1 DEF PermInv, ChangeTypes
<1>3. ChangeTypes'
  BY <1>2 DEF PermInv, ChangeTypes
<1>4. /\ cache' = [u \in Users |-> cache'[u]]
      /\ \A u \in Users : cache'[u] = cache[u] \/ cache'[u] = Permits!NoView
      /\ \A u \in Users : u \in change[c].holders => cache'[u] = Permits!NoView
  BY <1>1
<1>5. \A d \in Changes : Ahead(d)' => Ahead(d)
  BY <1>1, <1>2 DEF Ahead
<1>6. ASSUME NEW d \in Changes, NEW u \in Users, Fresh(u)', Spares(d, u) PROVE Spares(d, u)'
  <2>1. CASE d # c
    BY <1>1, <1>2, <1>6, <2>1 DEF Spares
  <2>2. CASE d = c
    <3>1. u \notin change[c].holders
      BY <1>4, <1>6 DEF Fresh, Permits!NoView
    <3> QED
      BY <1>1, <1>2, <1>6, <2>2, <3>1 DEF Spares
  <2> QED
    BY <2>1, <2>2
<1> QED
  BY <1>1, <1>3, <1>4, <1>5, <1>6, PermClears

\* Who still has a copy when the change commits is not concerned by it.
LEMMA PermCommit ==
    ASSUME PermInv, NEW c \in Changes, Permits!Commit(c)
    PROVE  PermInv'
<1>0. PICK q, new : q = change[c].request /\ new = Permits!Write(db, q)
  OBVIOUS
<1>1. /\ UNCHANGED <<cache, load, altered, mixed>> /\ change[c].pc = "commit"
      /\ db' = new /\ change' = [change EXCEPT ![c] = [pc |-> "free"]]
      /\ missed' = [u \in Users |-> missed[u] \/ (cache[u].kept /\ q.what \in {"dept", "menuDelete"})]
  BY <1>0 DEF Permits!Commit, Permits!NoChange
<1>2. /\ q \in Permits!Requests /\ RowsOK(db) /\ RowsOK(new)
      /\ \A u : Apart(db, q, u) /\ q.what \notin {"dept", "menuDelete"} => SameFor(db, new, u)
  <2>1. q \in Permits!Requests /\ RowsOK(db)
    BY <1>0, <1>1 DEF PermInv, ChangeTypes
  <2> QED
    BY <1>0, <2>1, WriteKeeps
<1>3. /\ change' = [d \in Changes |-> change'[d]] /\ \A d \in Changes \ {c} : change'[d] = change[d]
      /\ change'[c] = [pc |-> "free"] /\ change'[c].pc = "free"
  BY <1>1 DEF PermInv, ChangeTypes
<1>4. ChangeTypes'
  BY <1>3 DEF PermInv, ChangeTypes
<1>5. CopyTypes'
  <2>1. missed' \in [Users -> BOOLEAN]
    BY <1>1 DEF PermInv, CopyTypes
  <2> QED
    BY <1>1, <2>1 DEF PermInv, CopyTypes, Permits!NoLoad, Permits!NoView
<1>6. ASSUME NEW u \in Users, Fresh(u)'
      PROVE  Fresh(u) /\ SameFor(db, new, u)
  <2>1. Fresh(u) /\ q.what \notin {"dept", "menuDelete"}
    BY <1>1, <1>6 DEF Fresh
  <2>2. Spares(c, u)
    BY <1>1, <2>1 DEF PermInv, SpareInv, Ahead
  <2>3. Apart(db, q, u)
    BY <1>0, <1>1, <2>1, <2>2 DEF Spares, Apart
  <2> QED
    BY <1>2, <2>1, <2>3
<1>7. ASSUME NEW u \in Users, Fresh(u)' PROVE cache'[u] = RowsView(u)'
  <2>1. Fresh(u) /\ SameFor(db, new, u)
    BY <1>6, <1>7
  <2>2. RowsView(u)' = Permits!ViewOf(new, u, Permits!Linked(new, u))
    BY <1>1 DEF RowsView
  <2>3. RowsView(u)' = RowsView(u)
    BY <1>2, <2>1, <2>2, SameView DEF RowsView
  <2>4. cache[u] = RowsView(u)
    BY <2>1 DEF PermInv, ViewInv
  <2> QED
    BY <1>1, <2>3, <2>4
<1>8. ASSUME NEW u \in Users, NEW d \in Changes, Fresh(u)', Ahead(d)' PROVE Spares(d, u)'
  <2>1. Fresh(u) /\ SameFor(db, new, u)
    BY <1>6, <1>8
  <2>2. d # c /\ Ahead(d) /\ change'[d] = change[d]
    BY <1>3, <1>8 DEF Ahead
  <2>3. Spares(d, u)
    BY <2>1, <2>2 DEF PermInv, SpareInv
  <2>4. change[d].request \in Permits!Requests
    BY <2>2 DEF PermInv, ChangeTypes, Ahead
  <2>5. u \in Permits!Holders(new, change[d].request) <=> u \in Permits!Holders(db, change[d].request)
    BY <2>1, <2>4, SameHolders
  <2> QED
    BY <1>1, <2>2, <2>3, <2>5 DEF Spares
<1>9. LoadInv'
  <2>1. \A l \in Loads : load[l] = Permits!NoLoad \/ load[l].mixed
    BY <1>1 DEF PermInv, LoadInv, Ahead
  <2> QED
    BY <1>1, <2>1 DEF LoadInv, Permits!NoLoad, Permits!NoView
<1> QED
  BY <1>1, <1>2, <1>4, <1>5, <1>7, <1>8, <1>9 DEF PermInv, ViewInv, SpareInv

LEMMA PermNext == PermInv /\ [Permits!Next]_permitVars => PermInv'
<1> SUFFICES ASSUME PermInv, [Permits!Next]_permitVars PROVE PermInv'
  OBVIOUS
<1>1. ASSUME NEW l \in Loads, (\E u \in Users : Permits!Select(l, u)) \/ Permits!Fill(l) PROVE PermInv'
  BY <1>1, PermSelect, PermFill
<1>2. ASSUME NEW u \in Users, Permits!Expire(u) PROVE PermInv'
  BY <1>2, PermExpire
<1>3. ASSUME NEW c \in Changes,
             \/ \E request \in Permits!Requests : Permits!Begin(c, request)
             \/ Permits!WriteRows(c) \/ Permits!LookUp(c) \/ Permits!Clear(c) \/ Permits!Commit(c) \/ Permits!Rollback(c)
      PROVE  PermInv'
  <2>1. CASE (\E request \in Permits!Requests : Permits!Begin(c, request)) \/ Permits!WriteRows(c) \/ Permits!Rollback(c)
    BY <2>1, PermPasses
  <2> QED
    BY <1>3, <2>1, PermLookUp, PermClear, PermCommit
<1>4. CASE UNCHANGED permitVars
  <2>1. UNCHANGED <<db, change, cache, load, altered, mixed, missed>>
    BY <1>4 DEF permitVars
  <2>2. ChangeTypes' /\ \A c \in Changes : Ahead(c)' <=> Ahead(c)
    BY <2>1 DEF PermInv, ChangeTypes, Ahead
  <2>3. cache' = [v \in Users |-> cache'[v]]
    BY <2>1 DEF PermInv, CopyTypes
  <2>4. \A c \in Changes, v \in Users : Spares(c, v) => Spares(c, v)'
    BY <2>1 DEF Spares
  <2> QED
    BY <2>1, <2>2, <2>3, <2>4, PermClears
<1> QED
  BY <1>1, <1>2, <1>3, <1>4 DEF Permits!Next

LEMMA PermInit == Permits!Init /\ Roles # {} /\ Menus # {} => PermInv
<1> SUFFICES ASSUME Permits!Init, Roles # {}, Menus # {} PROVE PermInv
  OBVIOUS
<1> DEFINE r0 == CHOOSE r \in Roles : TRUE
           m0 == CHOOSE m \in Menus : TRUE
<1>1. r0 \in Roles /\ m0 \in Menus
  OBVIOUS
<1> HIDE DEF r0, m0
<1>2. db = [super |-> [u \in Users |-> FALSE], staff |-> [u \in Users |-> TRUE],
            dept |-> TRUE,
            roles |-> Roles, roleOn |-> [r \in Roles |-> TRUE], filters |-> [r \in Roles |-> TRUE],
            menus |-> Menus, menuOn |-> [m \in Menus |-> TRUE],
            scopes |-> Scopes, scopeOn |-> [s \in Scopes |-> TRUE],
            rules |-> Rules, version |-> [d \in Rules |-> 0],
            userRole |-> Users \X {r0}, roleMenu |-> Roles \X {m0},
            roleScope |-> Roles \X Scopes, scopeRule |-> Scopes \X Rules]
  BY DEF Permits!Init, Permits!FirstRows, r0, m0
<1>3. RowsOK(db)
  BY <1>1, <1>2 DEF RowsOK
<1>4. ChangeTypes /\ CopyTypes
  BY DEF Permits!Init, ChangeTypes, CopyTypes, Permits!NoChange
<1>5. \A u \in Users : ~Fresh(u)
  BY DEF Permits!Init, Fresh, Permits!NoView
<1>6. LoadInv
  BY DEF Permits!Init, LoadInv
<1> QED
  BY <1>3, <1>4, <1>5, <1>6 DEF PermInv, ViewInv, SpareInv

\* A copy of a user, folded back from the joined rows, decides what the
\* committed rows and links decide, unless it was loaded across a change or
\* outlived one of those that clear no copy, whatever the rows are and however
\* many loads and changes interleave.
THEOREM CopiesAlwaysDecide ==
    ASSUME Roles # {}, Menus # {}
    PROVE  AccountsSpec => []CopiesDecideAsRows
<1>1. AccountsInit => PermInv
  BY PermInit DEF AccountsInit
<1>2. PermInv /\ [AccountsNext]_<<part, guardVars, signUpVars, passwordVars, permitVars>> => PermInv'
  BY PermNext DEF AccountsNext
<1>3. PermInv => CopiesDecideAsRows
  BY DEF PermInv, ViewInv, RowsView, Fresh, CopiesDecideAsRows, Permits!CopiesDecideAsRows
<1> QED
  BY <1>1, <1>2, <1>3, PTL DEF AccountsSpec

=============================================================================
