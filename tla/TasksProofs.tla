---------------------------- MODULE TasksProofs ----------------------------
(***************************************************************************)
(* Proofs about the two halves of app/task that MCTasks runs: who of the   *)
(* beats ticks, what the beat on duty and the row know of the runs, which  *)
(* changes reach a schedule, and what the row of a task tells of it.       *)
(***************************************************************************)
EXTENDS MCTasks, TLAPS

-----------------------------------------------------------------------------
(* Types.                                                                  *)

IsEntry(r) ==
    /\ r \in [version : {r.version}, enabled : {r.enabled}, once : {r.once}, count : {r.count}, last : {r.last}]
    /\ r.version \in Int /\ r.enabled \in BOOLEAN /\ r.count \in Int

BeatTypes ==
    /\ now \in Nat /\ runs \in Nat /\ stamping \in Nat /\ stamp \in Int
    /\ runs > 0 => ranAt \in Nat
    /\ IsEntry(row) /\ row.version \in Nat
    /\ change = NoRow \/ change \in [version : Nat, enabled : BOOLEAN]
    /\ lock = Free \/ lock \in [owner : Beats, left : Nat \ {0}]
    /\ pc \in [Beats -> {"down", "install", "waiting", "idle", "look", "due", "reload", "pop", "save", "closed"}]
    /\ plan = [b \in Beats |-> plan[b]]
    /\ \A b \in Beats : IsEntry(plan[b]) /\ (plan[b] = NoEntry \/ plan[b].version \in Nat)
    /\ dirty \in [Beats -> BOOLEAN] /\ checked \in [Beats -> Int]
    /\ return \in [Beats -> {"idle", "reload", "closed"}]
    /\ upset \in BOOLEAN /\ blind \in BOOLEAN

\* Where a save goes on.
ReturnsInv ==
    \A b \in Beats :
        /\ return[b] = "closed" => pc[b] \in {"pop", "save", "closed"}
        /\ pc[b] = "closed" => return[b] = "closed"
        /\ return[b] = "reload" => pc[b] \in {"pop", "save"}

-----------------------------------------------------------------------------
(* One beat ticks.                                                         *)

TickInv == \A b \in Beats : Ticking(b) => lock.owner = b \/ b \in late \/ return[b] = "closed"

-----------------------------------------------------------------------------
(* The runs are counted.                                                   *)

Serves(b) == pc[b] \notin Outside

\* Until something happens that can lose a run, one beat serves at most: it
\* holds the lock, or is closing and has released it.
DutyInv ==
    /\ \A b \in Beats : Serves(b) =>
           \/ lock.owner = b /\ return[b] # "closed"
           \/ lock = Free /\ return[b] = "closed"
    /\ \A b, c \in Beats : Serves(b) /\ Serves(c) => b = c
    /\ \A b \in Beats : lock.owner = b => Serves(b)

\* What is not saved yet is dirty, or being saved.
DirtyInv ==
    \A b \in Beats :
        /\ pc[b] = "pop" => dirty[b]
        /\ pc[b] \in {"reload", "save", "closed", "down", "install", "waiting"} => ~dirty[b]
        /\ dirty[b] \/ pc[b] \in {"pop", "save"} => plan[b] # NoEntry

KnownInv ==
    /\ (\A b \in Beats : ~Serves(b)) => Current(row)
    /\ \A b \in Beats : Serves(b) =>
           /\ plan[b] # NoEntry => Current(plan[b])
           /\ ~dirty[b] /\ pc[b] # "save" => Current(row)

CountInv == ~upset => DutyInv /\ DirtyInv /\ KnownInv

-----------------------------------------------------------------------------
(* Changes are seen.                                                       *)

UpToDate(b) == IF row.enabled THEN plan[b].version = row.version ELSE plan[b] = NoEntry
Quiet == ~blind /\ change = NoRow /\ stamping = 0

\* A beat that has started knows the row, or its next look will tell it to
\* read it, or it is about to.
SeenInv ==
    /\ stamp <= Second(now)
    /\ change # NoRow /\ stamping = 0 => blind
    /\ stamp = Never => \A b \in Beats : pc[b] = "down"
    /\ looked \subseteq Beats /\ \A b \in looked : checked[b] >= stamp /\ pc[b] # "down"
    /\ Quiet => \A b \in Beats :
           \/ pc[b] = "down" \/ UpToDate(b) \/ stamp > checked[b] \/ pc[b] = "reload"
           \/ pc[b] \in {"pop", "save"} /\ return[b] = "reload"

BeatInv == BeatTypes /\ ReturnsInv /\ TickInv /\ CountInv /\ SeenInv

-----------------------------------------------------------------------------
(* The moments of a second, and what a schedule reads.                     *)

LEMMA SecondsGoOn ==
    ASSUME NEW t \in Nat
    PROVE  /\ Second(t) \in Nat /\ Second(t) <= t
           /\ Second(t) <= Second(t + 1)
<1> DEFINE q == t \div PerSecond
           r == (t + 1) \div PerSecond
<1>p. PerSecond \in Nat /\ PerSecond > 0
    BY BeatAssumption
<1>1. q \in Nat /\ r \in Nat
    BY <1>p
<1>2. q * PerSecond <= t
    BY <1>p
<1>3. q <= r
    BY <1>p
<1>4. Second(t) = q * PerSecond /\ Second(t + 1) = r * PerSecond
    BY DEF Second
<1> HIDE DEF q, r
<1>5. q * PerSecond \in Nat
    BY <1>p, <1>1
<1>6. q * PerSecond <= r * PerSecond
    BY <1>p, <1>1, <1>3
<1> QED
    BY <1>2, <1>4, <1>5, <1>6

\* What Load makes of the row.
LEMMA LoadReads ==
    ASSUME BeatTypes, NEW b \in Beats, Load(b)
    PROVE  /\ plan' = [c \in Beats |-> plan'[c]]
           /\ \A c \in Beats : c # b => plan'[c] = plan[c]
           /\ IsEntry(plan'[b])
           /\ row.enabled => /\ plan'[b].version = row.version /\ plan'[b].count = row.count
                             /\ row.last # Never => plan'[b].last = row.last
                             /\ plan'[b] # NoEntry
           /\ ~row.enabled => plan'[b] = NoEntry
<1> DEFINE e == [row EXCEPT !.last = LastRun(row)]
<1>1. plan' = [plan EXCEPT ![b] = IF row.enabled THEN e ELSE NoEntry]
    BY DEF Load, EntryOf
<1>r. row.version \in Nat /\ row.enabled \in BOOLEAN /\ row.count \in Int
      /\ row \in [version : {row.version}, enabled : {row.enabled}, once : {row.once}, count : {row.count}, last : {row.last}]
    BY DEF BeatTypes, IsEntry
<1>2. /\ e \in [version : {e.version}, enabled : {e.enabled}, once : {e.once}, count : {e.count}, last : {e.last}]
      /\ e.version = row.version /\ e.enabled = row.enabled /\ e.count = row.count /\ e.last = LastRun(row)
    BY <1>r
<1>3. row.last # Never => LastRun(row) = row.last
    BY DEF LastRun
<1>4. IsEntry(NoEntry)
    BY DEF NoEntry, IsEntry, Never
<1>5. NoEntry.version = -1
    BY DEF NoEntry, Never
<1>6. plan = [c \in Beats |-> plan[c]]
    BY DEF BeatTypes
<1> HIDE DEF e
<1>7. IsEntry(e) /\ (row.enabled => e # NoEntry)
    BY <1>2, <1>r, <1>5 DEF IsEntry
<1>8. plan'[b] = (IF row.enabled THEN e ELSE NoEntry)
      /\ plan' = [c \in Beats |-> plan'[c]] /\ \A c \in Beats : c # b => plan'[c] = plan[c]
    BY <1>1, <1>6
<1> QED
    BY <1>2, <1>3, <1>4, <1>7, <1>8

-----------------------------------------------------------------------------
(* The types, and where a save goes on.                                    *)

\* The fields of a row or an entry.
RowIs(r, v, e, k, t) == IsEntry(r) /\ r.version = v /\ r.enabled = e /\ r.count = k /\ r.last = t

LEMMA ChangedRow ==
    ASSUME NEW r, IsEntry(r), NEW v \in Int, NEW e \in BOOLEAN, NEW s, s = [r EXCEPT !.version = v, !.enabled = e]
    PROVE  RowIs(s, v, e, r.count, r.last)
<1>1. s \in [version : {s.version}, enabled : {s.enabled}, once : {s.once}, count : {s.count}, last : {s.last}]
    BY DEF IsEntry
<1>2. s.version = v /\ s.count = r.count
    BY DEF IsEntry
<1>3. s.enabled = e /\ s.last = r.last
    BY DEF IsEntry
<1>4. s.version \in Int /\ s.enabled \in BOOLEAN /\ s.count \in Int
  <2>1. r.version \in Int /\ r.enabled \in BOOLEAN /\ r.count \in Int
      BY DEF IsEntry
  <2> QED
      BY <1>2, <1>3, <2>1, Zenon
<1> QED
    BY <1>1, <1>2, <1>3, <1>4, Zenon DEF IsEntry, RowIs

LEMMA FirstRow ==
    ASSUME NEW r, IsEntry(r), NEW v \in Int, NEW s, s = [r EXCEPT !.version = v, !.enabled = TRUE, !.count = 0, !.last = Never]
    PROVE  RowIs(s, v, TRUE, 0, Never)
<1>1. s \in [version : {s.version}, enabled : {s.enabled}, once : {s.once}, count : {s.count}, last : {s.last}]
    BY DEF IsEntry
<1>2. s.version = v /\ s.count = 0
    BY DEF IsEntry
<1>3. s.enabled = TRUE /\ s.last = Never
    BY DEF IsEntry
<1>4. s.version \in Int /\ s.enabled \in BOOLEAN /\ s.count \in Int
  <2>1. r.version \in Int /\ r.enabled \in BOOLEAN /\ r.count \in Int
      BY DEF IsEntry
  <2> QED
      BY <1>2, <1>3, <2>1
<1> QED
    BY <1>1, <1>2, <1>3, <1>4, Zenon DEF IsEntry, RowIs

LEMMA SavedRow ==
    ASSUME NEW r, IsEntry(r), NEW k \in Int, NEW t, NEW s, s = [r EXCEPT !.count = k, !.last = t]
    PROVE  RowIs(s, r.version, r.enabled, k, t)
<1>1. s \in [version : {s.version}, enabled : {s.enabled}, once : {s.once}, count : {s.count}, last : {s.last}]
    BY DEF IsEntry
<1>2. s.version = r.version /\ s.count = k
    BY DEF IsEntry
<1>3. s.enabled = r.enabled /\ s.last = t
    BY DEF IsEntry
<1>4. s.version \in Int /\ s.enabled \in BOOLEAN /\ s.count \in Int
  <2>1. r.version \in Int /\ r.enabled \in BOOLEAN /\ r.count \in Int
      BY DEF IsEntry
  <2> QED
      BY <1>2, <1>3, <2>1, Zenon
<1> QED
    BY <1>1, <1>2, <1>3, <1>4, Zenon DEF IsEntry, RowIs

LEMMA RetiredRow ==
    ASSUME NEW r, IsEntry(r), NEW t, NEW s, s = [r EXCEPT !.enabled = FALSE, !.count = 0, !.last = t]
    PROVE  RowIs(s, r.version, FALSE, 0, t)
<1>1. s \in [version : {s.version}, enabled : {s.enabled}, once : {s.once}, count : {s.count}, last : {s.last}]
    BY DEF IsEntry
<1>2. s.version = r.version /\ s.count = 0
    BY DEF IsEntry
<1>3. s.enabled = FALSE /\ s.last = t
    BY DEF IsEntry
<1>4. s.version \in Int /\ s.enabled \in BOOLEAN /\ s.count \in Int
  <2>1. r.version \in Int /\ r.enabled \in BOOLEAN /\ r.count \in Int
      BY DEF IsEntry
  <2> QED
      BY <1>2, <1>3, <2>1
<1> QED
    BY <1>1, <1>2, <1>3, <1>4, Zenon DEF IsEntry, RowIs

LEMMA RetiredEntry ==
    ASSUME NEW r, IsEntry(r), NEW s, s = [r EXCEPT !.enabled = FALSE, !.count = 0]
    PROVE  RowIs(s, r.version, FALSE, 0, r.last)
<1>1. s \in [version : {s.version}, enabled : {s.enabled}, once : {s.once}, count : {s.count}, last : {s.last}]
    BY DEF IsEntry
<1>2. s.version = r.version /\ s.count = 0
    BY DEF IsEntry
<1>3. s.enabled = FALSE /\ s.last = r.last
    BY DEF IsEntry
<1>4. s.version \in Int /\ s.enabled \in BOOLEAN /\ s.count \in Int
  <2>1. r.version \in Int /\ r.enabled \in BOOLEAN /\ r.count \in Int
      BY DEF IsEntry
  <2> QED
      BY <1>2, <1>3, <2>1
<1> QED
    BY <1>1, <1>2, <1>3, <1>4, Zenon DEF IsEntry, RowIs

LEMMA InitTypes == Init => BeatTypes /\ ReturnsInv
<1> SUFFICES ASSUME Init PROVE BeatTypes /\ ReturnsInv
    OBVIOUS
<1>1. IsEntry(NoEntry) /\ IsEntry(row) /\ row.version = 0
    BY DEF Init, IsEntry, NoEntry, Never
<1>2. \A b \in Beats : plan[b] = NoEntry
    BY DEF Init
<1>3. /\ now \in Nat /\ runs \in Nat /\ stamping \in Nat /\ stamp \in Int /\ runs = 0
      /\ change = NoRow /\ lock = Free
      /\ plan = [b \in Beats |-> plan[b]] /\ dirty \in [Beats -> BOOLEAN] /\ checked \in [Beats -> Int]
    BY DEF Init, Never
<1>b. upset \in BOOLEAN /\ blind \in BOOLEAN
    BY DEF Init
<1>4. return \in [Beats -> {"idle", "reload", "closed"}] /\ \A b \in Beats : pc[b] = "down"
    BY DEF Init
<1>5. pc \in [Beats -> {"down", "install", "waiting", "idle", "look", "due", "reload", "pop", "save", "closed"}]
    BY DEF Init
<1>6. \A b \in Beats : IsEntry(plan[b])
    BY <1>1, <1>2
<1>7. BeatTypes
    BY <1>1, <1>2, <1>3, <1>b, <1>4, <1>5, <1>6 DEF BeatTypes
<1> QED
    BY <1>7 DEF Init, ReturnsInv

LEMMA RequestsKeepTypes ==
    ASSUME BeatTypes, ReturnsInv, Flush \/ CommitChange \/ Stamp
    PROVE  (BeatTypes /\ ReturnsInv)'
<1> USE DEF beat, history
<1>0. ReturnsInv'
    BY DEF ReturnsInv, Flush, CommitChange, Stamp
<1>1. CASE Flush
  <2>1. change' \in [version : Nat, enabled : BOOLEAN]
      BY <1>1 DEF BeatTypes, Flush
  <2> QED
      BY <1>0, <1>1, <2>1 DEF BeatTypes, Flush
<1>2. CASE CommitChange
  <2>1. change \in [version : Nat, enabled : BOOLEAN]
      BY <1>2 DEF BeatTypes, CommitChange
  <2>a. change.version \in Nat /\ change.enabled \in BOOLEAN
      BY <2>1
  <2>b. IsEntry(row) /\ row' = [row EXCEPT !.version = change.version, !.enabled = change.enabled]
      BY <1>2 DEF BeatTypes, CommitChange
  <2>2. IsEntry(row') /\ row'.version = change.version
    <3>1. change.version \in Int
        BY <2>a
    <3>2. RowIs(row', change.version, change.enabled, row.count, row.last)
        BY <2>a, <2>b, <3>1, ChangedRow
    <3> QED
        BY <3>2 DEF RowIs
  <2> QED
      BY <1>0, <1>2, <2>1, <2>2 DEF BeatTypes, CommitChange
<1>3. CASE Stamp
  <2>1. stamp' \in Int
      BY <1>3, SecondsGoOn DEF BeatTypes, Stamp
  <2>2. blind' \in BOOLEAN
      BY <1>3 DEF Stamp
  <2> QED
      BY <1>0, <1>3, <2>1, <2>2 DEF BeatTypes, Stamp
<1> QED
    BY <1>1, <1>2, <1>3

LEMMA MomentKeepsTypes ==
    ASSUME BeatTypes, ReturnsInv, Moment
    PROVE  (BeatTypes /\ ReturnsInv)'
<1> USE DEF store, beat
<1>1. ReturnsInv'
    BY DEF ReturnsInv, Moment
<1>2. lock' = Free \/ lock' \in [owner : Beats, left : Nat \ {0}]
    BY DEF BeatTypes, Moment, Free
<1>3. upset' \in BOOLEAN
    BY DEF BeatTypes, Moment
<1> QED
    BY <1>1, <1>2, <1>3 DEF BeatTypes, Moment

LEMMA BeatsKeepTypes ==
    ASSUME BeatTypes, ReturnsInv, NEW b \in Beats,
           Step(b) \/ Start(b) \/ Install(b) \/ SaveFails(b) \/ Close(b) \/ Crash(b)
    PROVE  (BeatTypes /\ ReturnsInv)'
<1> USE DEF store, beat, history, Goto
<1>n. IsEntry(NoEntry)
    BY DEF IsEntry, NoEntry, Never
<1>s. Second(now) \in Int
    BY SecondsGoOn DEF BeatTypes
<1>t. LockTimeout \in Nat \ {0}
    BY BeatAssumption
<1>0. lock' = Free \/ lock' \in [owner : Beats, left : Nat \ {0}]
  <2>1. CASE Acquire(b)
      BY <1>t, <2>1 DEF Acquire
  <2>2. CASE Tick(b)
    <3>1. lock # Free
        BY <2>2, BeatAssumption DEF Tick, Free, Never
    <3>2. lock \in [owner : Beats, left : Nat \ {0}] /\ lock' = [lock EXCEPT !.left = LockTimeout]
        BY <2>2, <3>1 DEF BeatTypes, Tick
    <3> QED
        BY <1>t, <3>2
  <2>3. CASE Close(b)
      BY <2>3 DEF BeatTypes, Close
  <2>4. CASE ~(Acquire(b) \/ Tick(b) \/ Close(b))
    <3>1. UNCHANGED lock
        BY <2>4 DEF Step, TickFails, Closed, CheckSchedule, Reload, Pop, Save,
           Run, Retire, NotDue, Start, Install, SaveFails, Crash
    <3> QED
        BY <3>1 DEF BeatTypes
  <2> QED
      BY <2>1, <2>2, <2>3, <2>4
<1>1. CASE Acquire(b)
    BY <1>0, <1>1 DEF BeatTypes, ReturnsInv, Acquire
<1>2. CASE Tick(b)
    BY <1>0, <1>2 DEF BeatTypes, ReturnsInv, Tick
<1>3. CASE TickFails(b) \/ Closed(b) \/ Crash(b)
  <2>1. End(b)
      BY <1>3 DEF TickFails, Closed, Crash
  <2>3. UNCHANGED <<now, runs, stamping, stamp, ranAt, row, change, blind>> /\ upset' \in BOOLEAN
      BY <1>3 DEF BeatTypes, TickFails, Closed, Crash
  <2>4. plan' = [c \in Beats |-> plan'[c]] /\ \A c \in Beats : IsEntry(plan'[c]) /\ (plan'[c] = NoEntry \/ plan'[c].version \in Nat)
      BY <1>n, <2>1 DEF BeatTypes, End
  <2>5. /\ pc' \in [Beats -> {"down", "install", "waiting", "idle", "look", "due", "reload", "pop", "save", "closed"}]
        /\ dirty' \in [Beats -> BOOLEAN] /\ checked' \in [Beats -> Int]
        /\ return' \in [Beats -> {"idle", "reload", "closed"}]
      BY <2>1 DEF BeatTypes, End, Never
  <2>2. BeatTypes'
      BY <1>0, <2>3, <2>4, <2>5 DEF BeatTypes
  <2> QED
      BY <1>3, <2>1, <2>2 DEF BeatTypes, ReturnsInv, End
<1>4. CASE CheckSchedule(b)
    BY <1>0, <1>4, <1>s DEF BeatTypes, ReturnsInv, CheckSchedule, Look
<1>5. CASE Reload(b)
  <2>1. plan' = [c \in Beats |-> plan'[c]] /\ \A c \in Beats : IsEntry(plan'[c]) /\ (plan'[c] = NoEntry \/ plan'[c].version \in Nat)
      BY <1>5, LoadReads DEF BeatTypes, Reload
  <2> QED
      BY <1>0, <1>5, <2>1 DEF BeatTypes, ReturnsInv, Reload
<1>6. CASE Pop(b)
  <2>1. plan' = [c \in Beats |-> plan'[c]] /\ \A c \in Beats : IsEntry(plan'[c]) /\ (plan'[c] = NoEntry \/ plan'[c].version \in Nat)
      BY <1>6, LoadReads DEF BeatTypes, Pop
  <2> QED
      BY <1>0, <1>6, <1>s, <2>1 DEF BeatTypes, ReturnsInv, Pop, Look
<1>7. CASE Save(b)
  <2>a. row' = row \/ row' = [row EXCEPT !.count = plan[b].count, !.last = plan[b].last]
      BY <1>7 DEF Save
  <2>b. IsEntry(row) /\ row.version \in Nat /\ plan[b].count \in Int
      BY DEF BeatTypes, IsEntry
  <2>1. IsEntry(row') /\ row'.version \in Nat
      BY <2>a, <2>b DEF IsEntry
  <2>2. UNCHANGED <<now, runs, stamping, stamp, ranAt, change, blind, upset, plan, checked>> /\ dirty' \in [Beats -> BOOLEAN]
      BY <1>7 DEF BeatTypes, Save
  <2>3. /\ pc' \in [Beats -> {"down", "install", "waiting", "idle", "look", "due", "reload", "pop", "save", "closed"}]
        /\ return' \in [Beats -> {"idle", "reload", "closed"}] /\ ReturnsInv'
      BY <1>7 DEF BeatTypes, ReturnsInv, Save, GoBack
  <2> QED
      BY <1>0, <2>1, <2>2, <2>3 DEF BeatTypes
<1>8. CASE Run(b)
  <2>1. IsEntry(plan[b]) /\ plan[b].count + 1 \in Int /\ plan[b].version \in Nat
      BY <1>8 DEF BeatTypes, Run, IsEntry, NoEntry
  <2>2. IsEntry(Counted(plan[b])) /\ Counted(plan[b]).version \in Nat
      BY <2>1 DEF Counted, IsEntry
  <2> HIDE DEF Counted
  <2>3. plan' = [c \in Beats |-> plan'[c]] /\ \A c \in Beats : IsEntry(plan'[c]) /\ (plan'[c] = NoEntry \/ plan'[c].version \in Nat)
      BY <1>8, <2>2 DEF BeatTypes, Run
  <2>4. ReturnsInv'
      BY <1>8 DEF BeatTypes, ReturnsInv, Run
  <2> QED
      BY <1>0, <1>8, <2>3, <2>4 DEF BeatTypes, Run
<1>9. CASE Retire(b)
  <2> DEFINE e == [plan[b] EXCEPT !.enabled = FALSE, !.count = 0]
  <2>1. IsEntry(plan[b]) /\ plan[b].version \in Nat
      BY <1>9 DEF BeatTypes, Retire, IsEntry, NoEntry
  <2>2. IsEntry(e) /\ e.version \in Nat
      BY <2>1, RetiredEntry DEF RowIs
  <2>a. IsEntry(row) /\ row.version \in Nat /\ row' = [row EXCEPT !.enabled = FALSE, !.count = 0, !.last = plan[b].last]
      BY <1>9 DEF BeatTypes, Retire
  <2>3. IsEntry(row') /\ row'.version \in Nat
    <3>1. RowIs(row', row.version, FALSE, 0, plan[b].last)
        BY <2>a, RetiredRow
    <3> QED
        BY <2>a, <3>1 DEF RowIs
  <2>4. plan' = [plan EXCEPT ![b] = e]
      BY <1>9 DEF Retire
  <2> HIDE DEF e
  <2>5. plan' = [c \in Beats |-> plan'[c]] /\ \A c \in Beats : IsEntry(plan'[c]) /\ (plan'[c] = NoEntry \/ plan'[c].version \in Nat)
      BY <2>2, <2>4 DEF BeatTypes
  <2>6. ReturnsInv'
      BY <1>9 DEF BeatTypes, ReturnsInv, Retire
  <2> QED
      BY <1>0, <1>9, <2>3, <2>5, <2>6 DEF BeatTypes, Retire
<1>10. CASE NotDue(b)
    BY <1>0, <1>10 DEF BeatTypes, ReturnsInv, NotDue
<1>11. CASE Start(b)
  <2>1. plan' = [c \in Beats |-> plan'[c]] /\ \A c \in Beats : IsEntry(plan'[c]) /\ (plan'[c] = NoEntry \/ plan'[c].version \in Nat)
      BY <1>11, LoadReads DEF BeatTypes, Start
  <2> QED
      BY <1>0, <1>11, <1>s, <2>1 DEF BeatTypes, ReturnsInv, Start
<1>12. CASE Install(b)
  <2>1. CASE ~Edited
      BY <1>0, <1>12, <2>1 DEF BeatTypes, ReturnsInv, Install
  <2>2. CASE Edited
    <3>1. /\ row' = FirstValues(row) /\ plan' = [plan EXCEPT ![b] = EntryOf(row')]
          /\ stamping' = stamping + 1 /\ runs' = 0 /\ ranAt' = Never /\ upset' = TRUE
          /\ UNCHANGED <<change, stamp>>
        BY <1>12, <2>2 DEF Install
    <3>2. IsEntry(row') /\ row'.version \in Nat
      <4>1. IsEntry(row) /\ MaxChanges + 1 \in Nat /\ MaxChanges + 1 \in Int
          BY BeatAssumption DEF BeatTypes
      <4>2. row' = [row EXCEPT !.version = MaxChanges + 1, !.enabled = TRUE, !.count = 0, !.last = Never]
          BY <3>1 DEF FirstValues
      <4> QED
        <5>1. RowIs(row', MaxChanges + 1, TRUE, 0, Never)
            BY <4>1, <4>2, FirstRow
        <5> QED
            BY <4>1, <5>1 DEF RowIs
    <3>3. IsEntry(EntryOf(row')) /\ EntryOf(row').version = row'.version
        BY <3>2 DEF EntryOf, IsEntry
    <3> DEFINE e == EntryOf(row')
    <3>4. plan' = [plan EXCEPT ![b] = e] /\ IsEntry(e) /\ e.version \in Nat
        BY <3>1, <3>2, <3>3
    <3> HIDE DEF e
    <3>5. plan' = [c \in Beats |-> plan'[c]] /\ \A c \in Beats : IsEntry(plan'[c]) /\ (plan'[c] = NoEntry \/ plan'[c].version \in Nat)
        BY <3>4 DEF BeatTypes
    <3> QED
        BY <1>0, <1>12, <3>1, <3>2, <3>5 DEF BeatTypes, ReturnsInv, Install
  <2> QED
      BY <2>1, <2>2
<1>13. CASE SaveFails(b)
    BY <1>0, <1>13 DEF BeatTypes, ReturnsInv, SaveFails, GoBack
<1>14. CASE Close(b)
    BY <1>0, <1>14 DEF BeatTypes, ReturnsInv, Close
<1> QED
    BY <1>1, <1>2, <1>3, <1>4, <1>5, <1>6, <1>7, <1>8, <1>9, <1>10, <1>11, <1>12, <1>13, <1>14 DEF Step

-----------------------------------------------------------------------------
(* Who ticks.                                                              *)

LEMMA FreeOwner == Free.owner \notin Beats
BY BeatAssumption DEF Free, Never

LEMMA OthersKeepTick ==
    ASSUME BeatTypes, ReturnsInv, TickInv, Flush \/ CommitChange \/ Stamp \/ Moment
    PROVE  TickInv'
<1> USE DEF store, beat, history
<1>1. CASE Flush \/ CommitChange \/ Stamp
    BY <1>1 DEF TickInv, Ticking, Flush, CommitChange, Stamp
<1>2. CASE Moment
  <2> SUFFICES ASSUME NEW c \in Beats, Ticking(c)'
               PROVE  (lock.owner = c \/ c \in late \/ return[c] = "closed")'
      BY DEF TickInv
  <2>1. UNCHANGED <<pc, return>> /\ Ticking(c)
      BY <1>2 DEF Moment, Ticking
  <2>2. late \subseteq late'
      BY <1>2 DEF Moment
  <2>3. CASE lock.owner = c
    <3>1. lock \in [owner : Beats, left : Nat \ {0}]
        BY <2>3, FreeOwner DEF BeatTypes
    <3>2. CASE lock.left = 1
        BY <1>2, <2>1, <2>3, <3>2 DEF Moment
    <3>3. CASE lock.left > 1
        BY <1>2, <2>3, <3>1, <3>3 DEF Moment
    <3> QED
        BY <3>1, <3>2, <3>3
  <2> QED
      BY <2>1, <2>2, <2>3 DEF TickInv
<1> QED
    BY <1>1, <1>2

LEMMA BeatsKeepTick ==
    ASSUME BeatTypes, ReturnsInv, TickInv, NEW b \in Beats,
           Step(b) \/ Start(b) \/ Install(b) \/ SaveFails(b) \/ Close(b) \/ Crash(b)
    PROVE  TickInv'
<1> USE DEF store, beat, history, Goto
<1> SUFFICES ASSUME NEW c \in Beats, Ticking(c)'
             PROVE  (lock.owner = c \/ c \in late \/ return[c] = "closed")'
    BY DEF TickInv
<1>p. /\ pc \in [Beats -> {"down", "install", "waiting", "idle", "look", "due", "reload", "pop", "save", "closed"}]
      /\ return \in [Beats -> {"idle", "reload", "closed"}]
    BY DEF BeatTypes
<1> USE DEF Ticking, Outside
<1>1. CASE Acquire(b)
    BY <1>1, <1>p, FreeOwner DEF TickInv, Acquire
<1>2. CASE Tick(b)
  <2>1. lock \in [owner : Beats, left : Nat \ {0}]
      BY <1>2, FreeOwner DEF Tick, BeatTypes
  <2>2. lock'.owner = lock.owner
      BY <1>2, <2>1 DEF Tick
  <2> QED
      BY <1>2, <1>p, <2>2 DEF TickInv, Tick
<1>3. CASE TickFails(b) \/ Closed(b) \/ Crash(b)
    BY <1>3, <1>p DEF TickInv, TickFails, Closed, Crash, End
<1>4. CASE CheckSchedule(b)
    BY <1>4, <1>p DEF TickInv, CheckSchedule, ReturnsInv
<1>5. CASE Reload(b)
    BY <1>5, <1>p DEF TickInv, Reload
<1>6. CASE Pop(b)
    BY <1>6, <1>p DEF TickInv, Pop
<1>7. CASE Save(b) \/ SaveFails(b)
    BY <1>7, <1>p DEF TickInv, Save, SaveFails, GoBack
<1>8. CASE Run(b)
    BY <1>8, <1>p DEF TickInv, Run, ReturnsInv
<1>9. CASE Retire(b)
    BY <1>9, <1>p DEF TickInv, Retire
<1>10. CASE NotDue(b)
    BY <1>10, <1>p DEF TickInv, NotDue
<1>11. CASE Start(b)
    BY <1>11, <1>p DEF TickInv, Start
<1>12. CASE Install(b)
    BY <1>12, <1>p DEF TickInv, Install
<1>13. CASE Close(b)
    BY <1>13, <1>p DEF TickInv, Close, Free
<1> QED
    BY <1>1, <1>2, <1>3, <1>4, <1>5, <1>6, <1>7, <1>8, <1>9, <1>10, <1>11, <1>12, <1>13 DEF Step

-----------------------------------------------------------------------------
(* What the beat on duty and the row know.                                 *)

LEMMA OthersKeepCount ==
    ASSUME BeatTypes, CountInv, Flush \/ CommitChange \/ Stamp \/ Moment, ~upset'
    PROVE  (DutyInv /\ DirtyInv /\ KnownInv)'
<1> USE DEF store, beat, history
<1>0. DutyInv /\ DirtyInv /\ KnownInv /\ UNCHANGED <<pc, plan, dirty, return, runs, ranAt>>
    BY DEF CountInv, Flush, CommitChange, Stamp, Moment
<1>1. lock'.owner = lock.owner /\ (lock' = Free <=> lock = Free)
  <2>1. CASE Moment /\ lock # Free
    <3>1. lock \in [owner : Beats, left : Nat \ {0}]
        BY <2>1 DEF BeatTypes
    <3>2. lock.left # 1
        BY <2>1 DEF Moment
    <3>3. lock.left > 1 /\ lock' = [lock EXCEPT !.left = @ - 1]
        BY <2>1, <3>1, <3>2 DEF Moment
    <3>4. lock'.owner = lock.owner
        BY <3>1, <3>3
    <3> QED
        BY <2>1, <3>1, <3>4, FreeOwner
  <2>2. CASE ~Moment \/ lock = Free
      BY <2>2 DEF Moment, Flush, CommitChange, Stamp, Free
  <2> QED
      BY <2>1, <2>2
<1>2. row'.count = row.count /\ row'.last = row.last
  <2>1. CASE CommitChange
    <3>1. change \in [version : Nat, enabled : BOOLEAN]
        BY <2>1 DEF BeatTypes, CommitChange
    <3>a. change.version \in Int /\ change.enabled \in BOOLEAN /\ IsEntry(row)
        BY <3>1 DEF BeatTypes
    <3>b. row' = [row EXCEPT !.version = change.version, !.enabled = change.enabled]
        BY <2>1 DEF CommitChange
    <3>2. RowIs(row', change.version, change.enabled, row.count, row.last)
        BY <3>a, <3>b, ChangedRow
    <3> QED
        BY <3>2 DEF RowIs
  <2>2. CASE ~CommitChange
      BY <2>2 DEF Moment, Flush, Stamp
  <2> QED
      BY <2>1, <2>2
<1>3. DutyInv'
    BY <1>0, <1>1 DEF DutyInv, Serves
<1>4. DirtyInv'
    BY <1>0 DEF DirtyInv
<1>5. KnownInv'
    BY <1>0, <1>2 DEF KnownInv, Serves, Current
<1> QED
    BY <1>3, <1>4, <1>5

\* While b serves, a step of b has to see to b alone.
LEMMA ServerSteps ==
    ASSUME BeatTypes, DutyInv, DirtyInv, NEW b \in Beats, Serves(b), Serves(b)',
           \A c \in Beats : c # b => pc'[c] = pc[c] /\ plan'[c] = plan[c] /\ dirty'[c] = dirty[c],
           \/ lock'.owner = lock.owner /\ (lock' = Free <=> lock = Free)
              /\ (return'[b] = "closed" <=> return[b] = "closed")
           \/ lock' = Free /\ return'[b] = "closed",
           pc'[b] = "pop" => dirty'[b],
           pc'[b] \in {"reload", "save", "closed", "down", "install", "waiting"} => ~dirty'[b],
           dirty'[b] \/ pc'[b] \in {"pop", "save"} => plan'[b] # NoEntry,
           plan'[b] # NoEntry => Current(plan[b])',
           ~dirty'[b] /\ pc'[b] # "save" => Current(row)'
    PROVE  (DutyInv /\ DirtyInv /\ KnownInv)'
<1>1. \A c \in Beats : Serves(c)' => c = b
    BY DEF DutyInv, Serves
<1>2. DutyInv'
    BY <1>1, FreeOwner DEF DutyInv, Serves
<1>3. DirtyInv'
    BY DEF DirtyInv
<1>4. KnownInv'
    BY <1>1 DEF KnownInv
<1> QED
    BY <1>2, <1>3, <1>4

LEMMA BeatsKeepCount ==
    ASSUME BeatTypes, ReturnsInv, CountInv, NEW b \in Beats,
           Step(b) \/ Start(b) \/ Install(b) \/ SaveFails(b) \/ Close(b) \/ Crash(b), ~upset'
    PROVE  (DutyInv /\ DirtyInv /\ KnownInv)'
<1> USE DEF store, beat, history, Goto
<1>0. DutyInv /\ DirtyInv /\ KnownInv
    BY DEF CountInv, Step, Acquire, Tick, TickFails, Closed, CheckSchedule, Reload, Pop, Save,
       Run, Retire, NotDue, Start, Install, SaveFails, Close, Crash
<1>p. /\ pc \in [Beats -> {"down", "install", "waiting", "idle", "look", "due", "reload", "pop", "save", "closed"}]
      /\ return \in [Beats -> {"idle", "reload", "closed"}] /\ dirty \in [Beats -> BOOLEAN]
      /\ plan = [c \in Beats |-> plan[c]]
    BY DEF BeatTypes
<1> USE DEF Serves, Outside
<1>1. CASE Acquire(b)
  <2>1. \A c \in Beats : ~Serves(c)
      BY <1>0, <1>1, FreeOwner DEF DutyInv, Acquire
  <2>2. \A c \in Beats : Serves(c)' => c = b
      BY <1>1, <1>p, <2>1 DEF Acquire
  <2>3. return'[b] # "closed" /\ lock'.owner = b /\ Serves(b)' /\ \A c \in Beats : lock'.owner = c => c = b
      BY <1>1, <1>p DEF ReturnsInv, Acquire
  <2>4. DutyInv'
      BY <2>2, <2>3 DEF DutyInv
  <2>5. DirtyInv'
      BY <1>0, <1>1, <1>p DEF DirtyInv, Acquire
  <2>6. KnownInv'
      BY <1>0, <1>1, <2>1, <2>2, <2>3 DEF KnownInv, Acquire, Current
  <2> QED
      BY <2>4, <2>5, <2>6
<1>2. CASE Tick(b)
  <2>1. lock \in [owner : Beats, left : Nat \ {0}]
      BY <1>2, FreeOwner DEF Tick, BeatTypes
  <2>2. lock'.owner = lock.owner
      BY <1>2, <2>1 DEF Tick
  <2>3. lock # Free /\ lock' # Free
      BY <1>2, <2>2, FreeOwner DEF Tick
  <2> QED
      BY <1>0, <1>2, <1>p, <2>2, <2>3, ServerSteps DEF Tick, KnownInv, DirtyInv, Current
<1>3. CASE Closed(b)
  <2>1. return[b] = "closed" /\ Serves(b) /\ lock = Free /\ ~dirty[b]
      BY <1>0, <1>3 DEF Closed, ReturnsInv, DutyInv, DirtyInv
  <2>2. /\ Current(row) /\ \A c \in Beats : Serves(c) => c = b
      BY <1>0, <1>3, <2>1 DEF Closed, KnownInv, DutyInv
  <2>3. \A c \in Beats : ~Serves(c)'
      BY <1>3, <1>p, <2>2 DEF Closed, End
  <2>4. DutyInv'
      BY <1>3, <2>1, <2>3, FreeOwner DEF DutyInv, Closed
  <2>5. DirtyInv'
      BY <1>0, <1>3, <1>p DEF DirtyInv, Closed, End
  <2>6. KnownInv'
      BY <1>3, <2>2, <2>3 DEF KnownInv, Closed, Current
  <2> QED
      BY <2>4, <2>5, <2>6
<1>4. CASE CheckSchedule(b)
    BY <1>0, <1>4, <1>p, ServerSteps DEF CheckSchedule, ReturnsInv, KnownInv, DirtyInv, Current
<1>5. CASE Reload(b)
  <2>1. /\ ~dirty[b] /\ Serves(b) /\ Current(row)
      BY <1>0, <1>5 DEF Reload, DirtyInv, KnownInv
  <2>2. runs > 0 => row.last # Never
      BY <2>1 DEF Current, BeatTypes, Never
  <2>3. \A c \in Beats : c # b => plan'[c] = plan[c]
      BY <1>5, LoadReads DEF Reload
  <2>4. plan'[b] # NoEntry => plan'[b].count = row.count /\ (row.last # Never => plan'[b].last = row.last)
      BY <1>5, LoadReads DEF Reload
  <2>5. plan'[b] # NoEntry => Current(plan[b])'
      BY <1>5, <2>1, <2>2, <2>4 DEF Current, Reload
  <2> QED
      BY <1>0, <1>5, <1>p, <2>1, <2>3, <2>5, ServerSteps DEF Reload, Current
<1>6. CASE Pop(b)
  <2>1. UNCHANGED plan
      BY <1>6 DEF Pop
  <2> QED
      BY <1>0, <1>6, <1>p, <2>1, ServerSteps DEF Pop, KnownInv, DirtyInv, Current
<1>7. CASE Save(b)
  <2>1. plan[b] # NoEntry /\ ~dirty[b] /\ Current(plan[b])
      BY <1>0, <1>7 DEF Save, DirtyInv, KnownInv
  <2>2. row' = [row EXCEPT !.count = plan[b].count, !.last = plan[b].last] /\ UNCHANGED dirty
      BY <1>7, <2>1 DEF Save
  <2>3. plan[b].count \in Int /\ IsEntry(row)
      BY DEF BeatTypes, IsEntry
  <2>4. RowIs(row', row.version, row.enabled, plan[b].count, plan[b].last)
      BY <2>2, <2>3, SavedRow
  <2>5. Current(row)' /\ Current(plan[b])'
      BY <1>7, <2>1, <2>4 DEF Current, RowIs, Save
  <2>6. UNCHANGED <<plan, lock>> /\ pc'[b] = return[b] /\ return'[b] = (IF return[b] = "closed" THEN "closed" ELSE "idle")
        /\ \A c \in Beats : c # b => pc'[c] = pc[c]
      BY <1>7, <1>p DEF Save, GoBack
  <2>7. Serves(b) /\ Serves(b)'
      BY <1>7, <1>p, <2>6 DEF Save
  <2>8. return'[b] = "closed" <=> return[b] = "closed"
      BY <2>6
  <2> QED
      BY <1>0, <1>p, <2>1, <2>2, <2>5, <2>6, <2>7, <2>8, ServerSteps
<1>8. CASE Run(b)
  <2>1. IsEntry(plan[b]) /\ plan[b] # NoEntry /\ plan[b].count + 1 \in Int
      BY <1>8 DEF BeatTypes, Run, IsEntry, NoEntry
  <2> DEFINE e == Counted(plan[b])
  <2>2. e.count = plan[b].count + 1 /\ e.last = now /\ e.version = plan[b].version
      BY <2>1 DEF Counted, IsEntry
  <2>3. plan' = [plan EXCEPT ![b] = e]
      BY <1>8 DEF Run
  <2> HIDE DEF e
  <2>4. plan'[b] = e /\ \A c \in Beats : c # b => plan'[c] = plan[c]
      BY <1>p, <2>3
  <2>5. Current(plan[b]) /\ plan[b].version \in Nat
      BY <1>0, <1>8, <2>1 DEF KnownInv, Run, BeatTypes
  <2>6. plan'[b] # NoEntry
      BY <2>2, <2>4, <2>5 DEF NoEntry, Never
  <2>7. Current(plan[b])'
      BY <1>8, <2>2, <2>4, <2>5 DEF Current, Run, BeatTypes
  <2>8. dirty'[b] /\ \A c \in Beats : c # b => dirty'[c] = dirty[c]
      BY <1>8, <1>p DEF Run
  <2>9. /\ UNCHANGED lock /\ pc[b] = "due" /\ pc'[b] \in {"idle", "pop"}
        /\ return[b] # "closed" /\ return'[b] # "closed"
        /\ \A c \in Beats : c # b => pc'[c] = pc[c]
      BY <1>8, <1>p DEF Run, ReturnsInv
  <2> QED
      BY <1>0, <1>p, <2>4, <2>6, <2>7, <2>8, <2>9, ServerSteps
<1>9. CASE Retire(b)
  <2> DEFINE e == [plan[b] EXCEPT !.enabled = FALSE, !.count = 0]
  <2>1. IsEntry(plan[b]) /\ plan[b].version \in Nat
      BY <1>9 DEF BeatTypes, Retire, IsEntry, NoEntry
  <2>2. RowIs(e, plan[b].version, FALSE, 0, plan[b].last)
      BY <2>1, RetiredEntry
  <2>3. row' = [row EXCEPT !.enabled = FALSE, !.count = 0, !.last = plan[b].last] /\ IsEntry(row)
      BY <1>9 DEF BeatTypes, Retire
  <2>4. RowIs(row', row.version, FALSE, 0, plan[b].last)
      BY <2>3, RetiredRow
  <2>5. plan' = [plan EXCEPT ![b] = e]
      BY <1>9 DEF Retire
  <2> HIDE DEF e
  <2>6. plan'[b] = e /\ \A c \in Beats : c # b => plan'[c] = plan[c]
      BY <1>p, <2>5
  <2>7. plan'[b] # NoEntry
      BY <2>1, <2>2, <2>6 DEF NoEntry, Never, RowIs
  <2>8. Current(plan[b])' /\ Current(row)'
      BY <1>9, <2>2, <2>4, <2>6 DEF Current, RowIs, Retire
  <2>9. /\ UNCHANGED <<lock, dirty, return>> /\ pc[b] = "due" /\ pc'[b] = "idle"
        /\ \A c \in Beats : c # b => pc'[c] = pc[c]
      BY <1>9, <1>p DEF Retire
  <2> QED
      BY <1>0, <1>p, <2>6, <2>7, <2>8, <2>9, ServerSteps
<1>10. CASE NotDue(b)
    BY <1>0, <1>10, <1>p, ServerSteps DEF NotDue, KnownInv, DirtyInv, Current
<1>11. CASE Start(b) \/ Install(b)
  <2>1. /\ pc[b] \in Outside /\ pc'[b] \in Outside /\ UNCHANGED <<lock, row, return, runs, ranAt>> /\ ~dirty'[b]
        /\ \A c \in Beats : c # b => pc'[c] = pc[c] /\ dirty'[c] = dirty[c]
      BY <1>0, <1>11, <1>p DEF Start, Install, DirtyInv
  <2>2. \A c \in Beats : c # b => plan'[c] = plan[c]
      BY <1>11, LoadReads DEF Start, Install
  <2>3. DutyInv'
      BY <1>0, <2>1 DEF DutyInv
  <2>4. DirtyInv'
      BY <1>0, <2>1, <2>2 DEF DirtyInv
  <2>5. KnownInv'
      BY <1>0, <2>1, <2>2 DEF KnownInv, Current
  <2> QED
      BY <2>3, <2>4, <2>5
<1>12. CASE Close(b)
  <2>1. Serves(b) /\ return[b] # "closed" /\ lock.owner = b
      BY <1>0, <1>12 DEF Close, ReturnsInv, DutyInv
  <2>2. /\ lock' = Free /\ return'[b] = "closed" /\ pc'[b] = (IF dirty[b] THEN "pop" ELSE "closed")
        /\ UNCHANGED <<row, plan, dirty, runs, ranAt>> /\ pc[b] = "idle"
        /\ \A c \in Beats : c # b => pc'[c] = pc[c]
      BY <1>12, <1>p, <2>1 DEF Close
  <2> QED
      BY <1>0, <1>p, <2>1, <2>2, ServerSteps DEF KnownInv, DirtyInv, Current
<1>13. CASE TickFails(b) \/ Crash(b) \/ SaveFails(b)
    BY <1>13 DEF TickFails, Crash, SaveFails
<1> QED
    BY <1>1, <1>2, <1>3, <1>4, <1>5, <1>6, <1>7, <1>8, <1>9, <1>10, <1>11, <1>12, <1>13 DEF Step

-----------------------------------------------------------------------------
(* Which changes reach a schedule.                                         *)

\* Why a quiet row is no surprise to b.
Knows(b) ==
    \/ pc[b] = "down" \/ UpToDate(b) \/ stamp > checked[b] \/ pc[b] = "reload"
    \/ pc[b] \in {"pop", "save"} /\ return[b] = "reload"

LEMMA OthersKeepSeen ==
    ASSUME BeatTypes, SeenInv, Flush \/ CommitChange \/ Stamp \/ Moment
    PROVE  SeenInv'
<1> USE DEF store, beat, history
<1>s. now \in Nat /\ stamp \in Int /\ stamping \in Nat /\ Second(now) \in Nat /\ checked \in [Beats -> Int]
    BY SecondsGoOn DEF BeatTypes
<1>1. CASE Flush
    BY <1>1, <1>s DEF SeenInv, Flush, Quiet
<1>2. CASE CommitChange
    BY <1>2, <1>s DEF SeenInv, CommitChange, Quiet
<1>3. CASE Stamp
  <2>1. /\ stamp' = Second(now) /\ looked' = {} /\ UNCHANGED <<now, change, pc, checked>> /\ stamping' = stamping - 1
        /\ blind' = (change # NoRow \/ \E b \in Beats : checked[b] >= Second(now))
      BY <1>3 DEF Stamp
  <2>a. Quiet' => ~\E b \in Beats : checked[b] >= Second(now)
      BY <2>1, Zenon DEF Quiet
  <2>b. change' # NoRow => blind'
      BY <2>1, Zenon
  <2>2. Quiet' => \A b \in Beats : stamp' > checked'[b]
      BY <1>s, <2>1, <2>a
  <2>3. UNCHANGED now /\ Second(now)' = Second(now)
      BY <2>1 DEF Second
  <2>4. stamp' <= Second(now)' /\ stamp' # Never
      BY <1>s, <2>1, <2>3 DEF Never
  <2>5. looked' = {}
      BY <2>1
  <2> QED
      BY <2>b, <2>2, <2>4, <2>5, Zenon DEF SeenInv
<1>4. CASE Moment
  <2>1. Second(now) <= Second(now + 1) /\ Second(now + 1) \in Nat /\ now' = now + 1
      BY <1>4, <1>s, SecondsGoOn DEF Moment
  <2>2. Second(now)' = Second(now + 1)
      BY <2>1 DEF Second
  <2>3. stamp' <= Second(now)'
      BY <1>4, <1>s, <2>1, <2>2 DEF SeenInv, Moment
  <2> QED
      BY <1>4, <2>3 DEF SeenInv, Moment, Quiet, UpToDate
<1> QED
    BY <1>1, <1>2, <1>3, <1>4

\* A step of b that stamps nothing has to see to b alone.
LEMMA SeenByOthers ==
    ASSUME BeatTypes, SeenInv, NEW b \in Beats,
           UNCHANGED <<now, change, blind, stamp>>,
           row'.version = row.version, row'.enabled = row.enabled,
           stamping' = stamping \/ stamping' = stamping + 1,
           \A c \in Beats : c # b => /\ pc'[c] = pc[c] /\ plan'[c] = plan[c]
                                     /\ checked'[c] = checked[c] /\ return'[c] = return[c],
           looked' \subseteq looked \union {b},
           b \in looked' => checked'[b] >= stamp /\ pc'[b] # "down",
           stamp = Never => pc'[b] = "down",
           Quiet' => Knows(b)'
    PROVE  SeenInv'
<1>s. now \in Nat /\ stamp \in Int /\ stamping \in Nat
    BY DEF BeatTypes
<1>1. Second(now)' = Second(now)
    BY DEF Second
<1>2. stamp' <= Second(now)'
    BY <1>1 DEF SeenInv
<1>3. change' # NoRow /\ stamping' = 0 => blind'
    BY <1>s DEF SeenInv, NoRow
<1>4. Quiet' => Quiet
    BY <1>s DEF Quiet, NoRow
<1>5. ASSUME NEW c \in Beats, Quiet' PROVE Knows(c)'
  <2>1. CASE c # b
      BY <1>4, <1>5, <2>1 DEF SeenInv, Knows, UpToDate
  <2> QED
      BY <1>5, <2>1
<1>6. stamp' = Never => \A c \in Beats : pc'[c] = "down"
    BY DEF SeenInv
<1>7. looked' \subseteq Beats /\ \A c \in looked' : checked'[c] >= stamp' /\ pc'[c] # "down"
    BY DEF SeenInv
<1> QED
    BY <1>2, <1>3, <1>5, <1>6, <1>7 DEF SeenInv, Knows

LEMMA BeatsKeepSeen ==
    ASSUME BeatTypes, ReturnsInv, SeenInv, NEW b \in Beats,
           Step(b) \/ Start(b) \/ Install(b) \/ SaveFails(b) \/ Close(b) \/ Crash(b)
    PROVE  SeenInv'
<1> USE DEF store, beat, history, Goto
<1>p. /\ pc \in [Beats -> {"down", "install", "waiting", "idle", "look", "due", "reload", "pop", "save", "closed"}]
      /\ return \in [Beats -> {"idle", "reload", "closed"}]
      /\ plan = [c \in Beats |-> plan[c]] /\ checked \in [Beats -> Int]
      /\ now \in Nat /\ stamp \in Int /\ stamping \in Nat /\ Second(now) \in Nat
    BY SecondsGoOn DEF BeatTypes
<1>k. /\ Quiet => Knows(b)
      /\ stamp <= Second(now) /\ (b \in looked => checked[b] >= stamp /\ pc[b] # "down")
      /\ stamp = Never => pc[b] = "down"
    BY DEF SeenInv, Knows
<1>1. CASE Acquire(b) \/ Tick(b) \/ NotDue(b)
  <2>1. Quiet' => Knows(b)'
      BY <1>1, <1>p, <1>k DEF Acquire, Tick, NotDue, Knows, Quiet, UpToDate
  <2> QED
      BY <1>1, <1>p, <1>k, <2>1, SeenByOthers DEF Acquire, Tick, NotDue
<1>2. CASE TickFails(b) \/ Closed(b) \/ Crash(b)
  <2>1. End(b) /\ UNCHANGED <<now, store, blind>>
      BY <1>2 DEF TickFails, Closed, Crash
  <2>2. pc'[b] = "down" /\ b \notin looked' /\ looked' \subseteq looked
        /\ \A c \in Beats : c # b => /\ pc'[c] = pc[c] /\ plan'[c] = plan[c]
                                     /\ checked'[c] = checked[c] /\ return'[c] = return[c]
      BY <1>p, <2>1 DEF End
  <2> QED
      BY <2>1, <2>2, SeenByOthers DEF Knows
<1>3. CASE CheckSchedule(b)
  <2>1. /\ UNCHANGED <<now, store, plan, blind>> /\ checked'[b] = Second(now) /\ looked' \subseteq looked \union {b}
        /\ \A c \in Beats : c # b => /\ pc'[c] = pc[c] /\ checked'[c] = checked[c] /\ return'[c] = return[c]
      BY <1>3, <1>p DEF CheckSchedule, Look
  <2>2. /\ pc[b] = "look" /\ pc'[b] # "down"
        /\ \/ ~Changed(b)
           \/ pc'[b] = "reload"
           \/ pc'[b] = "pop" /\ return'[b] = "reload"
      BY <1>3, <1>p DEF CheckSchedule
  <2>3. Quiet' => Knows(b)'
      BY <1>k, <2>1, <2>2 DEF Knows, Quiet, UpToDate, Changed
  <2> QED
      BY <1>k, <2>1, <2>2, <2>3, SeenByOthers
<1>4. CASE Reload(b)
  <2>1. /\ UNCHANGED <<now, store, blind, checked, return, looked>> /\ pc[b] = "reload" /\ pc'[b] = "due"
        /\ \A c \in Beats : c # b => pc'[c] = pc[c]
      BY <1>4, <1>p DEF Reload
  <2>2. UpToDate(b)' /\ \A c \in Beats : c # b => plan'[c] = plan[c]
      BY <1>4, <2>1, LoadReads DEF Reload, UpToDate
  <2> QED
      BY <1>k, <2>1, <2>2, SeenByOthers DEF Knows
<1>5. CASE Pop(b)
  <2>1. /\ UNCHANGED <<now, store, blind, return>> /\ checked'[b] = Second(now) /\ looked' \subseteq looked \union {b}
        /\ pc[b] = "pop" /\ pc'[b] = "save"
        /\ \A c \in Beats : c # b => pc'[c] = pc[c] /\ checked'[c] = checked[c]
      BY <1>5, <1>p DEF Pop, Look
  <2>2. CASE Changed(b)
    <3>1. UpToDate(b)' /\ \A c \in Beats : c # b => plan'[c] = plan[c]
        BY <1>5, <2>1, <2>2, LoadReads DEF Pop, UpToDate
    <3> QED
        BY <1>k, <2>1, <3>1, SeenByOthers DEF Knows
  <2>3. CASE ~Changed(b)
    <3>1. UNCHANGED plan
        BY <1>5, <2>3 DEF Pop
    <3>2. Quiet' => Knows(b)'
        BY <1>k, <2>1, <2>3, <3>1 DEF Knows, Quiet, UpToDate, Changed
    <3> QED
        BY <1>k, <2>1, <3>1, <3>2, SeenByOthers
  <2> QED
      BY <2>2, <2>3
<1>6. CASE Save(b) \/ SaveFails(b)
  <2>1. row'.version = row.version /\ row'.enabled = row.enabled
    <3>1. row' = row \/ row' = [row EXCEPT !.count = plan[b].count, !.last = plan[b].last]
        BY <1>6 DEF Save, SaveFails
    <3>2. plan[b].count \in Int /\ IsEntry(row)
        BY DEF BeatTypes, IsEntry
    <3>3. CASE row' = [row EXCEPT !.count = plan[b].count, !.last = plan[b].last]
      <4>1. RowIs(row', row.version, row.enabled, plan[b].count, plan[b].last)
          BY <3>2, <3>3, SavedRow
      <4> QED
          BY <4>1 DEF RowIs
    <3> QED
        BY <3>1, <3>3
  <2>2. /\ UNCHANGED <<now, change, stamping, stamp, plan, checked, blind, looked>>
        /\ pc[b] = "save" /\ pc'[b] = return[b]
        /\ \A c \in Beats : c # b => pc'[c] = pc[c] /\ return'[c] = return[c]
      BY <1>6, <1>p DEF Save, SaveFails, GoBack
  <2>3. pc'[b] # "down" /\ (Quiet' => Knows(b)')
      BY <1>p, <1>k, <2>1, <2>2 DEF Knows, Quiet, UpToDate
  <2> QED
      BY <1>k, <2>1, <2>2, <2>3, SeenByOthers
<1>7. CASE Run(b)
  <2> DEFINE e == Counted(plan[b])
  <2>1. IsEntry(plan[b]) /\ plan[b] # NoEntry /\ plan[b].count + 1 \in Int
      BY <1>7 DEF BeatTypes, Run, IsEntry, NoEntry
  <2>2. e.version = plan[b].version
      BY <2>1 DEF Counted, IsEntry
  <2>3. plan' = [plan EXCEPT ![b] = e]
      BY <1>7 DEF Run
  <2> HIDE DEF e
  <2>4. plan'[b] = e /\ \A c \in Beats : c # b => plan'[c] = plan[c]
      BY <1>p, <2>3
  <2>5. /\ UNCHANGED <<now, store, checked, blind, looked>> /\ pc[b] = "due" /\ pc'[b] \in {"idle", "pop"}
        /\ \A c \in Beats : c # b => pc'[c] = pc[c] /\ return'[c] = return[c]
      BY <1>7, <1>p DEF Run
  <2>6. Quiet' => Knows(b)'
      BY <1>k, <2>1, <2>2, <2>4, <2>5 DEF Knows, Quiet, UpToDate
  <2> QED
      BY <1>k, <2>4, <2>5, <2>6, SeenByOthers
<1>8. CASE Retire(b)
  <2>1. stamping' = stamping + 1 /\ stamping' # 0
      BY <1>8, <1>p DEF Retire
  <2>2. UNCHANGED <<now, task, change, stamp, lock, dirty, checked, return, faults, upset, blind, looked, late>>
        /\ pc[b] = "due" /\ pc'[b] = "idle" /\ \A c \in Beats : c # b => pc'[c] = pc[c]
      BY <1>8, <1>p DEF Retire
  <2> QED
      BY <1>k, <1>p, <2>1, <2>2 DEF SeenInv, Quiet, Second
<1>9. CASE Start(b)
  <2>1. /\ UNCHANGED <<now, change, stamping, row, return, blind, looked>>
        /\ stamp' = (IF stamp = Never THEN Second(now) ELSE stamp)
        /\ pc[b] = "down" /\ pc'[b] = "install" /\ checked'[b] = Second(now)
        /\ \A c \in Beats : c # b => pc'[c] = pc[c] /\ checked'[c] = checked[c]
      BY <1>9, <1>p DEF Start
  <2>2. UpToDate(b)' /\ \A c \in Beats : c # b => plan'[c] = plan[c]
      BY <1>9, <2>1, LoadReads DEF Start, UpToDate
  <2>3. b \notin looked
      BY <1>k, <2>1
  <2>4. CASE stamp = Never
    <3>1. stamp' = Second(now) /\ stamp' # Never /\ (\A c \in Beats : pc[c] = "down") /\ looked = {}
        BY <1>p, <2>1, <2>4 DEF SeenInv, Never
    <3> QED
        BY <1>p, <2>1, <2>2, <3>1 DEF SeenInv, Quiet, Second, UpToDate
  <2>5. CASE stamp # Never
      BY <1>p, <2>1, <2>2, <2>3, <2>5 DEF SeenInv, Quiet, Second, UpToDate
  <2> QED
      BY <2>4, <2>5
<1>10. CASE Install(b)
  <2>1. UNCHANGED <<now, task, lock, dirty, checked, return, faults, blind, looked, late, change, stamp>>
        /\ pc[b] = "install" /\ pc'[b] = "waiting" /\ \A c \in Beats : c # b => pc'[c] = pc[c]
      BY <1>10, <1>p DEF Install
  <2>2. CASE UNCHANGED <<store, plan>>
    <3>1. Quiet' => Knows(b)'
        BY <1>k, <2>1, <2>2 DEF Knows, Quiet, UpToDate
    <3> QED
        BY <1>k, <2>1, <2>2, <3>1, SeenByOthers
  <2>3. CASE stamping' = stamping + 1
    <3>1. stamping' # 0
        BY <1>p, <2>3
    <3> QED
        BY <1>k, <1>p, <2>1, <3>1 DEF SeenInv, Quiet, Second
  <2> QED
      BY <1>10, <2>2, <2>3 DEF Install
<1>11. CASE Close(b)
  <2>1. /\ UNCHANGED <<now, store, plan, checked, blind, looked>> /\ pc[b] = "idle" /\ pc'[b] \in {"pop", "closed"}
        /\ \A c \in Beats : c # b => pc'[c] = pc[c] /\ return'[c] = return[c]
      BY <1>11, <1>p DEF Close
  <2>2. Quiet' => Knows(b)'
      BY <1>k, <2>1 DEF Knows, Quiet, UpToDate
  <2> QED
      BY <1>k, <2>1, <2>2, SeenByOthers
<1> QED
    BY <1>1, <1>2, <1>3, <1>4, <1>5, <1>6, <1>7, <1>8, <1>9, <1>10, <1>11 DEF Step

-----------------------------------------------------------------------------
(* All of it, in every state.                                              *)

LEMMA InitBeats == Init => BeatInv
<1> SUFFICES ASSUME Init PROVE BeatInv
    OBVIOUS
<1>1. BeatTypes /\ ReturnsInv
    BY InitTypes
<1>2. \A b \in Beats : pc[b] = "down" /\ dirty[b] = FALSE /\ plan[b] = NoEntry
    BY DEF Init
<1>3. TickInv
    BY <1>2 DEF TickInv, Ticking, Outside
<1>4. Current(row) /\ lock = Free
    BY DEF Init, Current
<1>5. DutyInv /\ DirtyInv /\ KnownInv
    BY <1>2, <1>4, FreeOwner DEF DutyInv, DirtyInv, KnownInv, Serves, Outside
<1>6. Second(now) \in Nat /\ stamp = -1 /\ change = NoRow /\ looked = {}
    BY <1>1, SecondsGoOn DEF Init, BeatTypes, Never
<1>7. SeenInv
    BY <1>2, <1>6 DEF SeenInv, Quiet, Never
<1> QED
    BY <1>1, <1>3, <1>5, <1>7 DEF BeatInv, CountInv

LEMMA NextBeats == BeatInv /\ [Next]_vars => BeatInv'
<1> SUFFICES ASSUME BeatInv, [Next]_vars PROVE BeatInv'
    OBVIOUS
<1>0. BeatTypes /\ ReturnsInv /\ TickInv /\ CountInv /\ SeenInv
    BY DEF BeatInv
<1>1. CASE Flush \/ CommitChange \/ Stamp \/ Moment
  <2>1. (BeatTypes /\ ReturnsInv)'
      BY <1>0, <1>1, RequestsKeepTypes, MomentKeepsTypes
  <2>2. CountInv'
      BY <1>0, <1>1, OthersKeepCount DEF CountInv
  <2> QED
      BY <1>0, <1>1, <2>1, <2>2, OthersKeepTick, OthersKeepSeen DEF BeatInv
<1>2. ASSUME NEW b \in Beats, Step(b) \/ Start(b) \/ Install(b) \/ SaveFails(b) \/ Close(b) \/ Crash(b)
      PROVE  BeatInv'
  <2>1. (BeatTypes /\ ReturnsInv)'
      BY <1>0, <1>2, BeatsKeepTypes
  <2>2. CountInv'
      BY <1>0, <1>2, BeatsKeepCount DEF CountInv
  <2> QED
      BY <1>0, <1>2, <2>1, <2>2, BeatsKeepTick, BeatsKeepSeen DEF BeatInv
<1>3. CASE UNCHANGED vars
  <2>1. UNCHANGED <<now, row, change, stamping, stamp, lock, pc, plan, dirty, checked, return,
                    runs, ranAt, upset, blind, looked, late>>
      BY <1>3 DEF vars, store, beat, history
  <2>2. BeatTypes' /\ ReturnsInv' /\ TickInv' /\ SeenInv'
      BY <1>0, <2>1 DEF BeatTypes, ReturnsInv, TickInv, Ticking, SeenInv, Quiet, UpToDate, Second
  <2>3. CountInv'
      BY <1>0, <2>1 DEF CountInv, DutyInv, DirtyInv, KnownInv, Serves, Current
  <2> QED
      BY <2>2, <2>3 DEF BeatInv
<1> QED
    BY <1>1, <1>2, <1>3 DEF Next

THEOREM BeatsInductive == TasksSpec => []BeatInv
<1>1. TasksInit => BeatInv
    BY InitBeats DEF TasksInit
<1>2. BeatInv /\ [TasksNext]_<<part, vars, resultVars>> => BeatInv'
    BY NextBeats DEF TasksNext
<1> QED
    BY <1>1, <1>2, PTL DEF TasksSpec

\* Two beats are in the middle of a tick only when one of them has not come
\* back to its lock in time, or is saving what it has after its close.
THEOREM TicksOnce == TasksSpec => []OneBeatTicks
<1>1. BeatInv => OneBeatTicks
  <2> SUFFICES ASSUME BeatInv, NEW b \in Beats, NEW c \in Beats, b # c, Ticking(b), Ticking(c)
               PROVE  \E d \in {b, c} : d \in late \/ return[d] = "closed"
      BY DEF OneBeatTicks
  <2> QED
      BY DEF BeatInv, TickInv
<1> QED
    BY <1>1, BeatsInductive, PTL

\* While nothing has happened that can lose a run, the beat on duty knows the
\* number and the time of the runs, and so does a row that nobody has to save.
THEOREM RunsCounted == TasksSpec => []RunsAreCounted
<1>1. BeatInv => RunsAreCounted
  <2> SUFFICES ASSUME BeatInv, ~upset, NEW b \in Beats, lock.owner = b, plan[b] # NoEntry
               PROVE  Current(plan[b]) /\ (~dirty[b] /\ pc[b] # "save" => Current(row))
      BY DEF RunsAreCounted
  <2> QED
      BY DEF BeatInv, CountInv, DutyInv, KnownInv
<1> QED
    BY <1>1, BeatsInductive, PTL

\* A beat that has looked at the stamp of a change since it was written has
\* the change in its schedule when it goes on.
THEOREM ChangesSeen == TasksSpec => []ChangeIsSeen
<1>1. BeatInv => ChangeIsSeen
  <2> SUFFICES ASSUME BeatInv, NEW b \in looked, pc[b] \in {"due", "idle"}, Quiet
               PROVE  UpToDate(b)
      BY DEF ChangeIsSeen, Quiet, UpToDate
  <2>1. b \in Beats /\ checked[b] >= stamp /\ checked[b] \in Int /\ stamp \in Int
      BY DEF BeatInv, SeenInv, BeatTypes
  <2> QED
      BY <2>1 DEF BeatInv, SeenInv
<1> QED
    BY <1>1, BeatsInductive, PTL

-----------------------------------------------------------------------------
(* The row of a task.                                                      *)

\* A worker that has an attempt is somewhere in it.
UnderWay(r) ==
    r \in [pc : {"select", "write", "hook", "run"}, try : {r.try}, left : {r.left},
           found : {r.found}, store : {r.store}]

AttemptInv ==
    /\ attempt = [w \in Executors |-> attempt[w]]
    /\ \A w \in Executors : attempt[w] = Results!Idle \/ UnderWay(attempt[w])

\* The row has the last outcome, or an attempt is under way or waits, or
\* nothing can be expected of it.
RowTells == result \in {outcome, "none"} \/ excused \/ messages # {} \/ \E w \in Executors : attempt[w] # Results!Idle

ResultsInv == AttemptInv /\ RowTells

LEMMA UnderWayIsNotIdle == \A r : UnderWay(r) => r # Results!Idle
BY DEF UnderWay, Results!Idle

\* w goes on with its attempt, or has ended it.
LEMMA AttemptGoesOn ==
    ASSUME AttemptInv, NEW w \in Executors, NEW r, UnderWay(r) \/ r = Results!Idle,
           attempt' = [attempt EXCEPT ![w] = r]
    PROVE  AttemptInv' /\ attempt'[w] = r
BY DEF AttemptInv, UnderWay

\* The parts of an attempt that change.
LEMMA PartsChange ==
    ASSUME NEW r, UnderWay(r), NEW p \in {"select", "write", "hook", "run"}, NEW s, NEW f, NEW l
    PROVE  /\ UnderWay([r EXCEPT !.pc = p])
           /\ UnderWay([r EXCEPT !.pc = p, !.found = f])
           /\ UnderWay([r EXCEPT !.pc = p, !.left = l])
           /\ UnderWay([r EXCEPT !.pc = p, !.store = s, !.found = f, !.left = l])
BY DEF UnderWay

LEMMA InitResults == Results!Init => ResultsInv
BY DEF Results!Init, ResultsInv, AttemptInv, RowTells

LEMMA NextResults == ResultsInv /\ [Results!Next]_resultVars => ResultsInv'
<1> SUFFICES ASSUME ResultsInv, [Results!Next]_resultVars PROVE ResultsInv'
    OBVIOUS
<1>0. AttemptInv /\ RowTells
    BY DEF ResultsInv
<1>a. ASSUME NEW w \in Executors, attempt[w] # Results!Idle PROVE UnderWay(attempt[w])
    BY <1>0, <1>a DEF AttemptInv, UnderWay
<1>b. Results!Idle.pc = "idle"
    BY DEF Results!Idle
<1>1. ASSUME NEW w \in Executors, NEW try \in messages, Results!Receive(w, try) PROVE ResultsInv'
  <2> DEFINE r == [pc |-> "select", try |-> try, found |-> FALSE, left |-> StoreTries,
                   store |-> IF revoked THEN "REVOKED" ELSE "STARTED"]
  <2>1. attempt' = [attempt EXCEPT ![w] = r]
      BY <1>1 DEF Results!Receive
  <2>2. UnderWay(r)
      BY DEF UnderWay
  <2> HIDE DEF r
  <2> QED
      BY <1>0, <2>1, <2>2, AttemptGoesOn, UnderWayIsNotIdle DEF ResultsInv, RowTells
<1>2. ASSUME NEW w \in Executors, Results!Select(w) PROVE ResultsInv'
  <2> DEFINE r == [attempt[w] EXCEPT !.pc = "write", !.found = (result # "none")]
  <2>1. attempt' = [attempt EXCEPT ![w] = r] /\ attempt[w].pc = "select"
      BY <1>2 DEF Results!Select
  <2>2. UnderWay(r)
      BY <1>a, <1>b, <2>1, PartsChange
  <2> HIDE DEF r
  <2> QED
      BY <1>0, <2>1, <2>2, AttemptGoesOn, UnderWayIsNotIdle DEF ResultsInv, RowTells
<1>3. ASSUME NEW w \in Executors, Results!Write(w) PROVE ResultsInv'
  <2> DEFINE r == [attempt[w] EXCEPT !.pc = "hook"]
  <2>1. /\ attempt' = [attempt EXCEPT ![w] = IF Results!After(attempt[w].store) = "idle" THEN Results!Idle ELSE r]
        /\ attempt[w].pc = "write" /\ result' = attempt[w].store
        /\ outcome' = IF attempt[w].store = "STARTED" THEN outcome ELSE attempt[w].store
      BY <1>3 DEF Results!Write, Results!Stored
  <2>2. UnderWay(r)
      BY <1>a, <1>b, <2>1, PartsChange
  <2> HIDE DEF r
  <2>3. CASE attempt[w].store = "STARTED"
    <3>1. attempt' = [attempt EXCEPT ![w] = r]
        BY <2>1, <2>3 DEF Results!After
    <3> QED
        BY <1>0, <2>2, <3>1, AttemptGoesOn, UnderWayIsNotIdle DEF ResultsInv, RowTells
  <2>4. CASE attempt[w].store # "STARTED"
    <3>1. attempt' = [attempt EXCEPT ![w] = Results!Idle] /\ result' = outcome'
        BY <2>1, <2>4 DEF Results!After
    <3> QED
        BY <1>0, <3>1, AttemptGoesOn DEF ResultsInv, RowTells
  <2> QED
      BY <2>3, <2>4
<1>4. ASSUME NEW w \in Executors, Results!StoreFails(w) PROVE ResultsInv'
  <2> DEFINE r == [attempt[w] EXCEPT !.pc = "select", !.left = attempt[w].left - 1]
  <2>1. /\ attempt[w].pc = "write"
        /\ \/ attempt' = [attempt EXCEPT ![w] = r]
           \/ attempt' = [attempt EXCEPT ![w] = Results!Idle] /\ excused' = TRUE
      BY <1>4 DEF Results!StoreFails
  <2>2. UnderWay(r)
      BY <1>a, <1>b, <2>1, PartsChange
  <2> HIDE DEF r
  <2> QED
      BY <1>0, <2>1, <2>2, AttemptGoesOn, UnderWayIsNotIdle DEF ResultsInv, RowTells
<1>5. ASSUME NEW w \in Executors,
             Results!BeforeStart(w) \/ Results!Succeeds(w) \/ Results!Retries(w) \/ Results!Fails(w)
      PROVE  ResultsInv'
  <2> DEFINE run == [attempt[w] EXCEPT !.pc = "run"]
             stored(s) == [attempt[w] EXCEPT !.pc = "select", !.store = s, !.found = FALSE, !.left = StoreTries]
  <2>1. attempt[w].pc \in {"hook", "run"}
      BY <1>5 DEF Results!BeforeStart, Results!Succeeds, Results!Retries, Results!Fails
  <2>2. UnderWay(run) /\ \A s : UnderWay(stored(s))
      BY <1>a, <1>b, <2>1, PartsChange
  <2>a. \/ attempt' = [attempt EXCEPT ![w] = run]
        \/ attempt' = [attempt EXCEPT ![w] = stored("FAILURE")]
        \/ attempt' = [attempt EXCEPT ![w] = stored("SUCCESS")]
        \/ attempt' = [attempt EXCEPT ![w] = stored("RETRY")]
      BY <1>5 DEF Results!BeforeStart, Results!Succeeds, Results!Retries, Results!Fails, Results!Store
  <2> HIDE DEF run, stored
  <2>3. PICK r : UnderWay(r) /\ attempt' = [attempt EXCEPT ![w] = r]
      BY <2>2, <2>a
  <2> QED
      BY <1>0, <2>3, AttemptGoesOn, UnderWayIsNotIdle DEF ResultsInv, RowTells
<1>6. ASSUME NEW w \in Executors, Results!Dies(w) PROVE ResultsInv'
  <2>1. attempt' = [attempt EXCEPT ![w] = Results!Idle] /\ excused' = TRUE
      BY <1>6 DEF Results!Dies
  <2> QED
      BY <1>0, <2>1, AttemptGoesOn DEF ResultsInv, RowTells
<1>7. CASE Results!RevokeTask \/ Results!DeleteRow \/ UNCHANGED resultVars
    BY <1>0, <1>7 DEF Results!RevokeTask, Results!DeleteRow, Results!bounds, resultVars, ResultsInv, AttemptInv, RowTells
<1> QED
    BY <1>1, <1>2, <1>3, <1>4, <1>5, <1>6, <1>7 DEF Results!Next

\* Once nobody has a task nor will be sent it, its row has the outcome of the
\* last attempt, unless the row is gone, a store gave up, a worker died or two
\* workers had the task together.
THEOREM OutcomeTold == TasksSpec => []OutcomeIsTold
<1>1. TasksInit => ResultsInv
    BY InitResults DEF TasksInit
<1>2. ResultsInv /\ [TasksNext]_<<part, vars, resultVars>> => ResultsInv'
    BY NextResults DEF TasksNext
<1>3. ResultsInv => OutcomeIsTold
    BY DEF ResultsInv, RowTells, OutcomeIsTold, Results!OutcomeIsTold
<1> QED
    BY <1>1, <1>2, <1>3, PTL DEF TasksSpec

=============================================================================
