----------------------------- MODULE Snowflake -----------------------------
(***************************************************************************)
(* The id generator of one process, backend/utils/snowflake.py: generate   *)
(* and parse, against a wall clock that NTP may set back at any time.      *)
(* generate holds a lock from beginning to end, also while it sleeps until *)
(* the next millisecond, so at most one generation is under way.           *)
(* Milliseconds are counted from EPOCH.                                    *)
(***************************************************************************)
EXTENDS Integers, Sequences

CONSTANTS
    SequenceSize,     \* SEQUENCE_MASK + 1, 4096 in the code
    Workers,          \* MAX_WORKER_ID + 1, 32 in the code
    Datacenters,      \* MAX_DATACENTER_ID + 1, 32 in the code
    Tolerance,        \* CLOCK_BACKWARD_TOLERANCE_MS
    datacenter_id,
    worker_id,
    MaxClock          \* bound: the last millisecond that is modelled

ASSUME SnowflakeAssumption ==
    /\ SequenceSize \in Nat \ {0} /\ Workers \in Nat \ {0} /\ Datacenters \in Nat \ {0}
    /\ Tolerance \in Nat /\ MaxClock \in Nat
    /\ datacenter_id \in 0 .. Datacenters - 1
    /\ worker_id \in 0 .. Workers - 1

VARIABLES
    clock,            \* what _current_ms reads
    last_timestamp,
    sequence,
    waiting,          \* why the generation that holds the lock is waiting
    ids               \* history: every id that generate returned

vars == <<clock, last_timestamp, sequence, waiting, ids>>

\* The shifts and ORs of generate: each field is below the weight of the
\* next, so they add up.
WorkerWeight == SequenceSize
DatacenterWeight == Workers * WorkerWeight
TimestampWeight == Datacenters * DatacenterWeight

NodeBits == datacenter_id * DatacenterWeight + worker_id * WorkerWeight

Id(timestamp, seq) == timestamp * TimestampWeight + NodeBits + seq

\* parse, the inverse.
TimestampOf(id) == id \div TimestampWeight
DatacenterOf(id) == (id \div DatacenterWeight) % Datacenters
WorkerOf(id) == (id \div WorkerWeight) % Workers
SequenceOf(id) == id % SequenceSize

Init ==
    /\ clock = 0
    /\ last_timestamp = -1
    /\ sequence = 0
    /\ waiting = "no"
    /\ ids = <<>>

-----------------------------------------------------------------------------
(* generate *)

Return(timestamp, seq) ==
    /\ last_timestamp' = timestamp
    /\ sequence' = seq
    /\ ids' = Append(ids, Id(timestamp, seq))
    /\ waiting' = "no"
    /\ UNCHANGED clock

\* The clock has moved on since the last id.
NewMillisecond ==
    /\ waiting = "no"
    /\ clock > last_timestamp
    /\ Return(clock, 0)

\* Variant with a bug: one id too many in a millisecond.
SameMillisecondOneMore ==
    /\ waiting = "no"
    /\ clock = last_timestamp
    /\ sequence + 1 <= SequenceSize
    /\ Return(clock, sequence + 1)

SameMillisecond ==
    /\ waiting = "no"
    /\ clock = last_timestamp
    /\ sequence + 1 < SequenceSize
    /\ Return(clock, sequence + 1)

\* The sequence wraps: wait for the next millisecond.
Exhausted ==
    /\ waiting = "no"
    /\ clock = last_timestamp
    /\ sequence + 1 = SequenceSize
    /\ sequence' = 0
    /\ waiting' = "full"
    /\ UNCHANGED <<clock, last_timestamp, ids>>

\* The clock went back a little: wait until it has caught up.  When it went
\* back further, generate raises and changes nothing, which is no step.
Behind ==
    /\ waiting = "no"
    /\ clock < last_timestamp
    /\ last_timestamp - clock <= Tolerance
    /\ waiting' = "behind"
    /\ UNCHANGED <<clock, last_timestamp, sequence, ids>>

\* Variant with a bug: waits only until the clock is back at last_timestamp.
CaughtUpTooSoon ==
    /\ waiting # "no"
    /\ clock >= last_timestamp
    /\ Return(clock, 0)

\* _till_next_ms returns; either way the id begins a new sequence.
CaughtUp ==
    /\ waiting # "no"
    /\ clock > last_timestamp
    /\ Return(clock, 0)

-----------------------------------------------------------------------------

Tick ==
    /\ clock < MaxClock
    /\ clock' = clock + 1
    /\ UNCHANGED <<last_timestamp, sequence, waiting, ids>>

StepBack ==
    /\ \E earlier \in 0 .. MaxClock : earlier < clock /\ clock' = earlier
    /\ UNCHANGED <<last_timestamp, sequence, waiting, ids>>

Next ==
    \/ NewMillisecond \/ SameMillisecond \/ Exhausted \/ Behind \/ CaughtUp
    \/ Tick \/ StepBack

Spec == Init /\ [][Next]_vars

-----------------------------------------------------------------------------

\* Every variable keeps its type; the sequence fits its bits.
TypeOK ==
    /\ clock \in 0 .. MaxClock
    /\ last_timestamp \in -1 .. MaxClock
    /\ sequence \in 0 .. SequenceSize - 1
    /\ waiting \in {"no", "full", "behind"}
    /\ ids \in Seq(Nat)

\* However the clock is set back, and however many ids are asked for in one
\* millisecond, a process returns strictly increasing ids, so none twice.
IdsIncrease ==
    \A i, j \in 1 .. Len(ids) : i < j => ids[i] < ids[j]

\* parse finds this node and a possible time and sequence in every id that
\* generate returned.
IdsParse ==
    \A i \in 1 .. Len(ids) :
        /\ DatacenterOf(ids[i]) = datacenter_id
        /\ WorkerOf(ids[i]) = worker_id
        /\ TimestampOf(ids[i]) <= last_timestamp
        /\ ids[i] = Id(TimestampOf(ids[i]), SequenceOf(ids[i]))

=============================================================================
