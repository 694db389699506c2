------------------------- MODULE BreakerCallsProofs -------------------------
(***************************************************************************)
(* The safety invariants of BreakerCalls for every threshold, timeout,     *)
(* trial budget and finite set of calls.  One inductive invariant carries  *)
(* them all: an OPEN breaker may only turn HALF_OPEN with its counters     *)
(* cleared, and the number of probes is bounded by the slots taken.        *)
(***************************************************************************)
EXTENDS BreakerCalls, FiniteSetTheorems, TLAPS

\* The breaker's own part of the invariant.
Sound(b) ==
    /\ b \in Breaker
    /\ b.state = "CLOSED" <=> b.failure_count < FailureThreshold
    /\ b.state = "HALF_OPEN" => b.elapsed > RecoveryTimeout
    /\ b.state # "HALF_OPEN" => b.success_count = 0
    /\ b.success_count < HalfOpenMaxCalls

IInv ==
    /\ Sound(breaker)
    /\ call \in [Calls -> CallStatus]
    /\ Cardinality(Probes) <= breaker.half_open_calls

-----------------------------------------------------------------------------
(* Lemmas about the methods of the breaker. *)

\* Every method of circuit_breaker.py keeps the breaker sound.
LEMMA NewBreakerSound == Sound(NewBreaker)
  BY BreakerAssumption DEF Sound, NewBreaker, Breaker, CircuitState, LongAgo

\* _check_state_transition keeps the breaker sound.
LEMMA TransitionSound ==
  ASSUME NEW b, Sound(b)
  PROVE  Sound(CheckStateTransition(b))
  BY BreakerAssumption
  DEF Sound, CheckStateTransition, Breaker, CircuitState, LongAgo

\* allow_request keeps the breaker sound.
LEMMA AllowSound ==
  ASSUME NEW b, Sound(b)
  PROVE  Sound(AllowRequest(b))
  <1> DEFINE c == CheckStateTransition(b)
  <1>1. Sound(c)
    BY TransitionSound
  <1>2. c \in Breaker
    BY <1>1 DEF Sound
  <1> HIDE DEF c
  <1>3. Sound(IF c.state = "HALF_OPEN" /\ c.half_open_calls < HalfOpenMaxCalls
              THEN [c EXCEPT !.half_open_calls = @ + 1] ELSE c)
    BY <1>1, <1>2, BreakerAssumption DEF Sound, Breaker, CircuitState, LongAgo
  <1> QED
    BY <1>3 DEF AllowRequest, c

\* record_success keeps the breaker sound.
LEMMA SuccessSound ==
  ASSUME NEW b, Sound(b)
  PROVE  Sound(RecordSuccess(b))
  <1> DEFINE closed == [b EXCEPT !.state = "CLOSED", !.failure_count = 0, !.success_count = 0]
             trial  == [b EXCEPT !.success_count = @ + 1]
             calm   == [b EXCEPT !.failure_count = 0]
  <1>1. /\ "CLOSED" \in CircuitState
        /\ 0 \in 0 .. FailureThreshold
        /\ 0 \in 0 .. HalfOpenMaxCalls
    BY BreakerAssumption DEF CircuitState
  <1>2. b \in Breaker
    BY DEF Sound
  <1>3. CASE b.state = "HALF_OPEN" /\ b.success_count + 1 >= HalfOpenMaxCalls
    <2>1. closed \in Breaker
      BY <1>1, <1>2, Zenon DEF Breaker
    <2>2. /\ closed.state = "CLOSED" /\ closed.failure_count = 0
          /\ closed.success_count = 0
      BY <1>2 DEF Breaker
    <2> QED
      BY <1>3, <2>1, <2>2, BreakerAssumption DEF Sound, RecordSuccess
  <1>4. CASE b.state = "HALF_OPEN" /\ b.success_count + 1 < HalfOpenMaxCalls
    <2>1. b.success_count + 1 \in 0 .. HalfOpenMaxCalls
      BY <1>2, <1>4, BreakerAssumption DEF Breaker
    <2>2. trial \in Breaker
      BY <1>2, <2>1, Zenon DEF Breaker
    <2>3. /\ trial.state = b.state /\ trial.failure_count = b.failure_count
          /\ trial.success_count = b.success_count + 1 /\ trial.elapsed = b.elapsed
      BY <1>2 DEF Breaker
    <2>4. RecordSuccess(b) = trial
      BY <1>2, <1>4, BreakerAssumption DEF RecordSuccess, Breaker
    <2> QED
      BY <1>4, <2>2, <2>3, <2>4 DEF Sound
  <1>5. CASE b.state = "CLOSED"
    <2>1. calm \in Breaker
      BY <1>1, <1>2, Zenon DEF Breaker
    <2>2. /\ calm.state = b.state /\ calm.failure_count = 0
          /\ calm.success_count = b.success_count
      BY <1>2 DEF Breaker
    <2> QED
      BY <1>5, <2>1, <2>2, BreakerAssumption DEF Sound, RecordSuccess
  <1>6. CASE b.state = "OPEN"
    BY <1>6 DEF RecordSuccess
  <1> QED
    BY <1>2, <1>3, <1>4, <1>5, <1>6, BreakerAssumption DEF Breaker, CircuitState

\* Counting a failure moves only the count and the clock.
LEMMA CountedFields ==
  ASSUME NEW b \in Breaker
  PROVE  /\ Counted(b) \in Breaker
         /\ Counted(b).state = b.state
         /\ Counted(b).success_count = b.success_count
         /\ Counted(b).half_open_calls = b.half_open_calls
         /\ Counted(b).failure_count =
               IF b.failure_count < FailureThreshold
               THEN b.failure_count + 1 ELSE b.failure_count
  <1> DEFINE n == IF b.failure_count < FailureThreshold
                  THEN b.failure_count + 1 ELSE b.failure_count
  <1>1. n \in 0 .. FailureThreshold /\ 0 \in 0 .. LongAgo
    BY BreakerAssumption DEF Breaker, LongAgo
  <1>2. Counted(b) = [b EXCEPT !.failure_count = n, !.elapsed = 0]
    BY DEF Counted
  <1> HIDE DEF n
  <1>3. Counted(b) \in Breaker
    BY <1>1, <1>2, Zenon DEF Breaker
  <1>4. /\ Counted(b).state = b.state
        /\ Counted(b).success_count = b.success_count
        /\ Counted(b).half_open_calls = b.half_open_calls
        /\ Counted(b).failure_count = n
    BY <1>2 DEF Breaker
  <1> QED
    BY <1>3, <1>4 DEF n

\* record_failure keeps the breaker sound.
LEMMA FailureSound ==
  ASSUME NEW b, Sound(b)
  PROVE  Sound(RecordFailure(b))
  <1> DEFINE c      == Counted(b)
             failed == [c EXCEPT !.state = "OPEN", !.success_count = 0]
             opened == [c EXCEPT !.state = "OPEN"]
  <1>1. b \in Breaker
    BY DEF Sound
  <1>2. /\ c \in Breaker
        /\ c.state = b.state /\ c.success_count = b.success_count
        /\ c.failure_count = IF b.failure_count < FailureThreshold
                             THEN b.failure_count + 1 ELSE b.failure_count
    BY <1>1, CountedFields
  <1>3. RecordFailure(b) =
          IF b.state = "HALF_OPEN" THEN failed
          ELSE IF b.state = "CLOSED" /\ c.failure_count >= FailureThreshold
               THEN opened ELSE c
    BY DEF RecordFailure
  <1>4. "OPEN" \in CircuitState /\ 0 \in 0 .. HalfOpenMaxCalls
    BY BreakerAssumption DEF CircuitState
  <1> HIDE DEF c
  <1>5. CASE b.state = "HALF_OPEN"
    <2>1. failed \in Breaker
      BY <1>2, <1>4, Zenon DEF Breaker
    <2>2. /\ failed.state = "OPEN" /\ failed.success_count = 0
          /\ failed.failure_count = c.failure_count
      BY <1>2 DEF Breaker
    <2>3. ~(c.failure_count < FailureThreshold)
      BY <1>1, <1>2, <1>5, BreakerAssumption DEF Sound, Breaker
    <2> QED
      BY <1>3, <1>5, <2>1, <2>2, <2>3, BreakerAssumption DEF Sound
  <1>6. CASE b.state = "CLOSED" /\ c.failure_count >= FailureThreshold
    <2>1. opened \in Breaker
      BY <1>2, <1>4, Zenon DEF Breaker
    <2>2. /\ opened.state = "OPEN" /\ opened.success_count = c.success_count
          /\ opened.failure_count = c.failure_count
      BY <1>2 DEF Breaker
    <2>3. ~(c.failure_count < FailureThreshold)
      BY <1>2, <1>6, BreakerAssumption DEF Breaker
    <2> QED
      BY <1>2, <1>3, <1>6, <2>1, <2>2, <2>3 DEF Sound
  <1>7. CASE b.state = "CLOSED" /\ ~(c.failure_count >= FailureThreshold)
    <2>1. c.failure_count < FailureThreshold
      BY <1>2, <1>7, BreakerAssumption DEF Breaker
    <2> QED
      BY <1>2, <1>3, <1>7, <2>1 DEF Sound
  <1>8. CASE b.state = "OPEN"
    BY <1>1, <1>2, <1>3, <1>8, BreakerAssumption DEF Sound, Breaker
  <1> QED
    BY <1>1, <1>5, <1>6, <1>7, <1>8 DEF Breaker, CircuitState

\* No method gives back a slot that was taken in the present period.
LEMMA SlotsKept ==
  ASSUME NEW b, Sound(b)
  PROVE  /\ RecordSuccess(b).half_open_calls = b.half_open_calls
         /\ RecordFailure(b).half_open_calls = b.half_open_calls
         /\ Older(b).half_open_calls = b.half_open_calls
  BY BreakerAssumption
  DEF Sound, Breaker, CircuitState, RecordSuccess, RecordFailure, Counted, Older

\* A second passing keeps the breaker sound.
LEMMA OlderSound ==
  ASSUME NEW b, Sound(b)
  PROVE  Sound(Older(b))
  BY BreakerAssumption DEF Sound, Older, Breaker, LongAgo

\* allow_request takes at most one slot, and none outside HALF_OPEN; a
\* transition clears the slots only when it opens a new period.
LEMMA SlotsTaken ==
  ASSUME NEW b, Sound(b)
  PROVE  LET c == CheckStateTransition(b)
             a == AllowRequest(b)
         IN  /\ ~(b.state = "OPEN" /\ c.state = "HALF_OPEN") =>
                   c.half_open_calls = b.half_open_calls
             /\ a.state = c.state
             /\ Allows(b) /\ a.state = "HALF_OPEN" =>
                   a.half_open_calls = c.half_open_calls + 1
             /\ a.state # "HALF_OPEN" => a.half_open_calls = c.half_open_calls
  BY BreakerAssumption
  DEF Sound, Breaker, CircuitState, CheckStateTransition, AllowRequest, Allows

-----------------------------------------------------------------------------
(* The calls. *)

\* The set of probes is finite, and loses or gains a call as its status says.
LEMMA ProbesFinite ==
  IsFiniteSet(Probes) /\ Cardinality(Probes) \in Nat
  <1>1. Probes \subseteq Calls
    BY DEF Probes
  <1> QED
    BY <1>1, CallsAssumption, FS_Subset, FS_CardinalityType

\* A step after which every probe was a probe before keeps their bound.
LEMMA FewerProbes ==
  ASSUME Probes' \subseteq Probes
  PROVE  Cardinality(Probes') <= Cardinality(Probes)
  BY ProbesFinite, FS_Subset

\* A call that is admitted adds at most itself to the probes.
LEMMA OneMoreProbe ==
  ASSUME NEW c \in Calls, Probes' \subseteq Probes \cup {c}
  PROVE  Cardinality(Probes') <= Cardinality(Probes) + 1
  <1> DEFINE P == Probes
  <1>1. IsFiniteSet(P) /\ Cardinality(P) \in Nat
    BY ProbesFinite
  <1> HIDE DEF P
  <1>2. /\ IsFiniteSet(P \cup {c})
        /\ Cardinality(P \cup {c}) = IF c \in P THEN Cardinality(P) ELSE Cardinality(P) + 1
    BY <1>1, FS_AddElement
  <1>3. /\ IsFiniteSet(Probes \cup {c})
        /\ Cardinality(Probes \cup {c}) <= Cardinality(Probes) + 1
    BY <1>1, <1>2 DEF P
  <1>4. IsFiniteSet(Probes') /\ Cardinality(Probes') <= Cardinality(Probes \cup {c})
    BY <1>3, FS_Subset
  <1>5. Cardinality(Probes') \in Nat /\ Cardinality(Probes \cup {c}) \in Nat
    BY <1>3, <1>4, FS_CardinalityType
  <1> QED
    BY <1>3, <1>4, <1>5, ProbesFinite

-----------------------------------------------------------------------------
(* The steps. *)

\* The initial state satisfies the invariant.
LEMMA InitIInv == Init => IInv
  <1> SUFFICES ASSUME Init PROVE IInv
    OBVIOUS
  <1>1. Probes = {} /\ call \in [Calls -> CallStatus]
    BY DEF Init, Probes, CallStatus
  <1> QED
    BY <1>1, NewBreakerSound, FS_EmptySet DEF Init, IInv, NewBreaker

\* Admission: a new period starts without probes; within a period each probe
\* takes its own slot; a CLOSED breaker admits no probe.
LEMMA AdmitIInv ==
  ASSUME IInv, NEW c \in Calls, Admit(c)
  PROVE  IInv'
  <1>1. Sound(breaker) /\ call \in [Calls -> CallStatus]
    BY DEF IInv
  <1>2. Sound(breaker)'
    BY <1>1, AllowSound DEF Admit
  <1>3. call' \in [Calls -> CallStatus]
    BY <1>1 DEF Admit, Aged, CallStatus
  <1>4. Cardinality(Probes') <= breaker'.half_open_calls
    <2> DEFINE t == CheckStateTransition(breaker)
    <2>1. breaker' = AllowRequest(breaker) /\ Allows(breaker)
      BY DEF Admit
    <2>2. /\ ~(breaker.state = "OPEN" /\ t.state = "HALF_OPEN") =>
                t.half_open_calls = breaker.half_open_calls
          /\ breaker'.state = t.state
          /\ breaker'.state = "HALF_OPEN" =>
                breaker'.half_open_calls = t.half_open_calls + 1
          /\ breaker'.state # "HALF_OPEN" =>
                breaker'.half_open_calls = t.half_open_calls
      BY <1>1, <2>1, SlotsTaken
    <2>3. breaker.half_open_calls \in Nat /\ breaker'.half_open_calls \in Nat
      BY <1>1, <1>2 DEF Sound, Breaker
    <2>4. t.half_open_calls \in Nat
      <3>1. Sound(t)
        BY <1>1, TransitionSound
      <3> QED
        BY <3>1 DEF Sound, Breaker
    <2> HIDE DEF t
    <2>5. CASE breaker.state = "OPEN" /\ t.state = "HALF_OPEN"
      <3>1. Probes' \subseteq {c}
        BY <2>2, <2>5 DEF Admit, Aged, Probes
      <3>2. IsFiniteSet({c}) /\ Cardinality({c}) = 1
        BY FS_Singleton
      <3>3. Cardinality(Probes') <= 1 /\ Cardinality(Probes') \in Nat
        BY <3>1, <3>2, FS_Subset, FS_CardinalityType
      <3> QED
        BY <2>2, <2>3, <2>4, <2>5, <3>3
    <2>6. CASE ~(breaker.state = "OPEN" /\ t.state = "HALF_OPEN")
               /\ breaker'.state = "HALF_OPEN"
      <3>1. Probes' \subseteq Probes \cup {c}
        BY <1>1 DEF Admit, Aged, Probes
      <3>2. Cardinality(Probes') <= Cardinality(Probes) + 1
        BY <3>1, OneMoreProbe
      <3>3. Probes' \subseteq Probes \cup {c} /\ IsFiniteSet(Probes \cup {c})
        BY <3>1, ProbesFinite, FS_AddElement
      <3>4. Cardinality(Probes') \in Nat
        BY <3>3, FS_Subset, FS_CardinalityType
      <3> QED
        BY <2>2, <2>3, <2>4, <2>6, <3>2, <3>4, ProbesFinite DEF IInv
    <2>7. CASE breaker'.state # "HALF_OPEN"
      <3>1. Probes' \subseteq Probes
        BY <1>1, <2>7 DEF Admit, Aged, Probes
      <3>2. Cardinality(Probes') <= Cardinality(Probes)
        BY <3>1, FewerProbes
      <3>3. Cardinality(Probes') \in Nat
        BY <3>1, ProbesFinite, FS_Subset, FS_CardinalityType
      <3> QED
        BY <2>2, <2>3, <2>7, <3>2, <3>3, ProbesFinite DEF IInv
    <2> QED
      BY <2>5, <2>6, <2>7
  <1> QED
    BY <1>2, <1>3, <1>4 DEF IInv

\* A step that adds no probe and gives back no slot keeps the invariant.
LEMMA QuietStep ==
  ASSUME IInv, Sound(breaker)', call' \in [Calls -> CallStatus],
         Probes' \subseteq Probes,
         \/ breaker'.half_open_calls = breaker.half_open_calls
         \/ Probes' = {}
  PROVE  IInv'
  <1>1. Cardinality(Probes') <= Cardinality(Probes) /\ Cardinality(Probes') \in Nat
    BY FewerProbes, ProbesFinite, FS_Subset, FS_CardinalityType
  <1>2. breaker.half_open_calls \in Nat /\ breaker'.half_open_calls \in Nat
    BY DEF IInv, Sound, Breaker
  <1>3. CASE breaker'.half_open_calls = breaker.half_open_calls
    BY <1>1, <1>2, <1>3, ProbesFinite DEF IInv
  <1>4. CASE Probes' = {}
    BY <1>2, <1>4, FS_EmptySet DEF IInv
  <1> QED
    BY <1>3, <1>4

\* The inductive step, one case per action.
LEMMA NextIInv == IInv /\ [Next]_vars => IInv'
  <1> SUFFICES ASSUME IInv, [Next]_vars PROVE IInv'
    OBVIOUS
  <1>1. Sound(breaker) /\ call \in [Calls -> CallStatus]
    BY DEF IInv
  <1>2. ASSUME NEW c \in Calls, Admit(c) PROVE IInv'
    BY <1>2, AdmitIInv
  <1>3. ASSUME NEW c \in Calls, Succeed(c) PROVE IInv'
    <2>1. Sound(breaker)' /\ breaker'.half_open_calls = breaker.half_open_calls
      BY <1>1, <1>3, SuccessSound, SlotsKept DEF Succeed
    <2>2. call' \in [Calls -> CallStatus] /\ Probes' \subseteq Probes
      BY <1>1, <1>3 DEF Succeed, CallStatus, Probes
    <2> QED
      BY <2>1, <2>2, QuietStep
  <1>4. ASSUME NEW c \in Calls, Fail(c) PROVE IInv'
    <2>1. Sound(breaker)' /\ breaker'.half_open_calls = breaker.half_open_calls
      BY <1>1, <1>4, FailureSound, SlotsKept DEF Fail
    <2>2. call' \in [Calls -> CallStatus] /\ Probes' \subseteq Probes
      BY <1>1, <1>4 DEF Fail, CallStatus, Probes
    <2> QED
      BY <2>1, <2>2, QuietStep
  <1>5. ASSUME NEW c \in Calls, Finish(c) \/ Abandon(c) PROVE IInv'
    <2>1. Sound(breaker)' /\ breaker' = breaker
      BY <1>1, <1>5 DEF Finish, Abandon
    <2>2. call' \in [Calls -> CallStatus] /\ Probes' \subseteq Probes
      BY <1>1, <1>5 DEF Finish, Abandon, CallStatus, Probes
    <2> QED
      BY <2>1, <2>2, QuietStep
  <1>6. ASSUME ReadStatus PROVE IInv'
    <2>1. Sound(breaker)'
      BY <1>1, <1>6, TransitionSound DEF ReadStatus
    <2>2. call' \in [Calls -> CallStatus] /\ Probes' \subseteq Probes
      BY <1>1, <1>6 DEF ReadStatus, Aged, CallStatus, Probes
    <2>3. \/ breaker'.half_open_calls = breaker.half_open_calls
          \/ Probes' = {}
      BY <1>1, <1>6, SlotsTaken DEF ReadStatus, Aged, Probes
    <2> QED
      BY <2>1, <2>2, <2>3, QuietStep
  <1>7. ASSUME Reset PROVE IInv'
    <2>1. Sound(breaker)'
      BY <1>7, NewBreakerSound DEF Reset
    <2>2. call' \in [Calls -> CallStatus] /\ Probes' = {}
      BY <1>1, <1>7 DEF Reset, CallStatus, Probes
    <2> QED
      BY <2>1, <2>2, QuietStep
  <1>8. ASSUME Elapse PROVE IInv'
    <2>1. Sound(breaker)' /\ breaker'.half_open_calls = breaker.half_open_calls
      BY <1>1, <1>8, OlderSound, SlotsKept DEF Elapse
    <2>2. call' \in [Calls -> CallStatus] /\ Probes' \subseteq Probes
      BY <1>1, <1>8 DEF Elapse, Probes
    <2> QED
      BY <2>1, <2>2, QuietStep
  <1>9. CASE UNCHANGED vars
    <2>1. /\ Sound(breaker)' /\ breaker' = breaker
          /\ call' \in [Calls -> CallStatus] /\ Probes' \subseteq Probes
      BY <1>1, <1>9 DEF vars, Probes
    <2> QED
      BY <2>1, QuietStep
  <1> QED
    BY <1>2, <1>3, <1>4, <1>5, <1>6, <1>7, <1>8, <1>9 DEF Next

-----------------------------------------------------------------------------
(* The theorems. *)

\* The inductive invariant holds in every reachable state.
THEOREM Inductive == Spec => []IInv
  <1> QED
    BY InitIInv, NextIInv, PTL DEF Spec

\* Every variable keeps its type (TypeOK of BreakerCalls).
THEOREM TypeCorrect == Spec => []TypeOK
  <1>1. IInv => TypeOK
    BY DEF IInv, Sound, TypeOK
  <1> QED
    BY <1>1, Inductive, PTL

\* Whatever the order of late answers, the breaker is CLOSED exactly while
\* its failures are below the threshold.
THEOREM ClosedMeansBelow == Spec => []ClosedBelowThreshold
  <1>1. IInv => ClosedBelowThreshold
    BY DEF IInv, Sound, ClosedBelowThreshold
  <1> QED
    BY <1>1, Inductive, PTL

\* Trials begin only after recovery_timeout without a failure.
THEOREM TrialsWait == Spec => []TrialsFollowQuiet
  <1>1. IInv => TrialsFollowQuiet
    BY DEF IInv, Sound, TrialsFollowQuiet
  <1> QED
    BY <1>1, Inductive, PTL

\* Successes never outlive the HALF_OPEN period they were counted in.
THEOREM SuccessesStay == Spec => []SuccessesOfOnePeriod
  <1>1. IInv => SuccessesOfOnePeriod
    BY DEF IInv, Sound, SuccessesOfOnePeriod
  <1> QED
    BY <1>1, Inductive, PTL

\* At most half_open_max_calls probes of a period wait for the provider.
THEOREM ProbesBounded == Spec => []ProbesWithinSlots
  <1>1. IInv => ProbesWithinSlots
    BY BreakerAssumption DEF IInv, Sound, Breaker, ProbesWithinSlots
  <1> QED
    BY <1>1, Inductive, PTL

\* Together: every counter speaks of one period, whatever answers when.
THEOREM CountersStay == Spec => []CountersOfOnePeriod
  <1>1. ClosedBelowThreshold /\ SuccessesOfOnePeriod /\ ProbesWithinSlots => CountersOfOnePeriod
    BY DEF CountersOfOnePeriod
  <1> QED
    BY <1>1, ClosedMeansBelow, SuccessesStay, ProbesBounded, PTL

=============================================================================
