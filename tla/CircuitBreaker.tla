--------------------------- MODULE CircuitBreaker ---------------------------
(***************************************************************************)
(* The per-provider circuit breaker of backend/app/llm/core/               *)
(* circuit_breaker.py: its state as a record and each of its methods as an *)
(* operator from the state before to the state after.  Every method runs   *)
(* under the breaker's own lock, so each is one atomic step.               *)
(*                                                                         *)
(* Two fields are abstracted to what the methods can tell apart:           *)
(*   elapsed        time.time() - _last_failure_time, saturated one second *)
(*                  above recovery_timeout;                                *)
(*   failure_count  saturated at failure_threshold, the only value it is   *)
(*                  ever compared with.                                    *)
(***************************************************************************)
EXTENDS Integers

CONSTANTS
    FailureThreshold,    \* failures in a row that open the breaker
    RecoveryTimeout,     \* seconds without a failure before trials start
    HalfOpenMaxCalls     \* trial calls of one HALF_OPEN period

ASSUME BreakerAssumption ==
    /\ FailureThreshold \in Nat \ {0}
    /\ RecoveryTimeout \in Nat
    /\ HalfOpenMaxCalls \in Nat \ {0}

CircuitState == {"CLOSED", "OPEN", "HALF_OPEN"}

LongAgo == RecoveryTimeout + 1

Breaker ==
    [state           : CircuitState,
     failure_count   : 0 .. FailureThreshold,
     success_count   : 0 .. HalfOpenMaxCalls,
     half_open_calls : 0 .. HalfOpenMaxCalls,
     elapsed         : 0 .. LongAgo]

\* __init__ and reset leave the same state.
NewBreaker ==
    [state |-> "CLOSED", failure_count |-> 0, success_count |-> 0,
     half_open_calls |-> 0, elapsed |-> LongAgo]

-----------------------------------------------------------------------------

CheckStateTransition(b) ==
    IF b.state = "OPEN" /\ b.elapsed > RecoveryTimeout
    THEN [b EXCEPT !.state = "HALF_OPEN", !.half_open_calls = 0, !.success_count = 0]
    ELSE b

\* Variant with a bug: the answer forgets the transition out of OPEN.
AllowsUnchecked(b) ==
    \/ b.state = "CLOSED"
    \/ b.state = "HALF_OPEN" /\ b.half_open_calls < HalfOpenMaxCalls

\* What allow_request answers, after its _check_state_transition.
Allows(b) ==
    LET c == CheckStateTransition(b)
    IN  \/ c.state = "CLOSED"
        \/ c.state = "HALF_OPEN" /\ c.half_open_calls < HalfOpenMaxCalls

\* Variant with a bug: a slot given but not counted.
AllowRequestUncounted(b) == CheckStateTransition(b)

\* What allow_request leaves behind.
AllowRequest(b) ==
    LET c == CheckStateTransition(b)
    IN  IF c.state = "HALF_OPEN" /\ c.half_open_calls < HalfOpenMaxCalls
        THEN [c EXCEPT !.half_open_calls = @ + 1]
        ELSE c

\* Variant with a bug: closing takes one success more than there are slots.
RecordSuccessOneMore(b) ==
    IF b.state = "HALF_OPEN"
    THEN IF b.success_count + 1 > HalfOpenMaxCalls
         THEN [b EXCEPT !.state = "CLOSED", !.failure_count = 0, !.success_count = 0]
         ELSE [b EXCEPT !.success_count = @ + 1]
    ELSE IF b.state = "CLOSED" THEN [b EXCEPT !.failure_count = 0] ELSE b

\* The trial that completes the period's successes closes the breaker.
RecordSuccess(b) ==
    IF b.state = "HALF_OPEN"
    THEN IF b.success_count + 1 >= HalfOpenMaxCalls
         THEN [b EXCEPT !.state = "CLOSED", !.failure_count = 0, !.success_count = 0]
         ELSE [b EXCEPT !.success_count = @ + 1]
    ELSE IF b.state = "CLOSED" THEN [b EXCEPT !.failure_count = 0] ELSE b

Counted(b) ==
    [b EXCEPT !.failure_count = IF @ < FailureThreshold THEN @ + 1 ELSE @,
              !.elapsed = 0]

\* Variant with a bug: a failed trial does not open the breaker.
RecordFailureTolerant(b) ==
    LET c == Counted(b)
    IN  IF b.state = "CLOSED" /\ c.failure_count >= FailureThreshold
        THEN [c EXCEPT !.state = "OPEN"]
        ELSE c

\* One failed trial opens the breaker, and so do failure_threshold failures
\* in a row; OPEN only counts and restarts the wait.
RecordFailure(b) ==
    LET c == Counted(b)
    IN  IF b.state = "HALF_OPEN"
        THEN [c EXCEPT !.state = "OPEN", !.success_count = 0]
        ELSE IF b.state = "CLOSED" /\ c.failure_count >= FailureThreshold
             THEN [c EXCEPT !.state = "OPEN"]
             ELSE c

\* One second passes.
Older(b) == [b EXCEPT !.elapsed = IF @ < LongAgo THEN @ + 1 ELSE @]

=============================================================================
