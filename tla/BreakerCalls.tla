---------------------------- MODULE BreakerCalls ----------------------------
(***************************************************************************)
(* One provider's circuit breaker and the gateway calls that go through it *)
(* (backend/app/llm/core/gateway.py).  A call asks for admission, waits    *)
(* for the provider, and reports success or failure whenever the answer    *)
(* comes, however late and whatever state the breaker is in by then.       *)
(***************************************************************************)
EXTENDS CircuitBreaker, FiniteSets

CONSTANT
    Calls         \* the calls that can be in progress at the same time

ASSUME CallsAssumption == IsFiniteSet(Calls)

VARIABLES
    breaker,      \* the breaker of the provider
    call          \* what each call is doing and how it was admitted

vars == <<breaker, call>>

(***************************************************************************)
(* idle      not in progress                                               *)
(* normal    waiting for the provider, admitted while CLOSED               *)
(* probe     waiting, admitted in the present HALF_OPEN period             *)
(* stale     waiting, admitted in a HALF_OPEN period that is over          *)
(* settled   success reported; usage is still being logged and charged     *)
(***************************************************************************)
CallStatus == {"idle", "normal", "probe", "stale", "settled"}

Waiting == {"normal", "probe", "stale"}

Probes == {c \in Calls : call[c] = "probe"}

Init ==
    /\ breaker = NewBreaker
    /\ call = [c \in Calls |-> "idle"]

\* A new HALF_OPEN period makes the probes of the one before it stale.
Aged(next) ==
    [c \in Calls |->
        IF call[c] = "probe" /\ breaker.state = "OPEN" /\ next.state = "HALF_OPEN"
        THEN "stale" ELSE call[c]]

\* allow_request says yes; a refused call changes nothing and is not a step.
Admit(c) ==
    /\ call[c] = "idle"
    /\ Allows(breaker)
    /\ breaker' = AllowRequest(breaker)
    /\ call' = [Aged(breaker') EXCEPT
                   ![c] = IF breaker'.state = "HALF_OPEN" THEN "probe" ELSE "normal"]

Succeed(c) ==
    /\ call[c] \in Waiting
    /\ breaker' = RecordSuccess(breaker)
    /\ call' = [call EXCEPT ![c] = "settled"]

\* The provider call raises, or something after record_success does: the
\* one except clause reports a failure for both.
Fail(c) ==
    /\ call[c] # "idle"
    /\ breaker' = RecordFailure(breaker)
    /\ call' = [call EXCEPT ![c] = "idle"]

Finish(c) ==
    /\ call[c] = "settled"
    /\ call' = [call EXCEPT ![c] = "idle"]
    /\ UNCHANGED breaker

\* The client disconnects: CancelledError and GeneratorExit are not
\* Exceptions, so the except clause is not entered and nothing is reported.
Abandon(c) ==
    /\ call[c] \in Waiting
    /\ call' = [call EXCEPT ![c] = "idle"]
    /\ UNCHANGED breaker

\* The state property and get_status also run _check_state_transition.
ReadStatus ==
    /\ breaker' = CheckStateTransition(breaker)
    /\ call' = Aged(breaker')

Reset ==
    /\ breaker' = NewBreaker
    /\ call' = [c \in Calls |-> IF call[c] = "probe" THEN "stale" ELSE call[c]]

Elapse ==
    /\ breaker' = Older(breaker)
    /\ UNCHANGED call

Next ==
    \/ \E c \in Calls : Admit(c) \/ Succeed(c) \/ Fail(c) \/ Finish(c) \/ Abandon(c)
    \/ ReadStatus \/ Reset \/ Elapse

Spec == Init /\ [][Next]_vars

(***************************************************************************)
(* Time passes, the provider answers or fails every call (litellm bounds   *)
(* each with a timeout), what follows an answer ends, and as long as the   *)
(* breaker would admit a call, some client makes one.                      *)
(***************************************************************************)
Fairness ==
    /\ WF_vars(Elapse)
    /\ WF_vars(\E c \in Calls : Admit(c))
    /\ \A c \in Calls : WF_vars(Succeed(c) \/ Fail(c)) /\ WF_vars(Finish(c) \/ Fail(c))

FairSpec == Spec /\ Fairness

-----------------------------------------------------------------------------

\* Every variable keeps its type: the breaker of circuit_breaker.py has no
\* counter outside its bounds, and each call one status.
TypeOK ==
    /\ breaker \in Breaker
    /\ call \in [Calls -> CallStatus]

\* The breaker is CLOSED exactly while fewer than failure_threshold failures
\* were recorded since the last success or close (record_success,
\* record_failure): no order of late answers leaves it CLOSED at the
\* threshold, or OPEN with a count that a close forgot to clear.
ClosedBelowThreshold ==
    breaker.state = "CLOSED" <=> breaker.failure_count < FailureThreshold

\* The provider is tried again (HALF_OPEN) only when it has been free of
\* failures for longer than recovery_timeout, the late failures of calls
\* that were admitted before the outage included.
TrialsFollowQuiet ==
    breaker.state = "HALF_OPEN" => breaker.elapsed > RecoveryTimeout

\* Successes are counted in HALF_OPEN only and never carried from one
\* HALF_OPEN period into another: outside it the count is zero, and inside
\* it the count is short of closing the breaker.
SuccessesOfOnePeriod ==
    /\ breaker.state # "HALF_OPEN" => breaker.success_count = 0
    /\ breaker.success_count < HalfOpenMaxCalls

\* Of the calls admitted in the latest HALF_OPEN period, never more wait for
\* the provider than slots were taken in allow_request, so never more than
\* half_open_max_calls.
ProbesWithinSlots ==
    /\ Cardinality(Probes) <= breaker.half_open_calls
    /\ breaker.half_open_calls <= HalfOpenMaxCalls

\* Whatever answers when, the counters speak of one period: of failures since
\* the last success or close, of successes and slots since the last trial began.
CountersOfOnePeriod == ClosedBelowThreshold /\ SuccessesOfOnePeriod /\ ProbesWithinSlots

\* An OPEN breaker is tried again: late failures can postpone the trial but,
\* there being only so many calls in progress, not for ever.
OpenIsRetried == breaker.state = "OPEN" ~> breaker.state # "OPEN"

\* A slot whose call neither waits any more nor is among the successes.
SlotIsLost ==
    breaker.half_open_calls > breaker.success_count + Cardinality(Probes)

\* A HALF_OPEN breaker closes or opens again, however late its trials answer
\* and whatever else answers in between, unless one of its slots is lost: the
\* only way in which it can keep its provider out for ever.
HalfOpenResolvesOrLoses ==
    breaker.state = "HALF_OPEN" ~> breaker.state # "HALF_OPEN" \/ SlotIsLost

\* "recovery_timeout" is the time after which a provider is taken back: a
\* HALF_OPEN breaker decides.
HalfOpenResolves == breaker.state = "HALF_OPEN" ~> breaker.state # "HALF_OPEN"

=============================================================================
