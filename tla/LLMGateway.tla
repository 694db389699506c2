----------------------------- MODULE LLMGateway -----------------------------
(***************************************************************************)
(* The LLM gateway (backend/app/llm/core/gateway.py and the service in     *)
(* front of it): requests choose a model, ask its provider's circuit       *)
(* breaker for admission or fall back to another model of the group, call  *)
(* the provider, and then report to the breaker, write the usage log and   *)
(* charge the tokens.  Everything between two awaits is one step.          *)
(*                                                                         *)
(* The three ways in are                                                   *)
(*   chat       chat_completion, one response                              *)
(*   stream     chat_completion_stream, chunks and a final [DONE]          *)
(*   anthropic  anthropic_messages_stream, which consumes stream's chunks  *)
(* Rate limiting is RateLimiter.tla; a request refused there, or whose     *)
(* model is unknown or disabled, changes nothing here and is not modelled. *)
(***************************************************************************)
EXTENDS CircuitBreaker, FiniteSets, Sequences

CONSTANTS
    Requests,       \* requests that can be in progress at once
    Models,
    Providers,
    ProviderOf,     \* the provider of each model
    Group,          \* model_ids of the model group, in order
    APIs,           \* the ways in that clients use
    NoModel         \* no model

ASSUME GatewayAssumption ==
    /\ ProviderOf \in [Models -> Providers]
    /\ Group \in Seq(Models)
    /\ APIs \subseteq {"chat", "stream", "anthropic"}
    /\ NoModel \notin Models

VARIABLES
    breaker,    \* one circuit breaker for each provider
    pc,         \* where each request is
    local,      \* the local variables of its handler
    usage,      \* rows of the usage log with its request_id
    charges,    \* times consume_tokens has counted its tokens
    client,     \* what its client has been given so far
    verdicts,   \* history: what was reported to a breaker for it
    mishap      \* history: its client left, or something other than the
                \* provider failed: the database, Redis, the key store

vars == <<breaker, pc, local, usage, charges, client, verdicts, mishap>>

Stage == {"idle", "admit", "scan", "build", "call", "stream", "done", "log",
          "charge", "respond", "error"}

(***************************************************************************)
(* api       the way in                                                    *)
(* model     the model the request uses                                    *)
(* scan      how many models of Group _get_fallback_models has looked at   *)
(* fallback  fallback_models[0] so far                                     *)
(***************************************************************************)
Locals ==
    [api      : APIs \cup {"none"},
     model    : Models \cup {NoModel},
     scan     : 0 .. Len(Group),
     fallback : Models \cup {NoModel}]

Fresh(a, m) ==
    [api |-> a, model |-> m, scan |-> 0, fallback |-> NoModel]

NoRequest == Fresh("none", NoModel)

Init ==
    /\ breaker = [p \in Providers |-> NewBreaker]
    /\ pc = [r \in Requests |-> "idle"]
    /\ local = [r \in Requests |-> NoRequest]
    /\ usage = [r \in Requests |-> {}]
    /\ charges = [r \in Requests |-> 0]
    /\ client = [r \in Requests |-> "nothing"]
    /\ verdicts = [r \in Requests |-> {}]
    /\ mishap = [r \in Requests |-> FALSE]

ProviderFor(r) == ProviderOf[local[r].model]

Goto(r, stage) ==
    /\ pc' = [pc EXCEPT ![r] = stage]
    /\ UNCHANGED local

\* The handler is left, and its local variables with it.
Leave(r) ==
    /\ pc' = [pc EXCEPT ![r] = "idle"]
    /\ local' = [local EXCEPT ![r] = NoRequest]

Mishap(r) == mishap' = [mishap EXCEPT ![r] = TRUE]

Give(r, what) == client' = [client EXCEPT ![r] = what]

Report(r, verdict) ==
    /\ breaker' = [breaker EXCEPT ![ProviderFor(r)] =
                      IF verdict = "success" THEN RecordSuccess(@) ELSE RecordFailure(@)]
    /\ verdicts' = [verdicts EXCEPT ![r] = @ \cup {verdict}]

-----------------------------------------------------------------------------
(* Admission. *)

\* A new request passes check_all, _get_model_config and _get_provider.
Arrive(r) ==
    /\ pc[r] = "idle"
    /\ pc' = [pc EXCEPT ![r] = "admit"]
    /\ \E a \in APIs, m \in Models : local' = [local EXCEPT ![r] = Fresh(a, m)]
    /\ usage' = [usage EXCEPT ![r] = {}]
    /\ charges' = [charges EXCEPT ![r] = 0]
    /\ client' = [client EXCEPT ![r] = "nothing"]
    /\ verdicts' = [verdicts EXCEPT ![r] = {}]
    /\ mishap' = [mishap EXCEPT ![r] = FALSE]
    /\ UNCHANGED breaker

\* allow_request of the provider's breaker.
Admit(r) ==
    LET p == ProviderFor(r)
    IN  /\ pc[r] = "admit"
        /\ breaker' = [breaker EXCEPT ![p] = AllowRequest(@)]
        /\ Goto(r, IF Allows(breaker[p]) THEN "build" ELSE "scan")
        /\ UNCHANGED <<usage, charges, client, verdicts, mishap>>

\* _get_fallback_models looks at the next model of the group: it skips the
\* model asked for and models it finds disabled, and asks the breaker of
\* every other one, those after the first admitted included.
Scan(r) ==
    LET l == local[r]
        m == Group[l.scan + 1]
        p == ProviderOf[m]
    IN  /\ pc[r] = "scan" /\ l.scan < Len(Group)
        /\ \/ /\ local' = [local EXCEPT ![r].scan = @ + 1]
              /\ UNCHANGED breaker
           \/ /\ m # l.model
              /\ breaker' = [breaker EXCEPT ![p] = AllowRequest(@)]
              /\ local' = [local EXCEPT ![r] =
                    IF ~Allows(breaker[p]) THEN [l EXCEPT !.scan = @ + 1]
                    ELSE [l EXCEPT !.scan = @ + 1,
                                   !.fallback = IF @ = NoModel THEN m ELSE @]]
        /\ UNCHANGED <<pc, usage, charges, client, verdicts, mishap>>

\* The first admitted model replaces the one asked for.
FallBack(r) ==
    /\ pc[r] = "scan" /\ local[r].scan = Len(Group) /\ local[r].fallback # NoModel
    /\ local' = [local EXCEPT ![r].model = local[r].fallback]
    /\ pc' = [pc EXCEPT ![r] = "build"]
    /\ UNCHANGED <<breaker, usage, charges, client, verdicts, mishap>>

\* No model was admitted: ProviderUnavailableError.
Unavailable(r) ==
    /\ pc[r] = "scan" /\ local[r].scan = Len(Group) /\ local[r].fallback = NoModel
    /\ Give(r, "error") /\ Leave(r)
    /\ UNCHANGED <<breaker, usage, charges, verdicts, mishap>>

\* _build_litellm_params decrypts the provider's key outside of the try.
Build(r) ==
    /\ pc[r] = "build"
    /\ \/ Goto(r, "call") /\ UNCHANGED <<client, mishap>>
       \/ Give(r, "error") /\ Leave(r) /\ Mishap(r)
    /\ UNCHANGED <<breaker, usage, charges, verdicts>>

-----------------------------------------------------------------------------
(* The provider call and what follows it. *)

\* acompletion returns: a whole response, or a stream to read.
Answer(r) ==
    /\ pc[r] = "call"
    /\ \/ local[r].api = "chat" /\ Report(r, "success") /\ Goto(r, "log")
       \/ local[r].api # "chat" /\ Goto(r, "stream") /\ UNCHANGED <<breaker, verdicts>>
    /\ UNCHANGED <<usage, charges, client, mishap>>

\* The end of a stream: [DONE], or for an anthropic client message_stop.
GiveEnd(r) == Give(r, IF local[r].api = "anthropic" THEN "message" ELSE "stream")

\* The provider's stream ends and [DONE] is yielded.  The anthropic way in
\* breaks off its loop at [DONE] and never resumes the gateway's generator.
YieldDone(r) ==
    /\ pc[r] = "stream"
    /\ GiveEnd(r)
    /\ IF local[r].api = "anthropic" THEN Leave(r) ELSE Goto(r, "done")
    /\ UNCHANGED <<breaker, usage, charges, verdicts, mishap>>

\* The consumer of the stream asks for more: the generator goes on.
Resume(r) ==
    /\ pc[r] = "done"
    /\ Report(r, "success")
    /\ Goto(r, "log")
    /\ UNCHANGED <<usage, charges, client, mishap>>

\* Variant with a bug: chat answers before it charges.
TrackSuccessAndRespond(r) ==
    /\ pc[r] = "log"
    /\ usage' = [usage EXCEPT ![r] = @ \cup {"SUCCESS"}]
    /\ Goto(r, IF local[r].api = "chat" THEN "respond" ELSE "charge")
    /\ UNCHANGED <<breaker, charges, client, verdicts, mishap>>

\* track_success commits the row of the usage log.
TrackSuccess(r) ==
    /\ pc[r] = "log"
    /\ usage' = [usage EXCEPT ![r] = @ \cup {"SUCCESS"}]
    /\ Goto(r, "charge")
    /\ UNCHANGED <<breaker, charges, client, verdicts, mishap>>

ConsumeTokens(r) ==
    /\ pc[r] = "charge"
    /\ charges' = [charges EXCEPT ![r] = @ + 1]
    /\ IF local[r].api = "chat" THEN Goto(r, "respond") ELSE Leave(r)
    /\ UNCHANGED <<breaker, usage, client, verdicts, mishap>>

Respond(r) ==
    /\ pc[r] = "respond"
    /\ Give(r, "response") /\ Leave(r)
    /\ UNCHANGED <<breaker, usage, charges, verdicts, mishap>>

\* The except clause: reached when the provider fails, and when anything
\* after record_success does.
Raise(r) ==
    /\ \/ pc[r] \in {"call", "stream"} /\ UNCHANGED mishap
       \/ pc[r] \in {"log", "charge", "respond"} /\ Mishap(r)
    /\ Report(r, "failure")
    /\ Goto(r, "error")
    /\ UNCHANGED <<usage, charges, client>>

\* What the client is told of a failure: an error, unless it already has the
\* end of its stream.  anthropic_messages_stream drops the gateway's error
\* chunk, which has no choices, and ends the message as usual.
GiveFailure(r) ==
    IF local[r].api = "anthropic" THEN GiveEnd(r)
    ELSE IF client[r] = "stream" THEN UNCHANGED client
    ELSE Give(r, "error")

\* Variants with a bug: the row is written whatever is there already; it is
\* not written.
TrackErrorAgain(r) ==
    /\ pc[r] = "error"
    /\ usage' = [usage EXCEPT ![r] = @ \cup {"ERROR"}]
    /\ GiveFailure(r)
    /\ Leave(r)
    /\ UNCHANGED <<breaker, charges, verdicts, mishap>>

TrackErrorNot(r) ==
    /\ pc[r] = "error"
    /\ GiveFailure(r)
    /\ Leave(r)
    /\ UNCHANGED <<breaker, usage, charges, verdicts, mishap>>

\* track_error commits its row.  When it cannot, request_id being unique or
\* the database failing, its exception leaves the handler.
TrackError(r) ==
    /\ pc[r] = "error"
    /\ \/ /\ usage[r] = {} /\ usage' = [usage EXCEPT ![r] = {"ERROR"}]
          /\ GiveFailure(r)
          /\ UNCHANGED mishap
       \/ /\ UNCHANGED usage
          /\ IF client[r] = "stream" THEN UNCHANGED client ELSE Give(r, "error")
          /\ Mishap(r)
    /\ Leave(r)
    /\ UNCHANGED <<breaker, charges, verdicts>>

\* The client leaves: CancelledError or GeneratorExit at an await or a
\* yield, neither of which the except clause catches.
Disconnect(r) ==
    /\ pc[r] # "idle"
    /\ Leave(r) /\ Mishap(r)
    /\ UNCHANGED <<breaker, usage, charges, client, verdicts>>

\* A second passes for every breaker.
Elapse ==
    /\ breaker' = [p \in Providers |-> Older(breaker[p])]
    /\ UNCHANGED <<pc, local, usage, charges, client, verdicts, mishap>>

Work(r) ==
    \/ Admit(r) \/ Scan(r) \/ FallBack(r) \/ Unavailable(r) \/ Build(r)
    \/ Answer(r) \/ YieldDone(r) \/ Resume(r) \/ TrackSuccess(r)
    \/ ConsumeTokens(r) \/ Respond(r) \/ Raise(r) \/ TrackError(r)

Next == (\E r \in Requests : Arrive(r) \/ Work(r) \/ Disconnect(r)) \/ Elapse

Spec == Init /\ [][Next]_vars

-----------------------------------------------------------------------------

\* Tokens are charged at most once, only for a request the usage log holds
\* as a success, and a charged request never has an error row as well, even
\* when the database or Redis fails half way (gateway.py:257-332).
ChargedOnceAndLogged ==
    \A r \in Requests :
        charges[r] > 0 => charges[r] = 1 /\ usage[r] = {"SUCCESS"}

\* A client of chat_completion that has its response has been logged and
\* charged for it, whatever fails and whoever leaves.
ChatAnswersAreCharged ==
    \A r \in Requests :
        client[r] = "response" => charges[r] = 1 /\ usage[r] = {"SUCCESS"}

\* A request that has ended, its client having stayed to the end and nothing
\* but the provider having failed.
Ended(r) == pc[r] = "idle" /\ ~mishap[r]

\* An OpenAI stream that was read to its [DONE] ends up logged and charged,
\* although all of that comes after the last byte the client waits for.
StreamsAreCharged ==
    \A r \in Requests :
        Ended(r) /\ client[r] = "stream" => charges[r] = 1 /\ usage[r] = {"SUCCESS"}

\* So the answers of both OpenAI ways in are charged.
OpenAIAnswersAreCharged == ChatAnswersAreCharged /\ StreamsAreCharged

\* Every provider failure leaves its trace: it is reported to the breaker and
\* is the one row of the usage log, never a success, never a charge.
FailuresAreTraced ==
    \A r \in Requests :
        Ended(r) /\ "failure" \in verdicts[r] =>
            usage[r] = {"ERROR"} /\ charges[r] = 0

\* record_failure is for failed calls: a call that was reported as a success
\* is reported as a failure as well only when something other than the
\* provider fails after it.
SuccessIsNoFailure ==
    \A r \in Requests : verdicts[r] = {"success", "failure"} => mishap[r]

\* So what the breaker was told and what the log says of a call agree.
OutcomesAgree == FailuresAreTraced /\ SuccessIsNoFailure

\* Every complete answer of a provider is logged and charged, whichever API
\* its client speaks.
AnswersAreCharged ==
    \A r \in Requests :
        Ended(r) /\ client[r] \in {"response", "stream", "message"}
                 /\ "failure" \notin verdicts[r] =>
            charges[r] = 1 /\ usage[r] = {"SUCCESS"}

=============================================================================
