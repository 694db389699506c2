--------------------------- MODULE RequestsProofs ---------------------------
(***************************************************************************)
(* Proofs about the requests of clients, for any number of them at a time: *)
(* calls of the LLM gateway (LLMGateway), for any models, providers and    *)
(* group, calls with one API key (ApiKeys), for any limits, and the        *)
(* administration of rows (Records), for any clients, names and rows.      *)
(***************************************************************************)
EXTENDS MCRequests, WellFoundedInduction, TLAPS

-----------------------------------------------------------------------------
(***************************************************************************)
(* The gateway.  What a request has left behind at each stage of its       *)
(* handler decides what the except clause can still do to it.              *)
(***************************************************************************)

HandlerTypes ==
    /\ pc \in [Requests -> Stage]
    /\ local \in [Requests -> Locals]
    /\ usage \in [Requests -> SUBSET {"SUCCESS", "ERROR"}]
    /\ charges \in [Requests -> Nat]
    /\ client \in [Requests -> {"nothing", "response", "stream", "message", "error"}]
    /\ verdicts \in [Requests -> SUBSET {"success", "failure"}]
    /\ mishap \in [Requests -> BOOLEAN]

\* Until the provider has answered nothing is reported, logged or charged.
Unanswered(r) ==
    pc[r] \in {"admit", "scan", "build", "call", "stream"} =>
        /\ usage[r] = {} /\ charges[r] = 0 /\ verdicts[r] = {}
        /\ client[r] = "nothing" /\ ~mishap[r]
        /\ local[r].api # "none"
        /\ pc[r] = "stream" => local[r].api # "chat"

\* After that the breaker, the log and the counter are told in this order; an
\* OpenAI stream has its [DONE] by then, a chat has nothing.
Answered(r) ==
    pc[r] \in {"done", "log", "charge", "respond"} =>
        /\ verdicts[r] = IF pc[r] = "done" THEN {} ELSE {"success"}
        /\ usage[r] = IF pc[r] \in {"charge", "respond"} THEN {"SUCCESS"} ELSE {}
        /\ charges[r] = IF pc[r] = "respond" THEN 1 ELSE 0
        /\ client[r] = IF local[r].api = "chat" THEN "nothing" ELSE "stream"
        /\ ~mishap[r]
        /\ local[r].api \in {"chat", "stream"}
        /\ pc[r] = "done" => local[r].api = "stream"
        /\ pc[r] = "respond" => local[r].api = "chat"

\* In the except clause: unless something other than the provider failed,
\* only the failure has been reported, and nothing else has happened.
Failed(r) ==
    pc[r] = "error" =>
        /\ client[r] \in {"nothing", "stream"}
        /\ "failure" \in verdicts[r]
        /\ ~mishap[r] => /\ verdicts[r] = {"failure"} /\ usage[r] = {} /\ charges[r] = 0
                         /\ client[r] = "nothing"

\* What the three properties say of one request.
Settled(r) ==
    /\ charges[r] > 0 => charges[r] = 1 /\ usage[r] = {"SUCCESS"}
    /\ client[r] = "response" => charges[r] = 1 /\ usage[r] = {"SUCCESS"}
    /\ Ended(r) /\ client[r] = "stream" => charges[r] = 1 /\ usage[r] = {"SUCCESS"}
    /\ Ended(r) /\ "failure" \in verdicts[r] => usage[r] = {"ERROR"} /\ charges[r] = 0
    /\ verdicts[r] = {"success", "failure"} => mishap[r]

Consistent(r) == Unanswered(r) /\ Answered(r) /\ Failed(r) /\ Settled(r)

HandlerInv == HandlerTypes /\ \A r \in Requests : Consistent(r)

LEMMA SettledIsAll ==
    (\A r \in Requests : Settled(r)) =>
        ChargedOnceAndLogged /\ OpenAIAnswersAreCharged /\ OutcomesAgree
BY DEF Settled, ChargedOnceAndLogged, OpenAIAnswersAreCharged, ChatAnswersAreCharged,
       StreamsAreCharged, OutcomesAgree, FailuresAreTraced, SuccessIsNoFailure

\* A handler changes nothing of the other requests.
Own(r) ==
    \A q \in Requests \ {r} :
        /\ pc'[q] = pc[q] /\ local'[q] = local[q] /\ usage'[q] = usage[q]
        /\ charges'[q] = charges[q] /\ client'[q] = client[q]
        /\ verdicts'[q] = verdicts[q] /\ mishap'[q] = mishap[q]

LEMMA OwnStep ==
    ASSUME HandlerInv, NEW r \in Requests, HandlerTypes', Own(r), Consistent(r)'
    PROVE  HandlerInv'
<1>1. ASSUME NEW q \in Requests \ {r} PROVE Consistent(q)'
  BY DEF Own, HandlerInv, Consistent, Unanswered, Answered, Failed, Settled, Ended
<1> QED
  BY <1>1 DEF HandlerInv

LEMMA LocalsTypes ==
    /\ NoRequest \in Locals /\ NoRequest.api = "none"
    /\ \A a \in APIs, m \in Models :
           Fresh(a, m) \in Locals /\ Fresh(a, m).api = a
    /\ \A a \in APIs : a # "none" /\ a \in {"chat", "stream", "anthropic"}
    /\ \A l \in Locals : l.api \in APIs \cup {"none"}
BY GatewayAssumption DEF NoRequest, Fresh, Locals

LEMMA InitHandlerInv == Init => HandlerInv
BY LocalsTypes DEF Init, HandlerInv, HandlerTypes, Consistent, Unanswered, Answered, Failed,
   Settled, Ended, Stage

LEMMA StepHandlerInv ==
    ASSUME HandlerInv, NEW r \in Requests, Arrive(r) \/ Work(r) \/ Disconnect(r)
    PROVE  HandlerInv'
<1> USE LocalsTypes DEF Goto, Leave, Give, Mishap
<1>t. HandlerTypes /\ Consistent(r)
  BY DEF HandlerInv
<1>r. ASSUME NEW v \in {"success", "failure"}, Report(r, v)
      PROVE  /\ verdicts' \in [Requests -> SUBSET {"success", "failure"}]
             /\ verdicts'[r] = verdicts[r] \cup {v}
             /\ verdicts[r] = {} => verdicts'[r] = {v}
             /\ \A q \in Requests \ {r} : verdicts'[q] = verdicts[q]
  <2>1. verdicts' = [verdicts EXCEPT ![r] = verdicts[r] \cup {v}]
    BY <1>r DEF Report
  <2>2. verdicts[r] \cup {v} \in SUBSET {"success", "failure"} /\ {} \cup {v} = {v}
    BY <1>t DEF HandlerTypes
  <2> QED
    BY <1>t, <2>1, <2>2 DEF HandlerTypes
<1>1. CASE Arrive(r)
  <2>1. HandlerTypes' /\ Own(r)
    BY <1>t, <1>1 DEF Arrive, HandlerTypes, Own, Stage
  <2>2. Consistent(r)'
    BY <1>t, <1>1 DEF Arrive, HandlerTypes, Consistent, Unanswered, Answered, Failed, Settled, Ended
  <2> QED
    BY <2>1, <2>2, OwnStep
<1>2. CASE Admit(r)
  <2>1. HandlerTypes' /\ Own(r)
    BY <1>t, <1>2 DEF Admit, HandlerTypes, Own, Stage
  <2>2. Consistent(r)'
    BY <1>t, <1>2 DEF Admit, HandlerTypes, Consistent, Unanswered, Answered, Failed, Settled, Ended
  <2> QED
    BY <2>1, <2>2, OwnStep
<1>3. CASE Scan(r)
  <2>1. local' \in [Requests -> Locals] /\ local'[r].api = local[r].api
    <3>1. local[r] \in Locals /\ local[r].scan + 1 \in 0 .. Len(Group)
      BY <1>t, <1>3, GatewayAssumption DEF Scan, HandlerTypes, Locals
    <3>2. Group[local[r].scan + 1] \in Models
      BY <3>1, <1>3, GatewayAssumption DEF Scan, Locals
    <3> DEFINE looked == [local[r] EXCEPT !.scan = @ + 1]
               found == [looked EXCEPT !.fallback = IF @ = NoModel THEN Group[local[r].scan + 1] ELSE @]
    <3>3. looked \in Locals /\ looked.api = local[r].api
      BY <3>1 DEF Locals
    <3>4. found \in Locals /\ found.api = local[r].api
      BY <3>2, <3>3 DEF Locals
    <3>5. local' = [local EXCEPT ![r] = looked] \/ local' = [local EXCEPT ![r] = found]
      BY <1>3, <3>1 DEF Scan, Locals
    <3> HIDE DEF looked, found
    <3> QED
      BY <3>3, <3>4, <3>5, <1>t DEF HandlerTypes
  <2>2. HandlerTypes' /\ Own(r)
    BY <1>t, <1>3, <2>1 DEF Scan, HandlerTypes, Own, Stage
  <2>3. Consistent(r)'
    BY <1>t, <1>3, <2>1 DEF Scan, HandlerTypes, Consistent, Unanswered, Answered, Failed, Settled, Ended
  <2> QED
    BY <2>2, <2>3, OwnStep
<1>4. CASE FallBack(r)
  <2>1. local' \in [Requests -> Locals]
    <3> DEFINE fallen == [local[r] EXCEPT !.model = local[r].fallback]
    <3>1. local[r] \in Locals
      BY <1>t DEF HandlerTypes
    <3>2. fallen \in Locals
      BY <3>1 DEF Locals
    <3>3. local' = [local EXCEPT ![r] = fallen]
      BY <1>4 DEF FallBack
    <3> QED
      BY <1>t, <3>2, <3>3 DEF HandlerTypes
  <2>2. HandlerTypes' /\ Own(r)
    BY <1>t, <1>4, <2>1 DEF FallBack, HandlerTypes, Own, Stage
  <2>3. Consistent(r)'
    BY <1>t, <1>4, <2>1 DEF FallBack, HandlerTypes, Consistent, Unanswered, Answered, Failed, Settled, Ended
  <2> QED
    BY <2>2, <2>3, OwnStep
<1>5. CASE Unavailable(r)
  <2>1. HandlerTypes' /\ Own(r)
    BY <1>t, <1>5 DEF Unavailable, HandlerTypes, Own, Stage
  <2>2. Consistent(r)'
    BY <1>t, <1>5 DEF Unavailable, HandlerTypes, Consistent, Unanswered, Answered, Failed, Settled, Ended
  <2> QED
    BY <2>1, <2>2, OwnStep
<1>6. CASE Build(r)
  <2>1. CASE Goto(r, "call") /\ UNCHANGED <<client, mishap>>
    <3>1. HandlerTypes' /\ Own(r)
      BY <1>t, <1>6, <2>1 DEF Build, HandlerTypes, Own, Stage
    <3>2. Consistent(r)'
      BY <1>t, <1>6, <2>1 DEF Build, HandlerTypes, Consistent, Unanswered, Answered, Failed, Settled, Ended
    <3> QED
      BY <3>1, <3>2, OwnStep
  <2>2. CASE Give(r, "error") /\ Leave(r) /\ Mishap(r)
    <3>1. HandlerTypes' /\ Own(r)
      BY <1>t, <1>6, <2>2 DEF Build, HandlerTypes, Own, Stage
    <3>2. Consistent(r)'
      BY <1>t, <1>6, <2>2 DEF Build, HandlerTypes, Consistent, Unanswered, Answered, Failed, Settled, Ended
    <3> QED
      BY <3>1, <3>2, OwnStep
  <2> QED
    BY <1>6, <2>1, <2>2 DEF Build
<1>7. CASE Answer(r)
  <2>1. HandlerTypes' /\ Own(r)
    BY <1>t, <1>r, <1>7 DEF Answer, HandlerTypes, Own, Stage
  <2>2. Consistent(r)'
    <3>1. CASE local[r].api = "chat"
      BY <1>t, <1>r, <1>7, <3>1 DEF Answer, HandlerTypes, Consistent, Unanswered, Answered, Failed, Settled, Ended
    <3>2. CASE local[r].api # "chat"
      BY <1>t, <1>7, <3>2 DEF Answer, HandlerTypes, Consistent, Unanswered, Answered, Failed, Settled, Ended
    <3> QED
      BY <3>1, <3>2
  <2> QED
    BY <2>1, <2>2, OwnStep
<1>8. CASE YieldDone(r)
  <2>1. HandlerTypes' /\ Own(r)
    BY <1>t, <1>8 DEF YieldDone, HandlerTypes, Own, Stage, GiveEnd
  <2>2. Consistent(r)'
    BY <1>t, <1>8 DEF YieldDone, HandlerTypes, Consistent, Unanswered, Answered, Failed, Settled, Ended, GiveEnd
  <2> QED
    BY <2>1, <2>2, OwnStep
<1>9. CASE Resume(r)
  <2>1. HandlerTypes' /\ Own(r)
    BY <1>t, <1>r, <1>9 DEF Resume, HandlerTypes, Own, Stage
  <2>2. Consistent(r)'
    BY <1>t, <1>r, <1>9 DEF Resume, HandlerTypes, Consistent, Unanswered, Answered, Failed, Settled, Ended
  <2> QED
    BY <2>1, <2>2, OwnStep
<1>10. CASE TrackSuccess(r)
  <2>1. HandlerTypes' /\ Own(r)
    BY <1>t, <1>10 DEF TrackSuccess, HandlerTypes, Own, Stage
  <2>2. Consistent(r)'
    BY <1>t, <1>10 DEF TrackSuccess, HandlerTypes, Consistent, Unanswered, Answered, Failed, Settled, Ended
  <2> QED
    BY <2>1, <2>2, OwnStep
<1>11. CASE ConsumeTokens(r)
  <2>1. HandlerTypes' /\ Own(r)
    BY <1>t, <1>11 DEF ConsumeTokens, HandlerTypes, Own, Stage
  <2>2. Consistent(r)'
    BY <1>t, <1>11 DEF ConsumeTokens, HandlerTypes, Consistent, Unanswered, Answered, Failed, Settled, Ended
  <2> QED
    BY <2>1, <2>2, OwnStep
<1>12. CASE Respond(r)
  <2>1. HandlerTypes' /\ Own(r)
    BY <1>t, <1>12 DEF Respond, HandlerTypes, Own, Stage
  <2>2. Consistent(r)'
    BY <1>t, <1>12 DEF Respond, HandlerTypes, Consistent, Unanswered, Answered, Failed, Settled, Ended
  <2> QED
    BY <2>1, <2>2, OwnStep
<1>13. CASE Raise(r)
  <2>1. /\ verdicts' \in [Requests -> SUBSET {"success", "failure"}]
        /\ verdicts'[r] = verdicts[r] \cup {"failure"}
        /\ verdicts[r] = {} => verdicts'[r] = {"failure"}
        /\ \A q \in Requests \ {r} : verdicts'[q] = verdicts[q]
    BY <1>r, <1>13 DEF Raise
  <2>m. UNCHANGED mishap \/ Mishap(r)
    BY <1>13 DEF Raise
  <2>2. HandlerTypes' /\ Own(r)
    <3>1. Goto(r, "error") /\ UNCHANGED <<usage, charges, client>>
      BY <1>13 DEF Raise
    <3>2. mishap' \in [Requests -> BOOLEAN] /\ \A q \in Requests \ {r} : mishap'[q] = mishap[q]
      BY <1>t, <2>m DEF HandlerTypes
    <3>3. pc' \in [Requests -> Stage] /\ \A q \in Requests \ {r} : pc'[q] = pc[q]
      BY <1>t, <3>1 DEF HandlerTypes, Stage
    <3>4. HandlerTypes'
      BY <1>t, <2>1, <3>1, <3>2, <3>3 DEF HandlerTypes
    <3>5. Own(r)
      BY <1>t, <2>1, <3>1, <3>2, <3>3 DEF Own
    <3> QED
      BY <3>4, <3>5
  <2>3. Consistent(r)'
    <3>1. CASE pc[r] \in {"call", "stream"} /\ UNCHANGED mishap
      <4>1. /\ verdicts[r] = {} /\ usage'[r] = {} /\ charges'[r] = 0
            /\ client'[r] = "nothing" /\ ~mishap[r]
        BY <1>t, <1>13, <3>1 DEF Raise, HandlerTypes, Consistent, Unanswered
      <4>2. verdicts'[r] = {"failure"} /\ {"failure"} # {"success", "failure"}
        BY <2>1, <4>1
      <4>3. pc'[r] = "error"
        BY <1>t, <1>13 DEF Raise, HandlerTypes
      <4> QED
        BY <3>1, <4>1, <4>2, <4>3 DEF Consistent, Unanswered, Answered, Failed, Settled, Ended
    <3>2. CASE pc[r] \in {"log", "charge", "respond"} /\ Mishap(r)
      BY <1>t, <1>13, <2>1, <3>2 DEF Raise, HandlerTypes, Consistent, Unanswered, Answered, Failed, Settled, Ended
    <3> QED
      BY <1>13, <3>1, <3>2 DEF Raise
  <2> QED
    BY <2>2, <2>3, OwnStep
<1>14. CASE TrackError(r)
  <2>1. CASE usage[r] = {} /\ usage' = [usage EXCEPT ![r] = {"ERROR"}] /\ GiveFailure(r)
            /\ UNCHANGED mishap
    <3>1. client' = client \/ \E g \in {"error", "stream", "message"} : Give(r, g)
      BY <2>1 DEF GiveFailure, GiveEnd
    <3>2. HandlerTypes' /\ Own(r)
      BY <1>t, <1>14, <2>1, <3>1 DEF TrackError, HandlerTypes, Own, Stage
    <3>3. client'[r] \in {"error", "message", client[r]} \/ local[r].api = "anthropic"
      BY <1>t, <1>14, <2>1 DEF GiveFailure, GiveEnd, HandlerTypes
    <3>4. Consistent(r)'
      BY <1>t, <1>14, <2>1, <3>3 DEF TrackError, HandlerTypes, Consistent, Unanswered, Answered, Failed, Settled, Ended, GiveFailure, GiveEnd
    <3> QED
      BY <3>2, <3>4, OwnStep
  <2>2. CASE UNCHANGED usage /\ Mishap(r)
            /\ IF client[r] = "stream" THEN UNCHANGED client ELSE Give(r, "error")
    <3>1. HandlerTypes' /\ Own(r)
      BY <1>t, <1>14, <2>2 DEF TrackError, HandlerTypes, Own, Stage
    <3>2. Consistent(r)'
      BY <1>t, <1>14, <2>2 DEF TrackError, HandlerTypes, Consistent, Unanswered, Answered, Failed, Settled, Ended
    <3> QED
      BY <3>1, <3>2, OwnStep
  <2> QED
    BY <1>14, <2>1, <2>2 DEF TrackError
<1>15. CASE Disconnect(r)
  <2>1. HandlerTypes' /\ Own(r)
    BY <1>t, <1>15 DEF Disconnect, HandlerTypes, Own, Stage
  <2>2. Consistent(r)'
    BY <1>t, <1>15 DEF Disconnect, HandlerTypes, Consistent, Unanswered, Answered, Failed, Settled, Ended
  <2> QED
    BY <2>1, <2>2, OwnStep
<1> QED
  BY <1>1, <1>2, <1>3, <1>4, <1>5, <1>6, <1>7, <1>8, <1>9, <1>10, <1>11, <1>12, <1>13, <1>14, <1>15 DEF Work

LEMMA NextHandlerInv == HandlerInv /\ [Next]_vars => HandlerInv'
<1> SUFFICES ASSUME HandlerInv, [Next]_vars PROVE HandlerInv'
  OBVIOUS
<1>1. CASE UNCHANGED <<pc, local, usage, charges, client, verdicts, mishap>>
  BY <1>1 DEF HandlerInv, HandlerTypes, Consistent, Unanswered, Answered, Failed, Settled, Ended
<1> QED
  BY <1>1, StepHandlerInv DEF Next, Elapse, vars

\* What each stage of the handler has left behind holds in every reachable
\* state.
THEOREM HandlersAreConsistent == Spec => []HandlerInv
BY InitHandlerInv, NextHandlerInv, PTL DEF Spec

LEMMA HandlerInvIsEnough ==
    HandlerInv => ChargedOnceAndLogged /\ OpenAIAnswersAreCharged /\ OutcomesAgree
BY SettledIsAll DEF HandlerInv, Consistent

\* Tokens are charged once at most, and only for requests that the log holds
\* as a success, wherever the database, Redis or a client fails.
THEOREM ChargesFollowTheLog == Spec => []ChargedOnceAndLogged
BY HandlersAreConsistent, HandlerInvIsEnough, PTL

\* A chat that was answered, and an OpenAI stream that was read to its end
\* with nothing but the provider failing, are logged and charged.
THEOREM OpenAIAnswersPay == Spec => []OpenAIAnswersAreCharged
BY HandlersAreConsistent, HandlerInvIsEnough, PTL

\* The breaker, the log and the counter say the same of a request in which
\* nothing but the provider failed.
THEOREM OutcomesAlwaysAgree == Spec => []OutcomesAgree
BY HandlersAreConsistent, HandlerInvIsEnough, PTL

-----------------------------------------------------------------------------
(***************************************************************************)
(* The calls with one key.                                                 *)
(***************************************************************************)

\* Limits are numbers, and an answer has a token at least.
NumbersAreNatural ==
    DefaultDaily \in Nat /\ Limits \subseteq Nat /\ MaxTokens \in Nat \ {0}

CallStages == {"idle", "expire", "use", "limits", "provider", "charge"}

KeyTypes ==
    /\ key \in [status : {"ACTIVE", "DISABLED"}, expired : BOOLEAN, custom : Nat]
    /\ config \in [enabled : BOOLEAN, daily : Nat]
    /\ call \in [Calls -> CallStages]
    /\ daily \in Nat /\ hasty \in BOOLEAN

\* The lock on the key's row: one call between its update and its log.
OneHoldsRow ==
    \A c, d \in Calls :
        call[c] \in {"limits", "provider"} /\ call[d] \in {"limits", "provider"} => c = d

Owes(c) == call[c] \in {"provider", "charge"}

\* Who has been admitted and has not paid yet is alone, and was let in below
\* the limit.
AdmittedAlone ==
    /\ \A c, d \in Calls : Owes(c) /\ Owes(d) => c = d
    /\ \A c \in Calls : Owes(c) => daily < Keys!RateLimits

KeyInv == KeyTypes /\ OneHoldsRow /\ (AdmittedAlone \/ hasty) /\ KeyOvershootsOnce

LEMMA LimitsAreNumbers ==
    ASSUME NumbersAreNatural, KeyTypes
    PROVE  Keys!RateLimits \in Nat
BY DEF NumbersAreNatural, KeyTypes, Keys!RateLimits

LEMMA InitKeyInv == ASSUME NumbersAreNatural, Keys!Init PROVE KeyInv
<1>1. KeyTypes
  <2> USE DEF Keys!Init, NumbersAreNatural
  <2>1. key \in [status : {"ACTIVE", "DISABLED"}, expired : BOOLEAN, custom : Nat]
    <3>1. {0} \cup Limits \subseteq Nat
      OBVIOUS
    <3> QED
      BY <3>1
  <2>2. config \in [enabled : BOOLEAN, daily : Nat]
    <3>1. CASE config = Keys!NoConfig
      BY <3>1 DEF Keys!NoConfig
    <3>2. CASE config \in [enabled : BOOLEAN, daily : Limits]
      BY <3>2
    <3> QED
      BY <3>1, <3>2
  <2>3. call \in [Calls -> CallStages] /\ daily \in Nat /\ hasty \in BOOLEAN
    BY DEF CallStages
  <2> QED
    BY <2>1, <2>2, <2>3 DEF KeyTypes
<1>2. OneHoldsRow /\ AdmittedAlone
  BY DEF Keys!Init, OneHoldsRow, AdmittedAlone, Owes
<1>3. KeyOvershootsOnce
  BY <1>1, LimitsAreNumbers DEF Keys!Init, KeyOvershootsOnce, Keys!KeyOvershootsOnce, NumbersAreNatural
<1> QED
  BY <1>1, <1>2, <1>3 DEF KeyInv

\* A call that goes where nobody pays or holds the row changes nothing.
LEMMA StepBackKeyInv ==
    ASSUME KeyInv, NEW c \in Calls, NEW place \in {"idle", "expire", "use"},
           Keys!Goto(c, place), UNCHANGED <<key, config, token, daily, hasty>>
    PROVE  KeyInv'
<1> USE DEF Keys!Goto, KeyInv, KeyTypes, CallStages
<1>1. KeyTypes' /\ KeyOvershootsOnce'
  BY DEF KeyOvershootsOnce, Keys!KeyOvershootsOnce, Keys!RateLimits
<1>2. OneHoldsRow'
  BY DEF OneHoldsRow
<1>3. (AdmittedAlone \/ hasty)'
  BY DEF AdmittedAlone, Owes, Keys!RateLimits
<1> QED
  BY <1>1, <1>2, <1>3

\* The row is free, so the call that takes it is the only one that holds it.
LEMMA UpdateKeyInv == ASSUME KeyInv, NEW c \in Calls, Keys!UpdateLastUsed(c) PROVE KeyInv'
<1> USE DEF Keys!UpdateLastUsed, Keys!Goto, KeyInv, KeyTypes, CallStages
<1>1. KeyTypes' /\ KeyOvershootsOnce'
  BY DEF KeyOvershootsOnce, Keys!KeyOvershootsOnce, Keys!RateLimits
<1>2. OneHoldsRow'
  BY DEF OneHoldsRow, Keys!Locked
<1>3. (AdmittedAlone \/ hasty)'
  BY DEF AdmittedAlone, Owes, Keys!RateLimits
<1> QED
  BY <1>1, <1>2, <1>3

\* Who is admitted without haste finds nobody at a provider, because of the
\* row, and nobody at the counter.
LEMMA CheckKeyInv == ASSUME KeyInv, NEW c \in Calls, Keys!CheckLimits(c) PROVE KeyInv'
<1>1. CASE daily < Keys!RateLimits
  <2> USE <1>1 DEF Keys!CheckLimits, Keys!Goto, KeyInv, KeyTypes, CallStages
  <2>1. KeyTypes' /\ KeyOvershootsOnce'
    BY DEF KeyOvershootsOnce, Keys!KeyOvershootsOnce, Keys!RateLimits
  <2>2. OneHoldsRow'
    BY DEF OneHoldsRow
  <2>3. ASSUME ~hasty' PROVE \A d \in Calls : ~Owes(d)
    BY <2>3 DEF Owes, OneHoldsRow
  <2>4. Keys!RateLimits' = Keys!RateLimits /\ daily' = daily
    BY DEF Keys!RateLimits
  <2>5. (AdmittedAlone \/ hasty)'
    BY <2>3, <2>4 DEF AdmittedAlone, Owes
  <2> QED
    BY <2>1, <2>2, <2>5
<1>2. CASE ~(daily < Keys!RateLimits)
  BY <1>2, StepBackKeyInv DEF Keys!CheckLimits
<1> QED
  BY <1>1, <1>2

LEMMA TrackKeyInv == ASSUME KeyInv, NEW c \in Calls, Keys!TrackSuccess(c) PROVE KeyInv'
<1> USE DEF Keys!TrackSuccess, Keys!Goto, KeyInv, KeyTypes, CallStages
<1>1. KeyTypes' /\ KeyOvershootsOnce'
  BY DEF KeyOvershootsOnce, Keys!KeyOvershootsOnce, Keys!RateLimits
<1>2. OneHoldsRow'
  BY DEF OneHoldsRow
<1>3. (AdmittedAlone \/ hasty)'
  BY DEF AdmittedAlone, Owes, Keys!RateLimits
<1> QED
  BY <1>1, <1>2, <1>3

\* The only call that owes pays: from below the limit, one answer's tokens.
LEMMA ConsumeKeyInv ==
    ASSUME NumbersAreNatural, KeyInv, NEW c \in Calls, Keys!ConsumeTokens(c) PROVE KeyInv'
<1> USE DEF Keys!ConsumeTokens, Keys!Goto, KeyInv, KeyTypes, CallStages, NumbersAreNatural
<1>1. PICK tokens \in 1 .. MaxTokens : daily' = daily + tokens
  OBVIOUS
<1>2. KeyTypes'
  BY <1>1
<1>3. Keys!RateLimits' = Keys!RateLimits /\ Keys!RateLimits \in Nat
  BY LimitsAreNumbers DEF Keys!RateLimits
<1>4. OneHoldsRow'
  BY DEF OneHoldsRow
<1>5. (AdmittedAlone \/ hasty)'
  BY DEF AdmittedAlone, Owes
<1>6. KeyOvershootsOnce'
  BY <1>1, <1>3 DEF KeyOvershootsOnce, Keys!KeyOvershootsOnce, AdmittedAlone, Owes
<1> QED
  BY <1>2, <1>4, <1>5, <1>6

\* Nobody's call, nor the key's limits, change.
LEMMA RestKeyInv ==
    ASSUME KeyInv, Keys!GetOrCreateDefaultKey \/ Keys!Expire \/ UNCHANGED Keys!vars PROVE KeyInv'
<1> USE DEF KeyInv, Keys!GetOrCreateDefaultKey, Keys!Expire, Keys!vars
<1>1. KeyTypes'
  BY DEF KeyTypes
<1>2. Keys!RateLimits' = Keys!RateLimits /\ daily' = daily /\ hasty' = hasty /\ call' = call
  BY DEF KeyTypes, Keys!RateLimits
<1> QED
  BY <1>1, <1>2 DEF OneHoldsRow, AdmittedAlone, Owes, KeyOvershootsOnce, Keys!KeyOvershootsOnce

LEMMA NextKeyInv == ASSUME NumbersAreNatural, KeyInv, [Keys!Next]_(Keys!vars) PROVE KeyInv'
<1>1. ASSUME NEW c \in Calls,
             Keys!VerifyApiKey(c) \/ Keys!MarkExpired(c) \/ Keys!TrackError(c) \/ Keys!Leave(c)
      PROVE  KeyInv'
  BY <1>1, StepBackKeyInv DEF Keys!VerifyApiKey, Keys!MarkExpired, Keys!TrackError, Keys!Leave
<1> QED
  BY <1>1, UpdateKeyInv, CheckKeyInv, TrackKeyInv, ConsumeKeyInv, RestKeyInv DEF Keys!Next

\* However many calls one key makes at once, whatever its limit, they pass the
\* limit by the last answer's tokens only, unless one was let in between
\* another one's log and its charge.
THEOREM OvershootsOnce == ASSUME NumbersAreNatural PROVE Keys!Spec => []KeyOvershootsOnce
<1>1. Keys!Init => KeyInv
  BY InitKeyInv
<1>2. KeyInv /\ [Keys!Next]_(Keys!vars) => KeyInv'
  BY NextKeyInv
<1>3. KeyInv => KeyOvershootsOnce
  BY DEF KeyInv
<1> QED
  BY <1>1, <1>2, <1>3, PTL DEF Keys!Spec

-----------------------------------------------------------------------------
(***************************************************************************)
(* The administration of rows.  What keeps names apart and parents in      *)
(* place is, for each resource, a rule of its table or a look-up of its    *)
(* service.                                                                *)
(***************************************************************************)

Has(s, x) == \E i \in 1..Len(s) : s[i] = x

\* The lists of the services.
Looks == {"row", "name", "parent", "self", "owner", "users", "children"}

LEMMA ListsAreLists ==
    /\ <<>> \in Seq(Looks)
    /\ <<"name">> \in Seq(Looks)
    /\ <<"row">> \in Seq(Looks)
    /\ <<"children">> \in Seq(Looks)
    /\ <<"parent">> \in Seq(Looks)
    /\ <<"row", "name">> \in Seq(Looks)
    /\ <<"name", "parent">> \in Seq(Looks)
    /\ <<"parent", "name">> \in Seq(Looks)
    /\ <<"row", "owner">> \in Seq(Looks)
    /\ <<"row", "name", "parent">> \in Seq(Looks)
    /\ <<"row", "parent", "name">> \in Seq(Looks)
    /\ <<"row", "owner", "parent">> \in Seq(Looks)
    /\ <<"row", "users", "children">> \in Seq(Looks)
    /\ <<"row", "name", "parent", "self">> \in Seq(Looks)
<1>1. <<>> \in Seq(Looks) /\ <<"name">> \in Seq(Looks) /\ <<"row">> \in Seq(Looks) /\ <<"children">> \in Seq(Looks) /\ <<"parent">> \in Seq(Looks)
    BY DEF Looks
<1>2. <<"row", "name">> \in Seq(Looks) /\ <<"name", "parent">> \in Seq(Looks) /\ <<"parent", "name">> \in Seq(Looks) /\ <<"row", "owner">> \in Seq(Looks)
    BY DEF Looks
<1>3. <<"row", "name", "parent">> \in Seq(Looks) /\ <<"row", "parent", "name">> \in Seq(Looks) /\ <<"row", "owner", "parent">> \in Seq(Looks)
    BY DEF Looks
<1>4. <<"row", "users", "children">> \in Seq(Looks)
    BY DEF Looks
<1>5. <<"row", "name", "parent", "self">> \in Seq(Looks)
    BY DEF Looks
<1> QED
    BY <1>1, <1>2, <1>3, <1>4, <1>5

LEMMA ListsHaveNames ==
    /\ Has(<<"name">>, "name")
    /\ Has(<<"row", "name">>, "name")
    /\ Has(<<"name", "parent">>, "name")
    /\ Has(<<"parent", "name">>, "name")
    /\ Has(<<"row", "name", "parent">>, "name")
    /\ Has(<<"row", "parent", "name">>, "name")
    /\ Has(<<"row", "name", "parent", "self">>, "name")
BY DEF Has

LEMMA ListsHaveParents ==
    /\ Has(<<"parent">>, "parent")
    /\ Has(<<"name", "parent">>, "parent")
    /\ Has(<<"parent", "name">>, "parent")
    /\ Has(<<"row", "name", "parent">>, "parent")
    /\ Has(<<"row", "parent", "name">>, "parent")
    /\ Has(<<"row", "owner", "parent">>, "parent")
    /\ Has(<<"row", "name", "parent", "self">>, "parent")
BY DEF Has

LEMMA ListsHaveChildren ==
    /\ Has(<<"row", "users", "children">>, "users") /\ Has(<<"row", "users", "children">>, "children")
    /\ Has(<<"children">>, "children")
BY DEF Has

Standing == {"role", "scope", "rule", "dictType", "config", "task", "provider", "group", "limit", "business"}

LEMMA StandingRows ==
    \A r \in Standing : /\ Tables!Table[r].unique /\ Tables!Table[r].parent = "none" /\ ~Tables!Table[r].foreign
<1> USE DEF Tables!Plain
<1>1. \A r \in Standing : Tables!Table[r].unique
    BY DEF Standing, Tables!Table, Tables!Role, Tables!DataScope, Tables!DataRule, Tables!DictType, Tables!Config,
       Tables!TaskScheduler, Tables!ModelProvider, Tables!ModelGroup, Tables!RateLimitConfig, Tables!GenBusiness
<1>2. \A r \in Standing : Tables!Table[r].parent = "none"
    BY DEF Standing, Tables!Table, Tables!Role, Tables!DataScope, Tables!DataRule, Tables!DictType, Tables!Config,
       Tables!TaskScheduler, Tables!ModelProvider, Tables!ModelGroup, Tables!RateLimitConfig, Tables!GenBusiness
<1>3. \A r \in Standing : ~Tables!Table[r].foreign
    BY DEF Standing, Tables!Table, Tables!Role, Tables!DataScope, Tables!DataRule, Tables!DictType, Tables!Config,
       Tables!TaskScheduler, Tables!ModelProvider, Tables!ModelGroup, Tables!RateLimitConfig, Tables!GenBusiness
<1> QED
    BY <1>1, <1>2, <1>3

LEMMA StandingLists ==
    \A r \in Standing : /\ Tables!Service[r].create \in Seq(Looks)
                        /\ Tables!Service[r].update \in Seq(Looks)
                        /\ Tables!Service[r].delete \in Seq(Looks)
<1> USE DEF Tables!Simple
<1>1. \A r \in Standing : Tables!Service[r].create = <<"name">>
    BY DEF Standing, Tables!Service, Tables!RoleService, Tables!DataScopeService, Tables!DataRuleService,
       Tables!DictTypeService, Tables!ConfigService, Tables!TaskSchedulerService, Tables!ProviderService,
       Tables!ModelGroupService, Tables!RateLimitService, Tables!GenBusinessService
<1>2. \A r \in Standing : Tables!Service[r].update \in {<<>>, <<"row", "name">>}
    BY DEF Standing, Tables!Service, Tables!RoleService, Tables!DataScopeService, Tables!DataRuleService,
       Tables!DictTypeService, Tables!ConfigService, Tables!TaskSchedulerService, Tables!ProviderService,
       Tables!ModelGroupService, Tables!RateLimitService, Tables!GenBusinessService
<1>3. \A r \in Standing : Tables!Service[r].delete \in {<<>>, <<"row">>}
    BY DEF Standing, Tables!Service, Tables!RoleService, Tables!DataScopeService, Tables!DataRuleService,
       Tables!DictTypeService, Tables!ConfigService, Tables!TaskSchedulerService, Tables!ProviderService,
       Tables!ModelGroupService, Tables!RateLimitService, Tables!GenBusinessService
<1>4. <<>> \in Seq(Looks) /\ <<"name">> \in Seq(Looks) /\ <<"row">> \in Seq(Looks) /\ <<"row", "name">> \in Seq(Looks)
    BY ListsAreLists
<1> QED
    BY <1>1, <1>2, <1>3, <1>4

\* The same for the others, one by one.
LEMMA OtherRows ==
    /\ Tables!Table["notice"].parent = "none" /\ ~Tables!Table["notice"].unique /\ ~Tables!Table["notice"].foreign
    /\ Tables!Table["user"].parent = "dept" /\ Tables!Table["user"].unique /\ ~Tables!Table["user"].foreign
    /\ Tables!Table["dept"].parent = "dept" /\ ~Tables!Table["dept"].unique /\ ~Tables!Table["dept"].foreign
    /\ Tables!Table["menu"].parent = "menu" /\ ~Tables!Table["menu"].unique /\ ~Tables!Table["menu"].foreign
    /\ Tables!Table["dictData"].parent = "dictType" /\ ~Tables!Table["dictData"].unique /\ ~Tables!Table["dictData"].foreign
    /\ Tables!Table["model"].parent = "provider" /\ ~Tables!Table["model"].unique /\ Tables!Table["model"].foreign
    /\ Tables!Table["key"].parent = "limit" /\ ~Tables!Table["key"].unique /\ ~Tables!Table["key"].foreign
    /\ Tables!Table["column"].parent = "business" /\ ~Tables!Table["column"].unique /\ ~Tables!Table["column"].foreign
<1> USE DEF Tables!Table, Tables!Plain
<1>1. Tables!Table["notice"].parent = "none" /\ ~Tables!Table["notice"].unique /\ ~Tables!Table["notice"].foreign
    BY DEF Tables!Notice
<1>2. Tables!Table["user"].parent = "dept" /\ Tables!Table["user"].unique /\ ~Tables!Table["user"].foreign
    BY DEF Tables!User
<1>3. Tables!Table["dept"].parent = "dept" /\ ~Tables!Table["dept"].unique /\ ~Tables!Table["dept"].foreign
    BY DEF Tables!Dept
<1>4. Tables!Table["menu"].parent = "menu" /\ ~Tables!Table["menu"].unique /\ ~Tables!Table["menu"].foreign
    BY DEF Tables!Menu
<1>5. Tables!Table["dictData"].parent = "dictType" /\ ~Tables!Table["dictData"].unique /\ ~Tables!Table["dictData"].foreign
    BY DEF Tables!DictData
<1>6. Tables!Table["model"].parent = "provider" /\ ~Tables!Table["model"].unique /\ Tables!Table["model"].foreign
    BY DEF Tables!ModelConfig
<1>7. Tables!Table["key"].parent = "limit" /\ ~Tables!Table["key"].unique /\ ~Tables!Table["key"].foreign
    BY DEF Tables!UserApiKey
<1>8. Tables!Table["column"].parent = "business" /\ ~Tables!Table["column"].unique /\ ~Tables!Table["column"].foreign
    BY DEF Tables!GenColumn
<1> QED
    BY <1>1, <1>2, <1>3, <1>4, <1>5, <1>6, <1>7, <1>8

LEMMA OtherLists ==
    /\ /\ Tables!Service["notice"].create = <<>> /\ Tables!Service["notice"].delete = <<>>
       /\ Tables!Service["notice"].update = <<"row">>
    /\ /\ Tables!Service["user"].create = <<"name", "parent">> /\ Tables!Service["user"].delete = <<"row">>
       /\ Tables!Service["user"].update = <<"row", "name", "parent">>
    /\ /\ Tables!Service["dept"].create = <<"name", "parent">> /\ Tables!Service["dept"].delete = <<"row", "users", "children">>
       /\ Tables!Service["dept"].update = <<"row", "name", "parent", "self">>
    /\ /\ Tables!Service["menu"].create = <<"name", "parent">> /\ Tables!Service["menu"].delete = <<"children">>
       /\ Tables!Service["menu"].update = <<"row", "name", "parent", "self">>
    /\ /\ Tables!Service["dictData"].create = <<"parent", "name">> /\ Tables!Service["dictData"].delete = <<>>
       /\ Tables!Service["dictData"].update = <<"row", "parent", "name">>
    /\ /\ Tables!Service["model"].create = <<"parent", "name">> /\ Tables!Service["model"].delete = <<"row">>
       /\ Tables!Service["model"].update = <<"row", "parent", "name">>
    /\ /\ Tables!Service["key"].create = <<"parent">> /\ Tables!Service["key"].delete = <<"row", "owner">>
       /\ Tables!Service["key"].update = <<"row", "owner", "parent">>
    /\ /\ Tables!Service["column"].create = <<"name">> /\ Tables!Service["column"].delete = <<>>
       /\ Tables!Service["column"].update = <<"row", "name">>
<1>1. /\ Tables!Service["notice"].create = <<>> /\ Tables!Service["notice"].delete = <<>>
      /\ Tables!Service["notice"].update = <<"row">>
    BY DEF Tables!Service, Tables!NoticeService
<1>2. /\ Tables!Service["user"].create = <<"name", "parent">> /\ Tables!Service["user"].delete = <<"row">>
      /\ Tables!Service["user"].update = <<"row", "name", "parent">>
    BY DEF Tables!Service, Tables!UserService
<1>3. /\ Tables!Service["dept"].create = <<"name", "parent">> /\ Tables!Service["dept"].delete = <<"row", "users", "children">>
      /\ Tables!Service["dept"].update = <<"row", "name", "parent", "self">>
    BY DEF Tables!Service, Tables!DeptService
<1>4. /\ Tables!Service["menu"].create = <<"name", "parent">> /\ Tables!Service["menu"].delete = <<"children">>
      /\ Tables!Service["menu"].update = <<"row", "name", "parent", "self">>
    BY DEF Tables!Service, Tables!MenuService
<1>5. /\ Tables!Service["dictData"].create = <<"parent", "name">> /\ Tables!Service["dictData"].delete = <<>>
      /\ Tables!Service["dictData"].update = <<"row", "parent", "name">>
    BY DEF Tables!Service, Tables!DictDataService
<1>6. /\ Tables!Service["model"].create = <<"parent", "name">> /\ Tables!Service["model"].delete = <<"row">>
      /\ Tables!Service["model"].update = <<"row", "parent", "name">>
    BY DEF Tables!Service, Tables!ModelService
<1>7. /\ Tables!Service["key"].create = <<"parent">> /\ Tables!Service["key"].delete = <<"row", "owner">>
      /\ Tables!Service["key"].update = <<"row", "owner", "parent">>
    BY DEF Tables!Service, Tables!ApiKeyService
<1>8. /\ Tables!Service["column"].create = <<"name">> /\ Tables!Service["column"].delete = <<>>
      /\ Tables!Service["column"].update = <<"row", "name">>
    BY DEF Tables!Service, Tables!GenColumnService
<1> QED
    BY <1>1, <1>2, <1>3, <1>4, <1>5, <1>6, <1>7, <1>8

LEMMA DeletedParents ==
    /\ Tables!Dao["dictType"].cascades
    /\ ~Tables!Commits("limit")
BY DEF Tables!Dao, Tables!CRUDDictType, Tables!InTable, Tables!Commits, Tables!Routes, Tables!RateLimitRoutes,
   Tables!CurrentSession, Tables!CRUDRateLimitConfig

\* What a resource has for its names, and for the rows it belongs to.
ListsTyped(r) ==
    /\ Tables!Service[r].create \in Seq(Looks) /\ Tables!Service[r].update \in Seq(Looks)
    /\ Tables!Service[r].delete \in Seq(Looks)
NamesKept(r) ==
    \/ Tables!Table[r].unique \/ r \in {"notice", "key"}
    \/ Has(Tables!Service[r].create, "name") /\ Has(Tables!Service[r].update, "name")
ParentsLookedUp(r) ==
    \/ Tables!Table[r].parent = "none" \/ Tables!Table[r].foreign \/ r = "column"
    \/ Has(Tables!Service[r].create, "parent") /\ Has(Tables!Service[r].update, "parent")
ParentsKept(r, p) ==
    /\ p = r => Has(Tables!Service[r].delete, "children") /\ ~Tables!Table[r].foreign
    /\ p \notin {"none", r} =>
           /\ Tables!Service[p].delete \in Seq(Looks)
           /\ \/ Tables!Table[r].foreign \/ r = "column"
              \/ r = "user" /\ Has(Tables!Service[p].delete, "users")
              \/ Tables!Dao[p].cascades \/ ~Tables!Commits(p)
Kept(r) == ListsTyped(r) /\ NamesKept(r) /\ ParentsLookedUp(r) /\ ParentsKept(r, Tables!Table[r].parent)

LEMMA EveryResource ==
    ASSUME NEW r \in DOMAIN Tables!Service
    PROVE  Kept(r)
<1>1. r \in Standing \union {"notice", "user", "dept", "menu", "dictData", "model", "key", "column"}
    BY DEF Tables!Service, Standing
<1>2. CASE r \in Standing
    BY <1>2, StandingRows, StandingLists DEF Kept, ListsTyped, NamesKept, ParentsLookedUp, ParentsKept, Standing
<1>3. CASE r = "notice"
  <2>1. /\ Tables!Service[r].create = <<>>
        /\ Tables!Service[r].update = <<"row">>
        /\ Tables!Service[r].delete = <<>>
      BY <1>3, OtherLists
  <2>2. ListsTyped(r)
      BY <2>1, ListsAreLists DEF ListsTyped
  <2>3. NamesKept(r)
      BY <1>3, <2>1, OtherRows, ListsHaveNames DEF NamesKept
  <2>4. ParentsLookedUp(r)
      BY <1>3, <2>1, OtherRows, ListsHaveParents DEF ParentsLookedUp
  <2>5. ParentsKept(r, "none")
      BY <1>3 DEF ParentsKept
  <2> QED
      BY <1>3, <2>2, <2>3, <2>4, <2>5, OtherRows DEF Kept
<1>4. CASE r = "user"
  <2>1. /\ Tables!Service[r].create = <<"name", "parent">>
        /\ Tables!Service[r].update = <<"row", "name", "parent">>
        /\ Tables!Service[r].delete = <<"row">>
      BY <1>4, OtherLists
  <2>2. ListsTyped(r)
      BY <2>1, ListsAreLists DEF ListsTyped
  <2>3. NamesKept(r)
      BY <1>4, <2>1, OtherRows, ListsHaveNames DEF NamesKept
  <2>4. ParentsLookedUp(r)
      BY <1>4, <2>1, OtherRows, ListsHaveParents DEF ParentsLookedUp
  <2>5. ParentsKept(r, "dept")
    <3>1. Tables!Service["dept"].delete = <<"row", "users", "children">>
        BY OtherLists
    <3> QED
        BY <1>4, <3>1, ListsAreLists, ListsHaveChildren DEF ParentsKept
  <2> QED
      BY <1>4, <2>2, <2>3, <2>4, <2>5, OtherRows DEF Kept
<1>5. CASE r = "dept"
  <2>1. /\ Tables!Service[r].create = <<"name", "parent">>
        /\ Tables!Service[r].update = <<"row", "name", "parent", "self">>
        /\ Tables!Service[r].delete = <<"row", "users", "children">>
      BY <1>5, OtherLists
  <2>2. ListsTyped(r)
      BY <2>1, ListsAreLists DEF ListsTyped
  <2>3. NamesKept(r)
      BY <1>5, <2>1, OtherRows, ListsHaveNames DEF NamesKept
  <2>4. ParentsLookedUp(r)
      BY <1>5, <2>1, OtherRows, ListsHaveParents DEF ParentsLookedUp
  <2>5. ParentsKept(r, "dept")
      BY <1>5, <2>1, OtherRows, ListsHaveChildren DEF ParentsKept
  <2> QED
      BY <1>5, <2>2, <2>3, <2>4, <2>5, OtherRows DEF Kept
<1>6. CASE r = "menu"
  <2>1. /\ Tables!Service[r].create = <<"name", "parent">>
        /\ Tables!Service[r].update = <<"row", "name", "parent", "self">>
        /\ Tables!Service[r].delete = <<"children">>
      BY <1>6, OtherLists
  <2>2. ListsTyped(r)
      BY <2>1, ListsAreLists DEF ListsTyped
  <2>3. NamesKept(r)
      BY <1>6, <2>1, OtherRows, ListsHaveNames DEF NamesKept
  <2>4. ParentsLookedUp(r)
      BY <1>6, <2>1, OtherRows, ListsHaveParents DEF ParentsLookedUp
  <2>5. ParentsKept(r, "menu")
      BY <1>6, <2>1, OtherRows, ListsHaveChildren DEF ParentsKept
  <2> QED
      BY <1>6, <2>2, <2>3, <2>4, <2>5, OtherRows DEF Kept
<1>7. CASE r = "dictData"
  <2>1. /\ Tables!Service[r].create = <<"parent", "name">>
        /\ Tables!Service[r].update = <<"row", "parent", "name">>
        /\ Tables!Service[r].delete = <<>>
      BY <1>7, OtherLists
  <2>2. ListsTyped(r)
      BY <2>1, ListsAreLists DEF ListsTyped
  <2>3. NamesKept(r)
      BY <1>7, <2>1, OtherRows, ListsHaveNames DEF NamesKept
  <2>4. ParentsLookedUp(r)
      BY <1>7, <2>1, OtherRows, ListsHaveParents DEF ParentsLookedUp
  <2>5. ParentsKept(r, "dictType")
    <3>1. Tables!Service["dictType"].delete \in Seq(Looks)
        BY StandingLists DEF Standing
    <3> QED
        BY <1>7, <3>1, OtherRows, DeletedParents DEF ParentsKept
  <2> QED
      BY <1>7, <2>2, <2>3, <2>4, <2>5, OtherRows DEF Kept
<1>8. CASE r = "model"
  <2>1. /\ Tables!Service[r].create = <<"parent", "name">>
        /\ Tables!Service[r].update = <<"row", "parent", "name">>
        /\ Tables!Service[r].delete = <<"row">>
      BY <1>8, OtherLists
  <2>2. ListsTyped(r)
      BY <2>1, ListsAreLists DEF ListsTyped
  <2>3. NamesKept(r)
      BY <1>8, <2>1, OtherRows, ListsHaveNames DEF NamesKept
  <2>4. ParentsLookedUp(r)
      BY <1>8, <2>1, OtherRows, ListsHaveParents DEF ParentsLookedUp
  <2>5. ParentsKept(r, "provider")
    <3>1. Tables!Service["provider"].delete \in Seq(Looks)
        BY StandingLists DEF Standing
    <3> QED
        BY <1>8, <3>1, OtherRows, DeletedParents DEF ParentsKept
  <2> QED
      BY <1>8, <2>2, <2>3, <2>4, <2>5, OtherRows DEF Kept
<1>9. CASE r = "key"
  <2>1. /\ Tables!Service[r].create = <<"parent">>
        /\ Tables!Service[r].update = <<"row", "owner", "parent">>
        /\ Tables!Service[r].delete = <<"row", "owner">>
      BY <1>9, OtherLists
  <2>2. ListsTyped(r)
      BY <2>1, ListsAreLists DEF ListsTyped
  <2>3. NamesKept(r)
      BY <1>9, <2>1, OtherRows, ListsHaveNames DEF NamesKept
  <2>4. ParentsLookedUp(r)
      BY <1>9, <2>1, OtherRows, ListsHaveParents DEF ParentsLookedUp
  <2>5. ParentsKept(r, "limit")
    <3>1. Tables!Service["limit"].delete \in Seq(Looks)
        BY StandingLists DEF Standing
    <3> QED
        BY <1>9, <3>1, OtherRows, DeletedParents DEF ParentsKept
  <2> QED
      BY <1>9, <2>2, <2>3, <2>4, <2>5, OtherRows DEF Kept
<1>10. CASE r = "column"
  <2>1. /\ Tables!Service[r].create = <<"name">>
        /\ Tables!Service[r].update = <<"row", "name">>
        /\ Tables!Service[r].delete = <<>>
      BY <1>10, OtherLists
  <2>2. ListsTyped(r)
      BY <2>1, ListsAreLists DEF ListsTyped
  <2>3. NamesKept(r)
      BY <1>10, <2>1, OtherRows, ListsHaveNames DEF NamesKept
  <2>4. ParentsLookedUp(r)
      BY <1>10, <2>1, OtherRows, ListsHaveParents DEF ParentsLookedUp
  <2>5. ParentsKept(r, "business")
    <3>1. Tables!Service["business"].delete \in Seq(Looks)
        BY StandingLists DEF Standing
    <3> QED
        BY <1>10, <3>1, OtherRows, DeletedParents DEF ParentsKept
  <2> QED
      BY <1>10, <2>2, <2>3, <2>4, <2>5, OtherRows DEF Kept
<1> QED
    BY <1>1, <1>2, <1>3, <1>4, <1>5, <1>6, <1>7, <1>8, <1>9, <1>10

-----------------------------------------------------------------------------
(* What every state has.                                                   *)

IsRow(r) ==
    /\ r \in [id : 1..made, name : {r.name}, in : {r.in}, button : BOOLEAN, by : {r.by}]
    /\ Tables!Parent = "none" => r.in = 0

IsRequest(o) ==
    /\ o \in [does : {"create", "update", "delete"}, todo : Seq(Looks), id : Int, name : {o.name}, in : {o.in},
              button : BOOLEAN, was : {o.was}, by : {o.by}]
    /\ o.does = "create" => o.id = 0
    /\ o.does = "update" => o.id > 0
    /\ o.does = "delete" => o.id > 0 \/ Tables!Belongs
    /\ o.does # "delete" => o.name # "none"
    /\ Tables!Parent = "none" => o.in = 0

TableTypes ==
    /\ resource \in DOMAIN Tables!Service /\ made \in Nat
    /\ parents \subseteq {-1, -2}
    /\ \A r \in rows : IsRow(r)
    /\ \A a, b \in rows : a.id = b.id => a = b
    /\ op = [c \in Clients |-> op[c]]
    /\ \A c \in Clients : op[c] = Tables!Free \/ IsRequest(op[c])

\* The look-ups of a request, and what one tells the write after it.
LooksOf(o) ==
    CASE o.does = "create" -> Tables!Service[resource].create
      [] o.does = "update" -> Tables!Service[resource].update
      [] o.does = "delete" /\ o.id > 0 -> Tables!Service[resource].delete
      [] OTHER -> Tables!Service[Tables!Parent].delete

Passed(look, o) ==
    CASE look = "name" -> o.does = "delete" \/ ~Tables!Taken(o) \/ (o.was # "none" /\ o.name = o.was)
      [] look = "parent" -> Tables!ParentFound(o)
      [] look = "users" -> resource = "user" => Tables!Children(o) = {}
      [] look = "children" -> Tables!Nested => Tables!Children(o) = {}
      [] OTHER -> TRUE

\* A request that is alone may rely on what it has looked up.
AloneInv ==
    ~overlap =>
        /\ \A c, d \in Clients : op[c] # Tables!Free /\ op[d] # Tables!Free => c = d
        /\ \A c \in Clients : op[c] # Tables!Free =>
               /\ \A look \in Looks : Has(LooksOf(op[c]), look) => Has(op[c].todo, look) \/ Passed(look, op[c])
               /\ op[c].was # "none" => op[c].id \in Tables!Ids /\ op[c].was = Tables!TheRow(op[c]).name

TableInv == TableTypes /\ AloneInv /\ NamesAreUnique /\ ParentsExist

LEMMA NotFree == \A o : IsRequest(o) => o # Tables!Free
<1>1. Tables!Free.does = "nothing"
    BY DEF Tables!Free
<1> QED
    BY <1>1 DEF IsRequest

LEMMA InitTables == Tables!Init => TableInv
<1> SUFFICES ASSUME Tables!Init PROVE TableInv
    OBVIOUS
<1>1. TableTypes
    BY ResourcesAreKnown DEF Tables!Init, TableTypes
<1>2. AloneInv
    BY DEF Tables!Init, AloneInv
<1>3. NamesAreUnique /\ ParentsExist
    BY DEF Tables!Init, NamesAreUnique, Tables!NamesAreUnique, ParentsExist, Tables!ParentsExist
<1> QED
    BY <1>1, <1>2, <1>3 DEF TableInv

\* Nothing but the requests changes.
LEMMA RowsStay ==
    ASSUME TableInv, UNCHANGED <<resource, rows, parents, made, moved>>, overlap => overlap',
           op' = [c \in Clients |-> op'[c]],
           \A c \in Clients : op'[c] = Tables!Free \/ IsRequest(op'[c])
    PROVE  TableTypes' /\ NamesAreUnique' /\ ParentsExist'
<1>1. ASSUME NEW o, IsRequest(o) PROVE IsRequest(o)'
    BY <1>1 DEF IsRequest, Tables!Parent, Tables!Belongs
<1>2. ASSUME NEW r, IsRow(r) PROVE IsRow(r)'
    BY <1>2 DEF IsRow, Tables!Parent
<1>3. \A c \in Clients : (op[c] = Tables!Free \/ IsRequest(op[c]))'
  <2> SUFFICES ASSUME NEW c \in Clients PROVE (op[c] = Tables!Free \/ IsRequest(op[c]))'
      OBVIOUS
  <2>1. PICK o : o = op'[c]
      OBVIOUS
  <2>2. o = Tables!Free \/ IsRequest(o)
      BY <2>1
  <2>3. o = Tables!Free \/ IsRequest(o)'
      BY <1>1, <2>2
  <2>4. Tables!Free' = Tables!Free
      BY DEF Tables!Free
  <2> QED
      BY <2>1, <2>3, <2>4 DEF IsRequest, Tables!Parent, Tables!Belongs
<1>4. TableTypes'
    BY <1>2, <1>3 DEF TableInv, TableTypes
<1>5. NamesAreUnique'
    BY DEF TableInv, NamesAreUnique, Tables!NamesAreUnique, Tables!Siblings
<1>6. ParentsExist'
    BY DEF TableInv, ParentsExist, Tables!ParentsExist, Tables!ParentFound, Tables!Nested, Tables!Parent, Tables!Ids
<1> QED
    BY <1>4, <1>5, <1>6

LEMMA BeginKeeps ==
    ASSUME TableInv, NEW c \in Clients, NEW o, IsRequest(o), o.todo = LooksOf(o), o.was = "none", Tables!Begin(c, o)
    PROVE  TableInv'
<1>1. /\ op' = [op EXCEPT ![c] = o] /\ UNCHANGED <<resource, rows, parents, made, told, moved>>
      /\ overlap' = (overlap \/ \E d \in Clients \ {c} : op[d] # Tables!Free)
    BY DEF Tables!Begin
<1>2. op' = [d \in Clients |-> op'[d]] /\ op'[c] = o /\ \A d \in Clients \ {c} : op'[d] = op[d]
    BY <1>1 DEF TableInv, TableTypes
<1>3. TableTypes' /\ NamesAreUnique' /\ ParentsExist'
    BY <1>1, <1>2, RowsStay DEF TableInv, TableTypes
<1>4. AloneInv'
  <2> SUFFICES ASSUME ~overlap' PROVE AloneInv'
      BY DEF AloneInv
  <2>1. \A d \in Clients : op'[d] # Tables!Free => d = c
      BY <1>1, <1>2
  <2>2. LooksOf(o)' = LooksOf(o)
      BY <1>1 DEF LooksOf, Tables!Parent
  <2>3. \A look \in Looks : Has(LooksOf(o)', look) => Has(o.todo, look)
      BY <2>2
  <2>4. \A look \in Looks : Has(LooksOf(op[c])', look) => Has(op'[c].todo, look)
      BY <1>2, <2>3 DEF LooksOf
  <2> QED
      BY <1>2, <2>1, <2>4 DEF AloneInv, Tables!Free
<1> QED
    BY <1>3, <1>4 DEF TableInv

LEMMA RequestsBegin ==
    ASSUME TableInv, NEW c \in Clients,
           \/ \E name \in Names, place \in Tables!Places, button \in BOOLEAN : Tables!Create(c, name, place, button)
           \/ \E id \in 1..made, name \in Names, place \in Tables!Places, button \in BOOLEAN :
                  Tables!Update(c, id, name, place, button)
           \/ \E id \in 1..made : Tables!Delete(c, id)
           \/ \E id \in {-1, -2} : Tables!DeleteParent(c, id)
    PROVE  TableInv'
<1>0. /\ resource \in DOMAIN Tables!Service /\ made \in Nat /\ "none" \notin Names
    BY ResourcesAreKnown DEF TableInv, TableTypes
<1>k. Kept(resource)
    BY <1>0, EveryResource
<1>p. \A place \in Tables!Places : Tables!Parent = "none" => place = 0
  <2>1. resource # "none"
      BY <1>0 DEF Tables!Service
  <2> QED
      BY <2>1 DEF Tables!Places, Tables!Nested, Tables!Belongs
<1>1. ASSUME NEW name \in Names, NEW place \in Tables!Places, NEW button \in BOOLEAN, Tables!Create(c, name, place, button)
      PROVE  TableInv'
  <2> DEFINE o == [does |-> "create", todo |-> Tables!Service[resource].create,
                   id |-> 0, name |-> name, in |-> place, button |-> button, was |-> "none", by |-> c]
  <2>1. IsRequest(o)
      BY <1>0, <1>k, <1>p DEF IsRequest, Kept, ListsTyped
  <2>2. o.todo = LooksOf(o) /\ o.was = "none"
      BY DEF LooksOf
  <2>3. Tables!Begin(c, o)
      BY <1>1 DEF Tables!Create
  <2> HIDE DEF o
  <2> QED
      BY <2>1, <2>2, <2>3, BeginKeeps
<1>2. ASSUME NEW id \in 1..made, NEW name \in Names, NEW place \in Tables!Places, NEW button \in BOOLEAN,
             Tables!Update(c, id, name, place, button)
      PROVE  TableInv'
  <2> DEFINE o == [does |-> "update", todo |-> Tables!Service[resource].update,
                   id |-> id, name |-> name, in |-> place, button |-> button, was |-> "none", by |-> c]
  <2>1. IsRequest(o)
      BY <1>0, <1>k, <1>p DEF IsRequest, Kept, ListsTyped
  <2>2. o.todo = LooksOf(o) /\ o.was = "none"
      BY DEF LooksOf
  <2>3. Tables!Begin(c, o)
      BY <1>2 DEF Tables!Update
  <2> HIDE DEF o
  <2> QED
      BY <2>1, <2>2, <2>3, BeginKeeps
<1>3. ASSUME NEW id \in 1..made, Tables!Delete(c, id) PROVE TableInv'
  <2> DEFINE o == [does |-> "delete", todo |-> Tables!Service[resource].delete,
                   id |-> id, name |-> "none", in |-> 0, button |-> FALSE, was |-> "none", by |-> c]
  <2>1. IsRequest(o)
      BY <1>0, <1>k DEF IsRequest, Kept, ListsTyped
  <2>2. o.todo = LooksOf(o) /\ o.was = "none"
      BY <1>0 DEF LooksOf
  <2>3. Tables!Begin(c, o)
      BY <1>3 DEF Tables!Delete
  <2> HIDE DEF o
  <2> QED
      BY <2>1, <2>2, <2>3, BeginKeeps
<1>4. ASSUME NEW id \in {-1, -2}, Tables!DeleteParent(c, id) PROVE TableInv'
  <2> DEFINE o == [does |-> "delete", todo |-> Tables!Service[Tables!Parent].delete,
                   id |-> id, name |-> "none", in |-> 0, button |-> FALSE, was |-> "none", by |-> c]
  <2>0. Tables!Belongs /\ Tables!Service[Tables!Parent].delete \in Seq(Looks)
      BY <1>4, <1>k DEF Tables!DeleteParent, Tables!Belongs, Kept, ParentsKept, Tables!Parent
  <2>1. IsRequest(o)
      BY <2>0 DEF IsRequest
  <2>2. o.todo = LooksOf(o) /\ o.was = "none"
      BY DEF LooksOf
  <2>3. Tables!Begin(c, o)
      BY <1>4 DEF Tables!DeleteParent
  <2> HIDE DEF o
  <2> QED
      BY <2>1, <2>2, <2>3, BeginKeeps
<1> QED
    BY <1>1, <1>2, <1>3, <1>4

LEMMA LookUpKeeps ==
    ASSUME TableInv, NEW c \in Clients, Tables!LookUp(c)
    PROVE  TableInv'
<1> PICK o : o = op[c]
    OBVIOUS
<1> PICK look : look = Head(o.todo)
    OBVIOUS
<1> PICK was : was = IF look = "row" /\ o.id \in Tables!Ids THEN Tables!TheRow(o).name ELSE o.was
    OBVIOUS
<1> PICK n : n = [o EXCEPT !.todo = Tail(o.todo), !.was = was]
    OBVIOUS
<1>1. /\ o # Tables!Free /\ o.todo # <<>>
      /\ op' = [op EXCEPT ![c] = IF Tables!Passes(look, o) THEN n ELSE Tables!Free]
      /\ UNCHANGED <<resource, rows, parents, made, moved, overlap>>
    BY DEF Tables!LookUp
<1>2. IsRequest(o) /\ o.todo \in Seq(Looks)
    BY <1>1 DEF TableInv, TableTypes, IsRequest
<1>3. look \in Looks /\ Tail(o.todo) \in Seq(Looks)
      /\ \A x \in Looks : Has(o.todo, x) => x = look \/ Has(Tail(o.todo), x)
  <2>1. o.todo \in Seq(Looks) /\ o.todo # <<>>
      BY <1>1, <1>2
  <2>2. PICK s : s = o.todo
      OBVIOUS
  <2>3. s \in Seq(Looks) /\ s # <<>> /\ look = Head(s)
      BY <2>1, <2>2
  <2>4. /\ Tail(s) \in Seq(Looks) /\ Len(Tail(s)) = Len(s) - 1 /\ Len(s) \in Nat /\ Len(s) > 0
        /\ \A i \in 1..Len(Tail(s)) : Tail(s)[i] = s[i + 1]
        /\ look = s[1] /\ s[1] \in Looks
      BY <2>3
  <2>5. ASSUME NEW x \in Looks, NEW i \in 1..Len(s), s[i] = x, x # look PROVE Has(Tail(s), x)
    <3>1. i # 1
        BY <2>4, <2>5
    <3>2. PICK j \in 1..Len(Tail(s)) : i = j + 1
      <4>1. i - 1 \in 1..Len(Tail(s)) /\ i = (i - 1) + 1
          BY <2>4, <3>1
      <4> QED
          BY <4>1
    <3>3. Tail(s)[j] = x
        BY <2>4, <2>5, <3>2
    <3> QED
        BY <3>3 DEF Has
  <2> QED
      BY <2>2, <2>4, <2>5 DEF Has
<1>4. /\ n.todo = Tail(o.todo) /\ n.was = was
      /\ n.does = o.does /\ n.id = o.id /\ n.name = o.name /\ n.in = o.in /\ n.button = o.button
      /\ n \in [does : {"create", "update", "delete"}, todo : Seq(Looks), id : Int, name : {n.name}, in : {n.in},
                button : BOOLEAN, was : {n.was}, by : {n.by}]
    BY <1>2, <1>3 DEF IsRequest
<1>5. IsRequest(n)
    BY <1>2, <1>4 DEF IsRequest
<1>6. op' = [d \in Clients |-> op'[d]] /\ op'[c] \in {Tables!Free, n} /\ \A d \in Clients \ {c} : op'[d] = op[d]
    BY <1>1 DEF TableInv, TableTypes
<1>7. op'[c] = n => Tables!Passes(look, o)
    BY <1>1, <1>6, <1>5, NotFree DEF TableInv, TableTypes
<1>8. TableTypes' /\ NamesAreUnique' /\ ParentsExist'
    BY <1>1, <1>5, <1>6, RowsStay DEF TableInv, TableTypes
<1>9. ASSUME ~overlap', op'[c] = n
      PROVE  /\ \A x \in Looks : Has(LooksOf(op[c])', x) => Has(op'[c].todo, x) \/ Passed(x, op[c])'
             /\ op'[c].was # "none" => op'[c].id \in Tables!Ids' /\ op'[c].was = Tables!TheRow(op[c])'.name
  <2>1. ~overlap
      BY <1>1, <1>9
  <2>2. /\ \A x \in Looks : Has(LooksOf(o), x) => Has(o.todo, x) \/ Passed(x, o)
        /\ o.was # "none" => o.id \in Tables!Ids /\ o.was = Tables!TheRow(o).name
      BY <1>1, <2>1 DEF TableInv, AloneInv
  <2>3. Tables!TheRow(n) = Tables!TheRow(o) /\ LooksOf(n) = LooksOf(o)
      BY <1>4 DEF Tables!TheRow, LooksOf
  <2>4. n.was # "none" => n.id \in Tables!Ids /\ n.was = Tables!TheRow(n).name
      BY <1>4, <2>2, <2>3
  <2>5. n.was = o.was \/ o.was = "none"
      BY <1>4, <2>2
  <2>6. ASSUME NEW x \in Looks, Passed(x, o) PROVE Passed(x, n)
    <3>1. /\ Tables!Taken(n) = Tables!Taken(o) /\ Tables!ParentFound(n) = Tables!ParentFound(o)
          /\ Tables!Children(n) = Tables!Children(o)
        BY <1>4 DEF Tables!Taken, Tables!ParentFound, Tables!Children
    <3>2. n.does = o.does /\ n.name = o.name
        BY <1>4
    <3> QED
        BY <2>5, <2>6, <3>1, <3>2 DEF Passed
  <2>7. Passed(look, n)
    <3>1. Tables!Passes(look, o)
        BY <1>7, <1>9
    <3>2. CASE look = "name"
      <4>1. o.does = "delete" \/ o.name # "none"
          BY <1>2 DEF IsRequest
      <4>2. Tables!NameFree(o)
          BY <3>1, <3>2 DEF Tables!Passes
      <4>3. Passed(look, o)
          BY <3>2, <4>1, <4>2 DEF Passed, Tables!NameFree
      <4> QED
          BY <1>3, <2>6, <4>3
    <3>3. CASE look # "name"
      <4>1. Passed(look, o)
          BY <3>1, <3>3, <1>3 DEF Passed, Tables!Passes, Looks
      <4> QED
          BY <1>3, <2>6, <4>1
    <3> QED
        BY <3>2, <3>3
  <2>8. \A x \in Looks : Has(LooksOf(n), x) => Has(n.todo, x) \/ Passed(x, n)
      BY <1>3, <1>4, <2>2, <2>3, <2>6, <2>7
  <2>9. LooksOf(op[c])' = LooksOf(n)
      BY <1>1, <1>9 DEF LooksOf, Tables!Parent
  <2>10. \A x \in Looks : Passed(x, op[c])' = Passed(x, n)
      BY <1>1, <1>9 DEF Passed, Tables!Taken, Tables!ParentFound, Tables!Children, Tables!Siblings, Tables!Nested,
         Tables!Parent, Tables!Ids
  <2>11. Tables!TheRow(op[c])' = Tables!TheRow(n) /\ Tables!Ids' = Tables!Ids
      BY <1>1, <1>9 DEF Tables!TheRow, Tables!Ids
  <2>12. \A x \in Looks : Has(LooksOf(op[c])', x) => Has(op'[c].todo, x) \/ Passed(x, op[c])'
      BY <1>9, <2>8, <2>9, <2>10
  <2> QED
      BY <1>9, <2>4, <2>11, <2>12
<1>10. AloneInv'
  <2> SUFFICES ASSUME ~overlap' PROVE AloneInv'
      BY DEF AloneInv
  <2>1. \A d \in Clients : op[d] # Tables!Free => d = c
      BY <1>1 DEF TableInv, AloneInv
  <2>2. \A d \in Clients : op'[d] # Tables!Free => d = c /\ op'[c] = n
      BY <1>6, <2>1
  <2>3. Tables!Free' = Tables!Free
      BY DEF Tables!Free
  <2> QED
      BY <1>9, <2>2, <2>3 DEF AloneInv
<1> QED
    BY <1>8, <1>10 DEF TableInv

-----------------------------------------------------------------------------
(* The writes.                                                             *)

\* The write of a request ends it.
LEMMA WriteEnds ==
    ASSUME TableInv, NEW c \in Clients, op[c] # Tables!Free, Tables!Done(c),
           UNCHANGED <<resource, overlap>>, made <= made', made' \in Nat
    PROVE  /\ AloneInv'
           /\ op' = [d \in Clients |-> op'[d]]
           /\ \A d \in Clients : (op[d] = Tables!Free \/ IsRequest(op[d]))'
<1>1. op' = [d \in Clients |-> op'[d]] /\ op'[c] = Tables!Free /\ \A d \in Clients \ {c} : op'[d] = op[d]
    BY DEF Tables!Done, TableInv, TableTypes
<1>2. \A d \in Clients : (op[d] = Tables!Free \/ IsRequest(op[d]))'
    BY <1>1 DEF TableInv, TableTypes, IsRequest, Tables!Parent, Tables!Belongs, Tables!Free
<1>3. AloneInv'
  <2> SUFFICES ASSUME ~overlap' PROVE AloneInv'
      BY DEF AloneInv
  <2>1. \A d \in Clients : op'[d] = Tables!Free
      BY <1>1 DEF TableInv, AloneInv
  <2>2. Tables!Free' = Tables!Free
      BY DEF Tables!Free
  <2> QED
      BY <2>1, <2>2 DEF AloneInv
<1> QED
    BY <1>1, <1>2, <1>3

\* A request that has nothing left to look up and is alone has found all well.
LEMMA AllPassed ==
    ASSUME TableInv, ~overlap, NEW c \in Clients, op[c] # Tables!Free, op[c].todo = <<>>
    PROVE  /\ \A look \in Looks : Has(LooksOf(op[c]), look) => Passed(look, op[c])
           /\ op[c].was # "none" => op[c].id \in Tables!Ids /\ op[c].was = Tables!TheRow(op[c]).name
<1>1. \A look : ~Has(<<>>, look)
    BY DEF Has
<1> QED
    BY <1>1 DEF TableInv, AloneInv

\* The row of an id.
LEMMA TheRowIs ==
    ASSUME TableInv, NEW o, o.id \in Tables!Ids
    PROVE  /\ Tables!TheRow(o) \in rows /\ Tables!TheRow(o).id = o.id
           /\ \A r \in rows : r.id = o.id => r = Tables!TheRow(o)
<1>1. PICK r \in rows : r.id = o.id
    BY DEF Tables!Ids
<1>2. Tables!TheRow(o) \in rows /\ Tables!TheRow(o).id = o.id
    BY <1>1 DEF Tables!TheRow
<1> QED
    BY <1>2 DEF TableInv, TableTypes

\* What is written has a name of its own, unless it keeps the one it had.
LEMMA NameFits ==
    ASSUME TableInv, NEW c \in Clients, op[c].does \in {"create", "update"}, op[c] # Tables!Free, op[c].todo = <<>>,
           ~Tables!Refused(op[c]),
           NEW a \in rows, a.id # op[c].id, a.name = op[c].name, ~a.button, Tables!Siblings => a.in = op[c].in
    PROVE  /\ ~Tables!Table[resource].unique
           /\ overlap \/ resource \in {"notice", "key"}
              \/ (op[c].id \in Tables!Ids /\ op[c].name = Tables!TheRow(op[c]).name)
<1>1. ~Tables!Table[resource].unique
    BY DEF Tables!Refused
<1>2. ASSUME ~overlap, resource \notin {"notice", "key"}
      PROVE  op[c].id \in Tables!Ids /\ op[c].name = Tables!TheRow(op[c]).name
  <2>1. Has(LooksOf(op[c]), "name")
      BY <1>1, <1>2, EveryResource DEF Kept, NamesKept, LooksOf, TableInv, TableTypes
  <2>2. Passed("name", op[c])
      BY <1>2, <2>1, AllPassed DEF Looks
  <2>3. Tables!Taken(op[c])
      BY DEF Tables!Taken
  <2>4. op[c].was # "none" /\ op[c].name = op[c].was
      BY <2>2, <2>3 DEF Passed
  <2> QED
      BY <1>2, <2>4, AllPassed
<1> QED
    BY <1>1, <1>2

\* And it belongs to a row that is there.
LEMMA ParentFits ==
    ASSUME TableInv, NEW c \in Clients, op[c].does \in {"create", "update"}, op[c] # Tables!Free, op[c].todo = <<>>,
           ~Tables!Refused(op[c]), ~Tables!ParentFound(op[c])
    PROVE  ~Tables!Table[resource].foreign /\ (overlap \/ resource = "column")
<1>1. ~Tables!Table[resource].foreign
    BY DEF Tables!Refused
<1>2. IsRequest(op[c]) /\ resource \in DOMAIN Tables!Service
    BY DEF TableInv, TableTypes
<1>3. Tables!Table[resource].parent # "none"
    BY <1>2 DEF IsRequest, Tables!ParentFound, Tables!Parent
<1>4. ASSUME ~overlap, resource # "column" PROVE FALSE
  <2>1. Has(LooksOf(op[c]), "parent")
      BY <1>1, <1>2, <1>3, <1>4, EveryResource DEF Kept, ParentsLookedUp, LooksOf
  <2>2. Passed("parent", op[c])
      BY <1>4, <2>1, AllPassed DEF Looks
  <2> QED
      BY <2>2 DEF Passed
<1> QED
    BY <1>1, <1>4

LEMMA InsertKeeps ==
    ASSUME TableInv, NEW c \in Clients, Tables!Insert(c)
    PROVE  TableInv'
<1> PICK o : o = op[c]
    OBVIOUS
<1> PICK n : n = Tables!RowOf(o, made + 1)
    OBVIOUS
<1>1. /\ o # Tables!Free /\ o.todo = <<>> /\ o.does = "create" /\ ~Tables!Refused(o)
      /\ made' = made + 1 /\ Tables!Done(c)
      /\ rows' = rows \/ rows' = rows \union {n}
      /\ UNCHANGED <<resource, parents, requests, overlap, moved>>
    BY DEF Tables!Insert, Tables!Ready
<1>2. IsRequest(o) /\ o.id = 0 /\ made \in Nat /\ resource \in DOMAIN Tables!Service
    BY <1>1 DEF TableInv, TableTypes, IsRequest
<1>3. /\ n.id = made + 1 /\ n.name = o.name /\ n.in = o.in /\ n.button = o.button /\ n.by = o.by
      /\ n \in [id : {made + 1}, name : {n.name}, in : {n.in}, button : BOOLEAN, by : {n.by}]
    BY <1>2 DEF Tables!RowOf, IsRequest
<1>4. AloneInv' /\ op' = [d \in Clients |-> op'[d]] /\ \A d \in Clients : (op[d] = Tables!Free \/ IsRequest(op[d]))'
    BY <1>1, <1>2, WriteEnds
<1>5. \A r \in rows : r.id \in 1..made /\ r.id # made + 1 /\ r.id # 0
    BY <1>2 DEF TableInv, TableTypes, IsRow
<1>6. TableTypes'
  <2>1. \A r \in rows : IsRow(r)'
      BY <1>1, <1>2 DEF TableInv, TableTypes, IsRow, Tables!Parent
  <2>2. IsRow(n)'
    <3>1. made + 1 \in 1..made'
        BY <1>1, <1>2
    <3>2. Tables!Parent' = "none" => n.in = 0
        BY <1>1, <1>2, <1>3 DEF IsRequest, Tables!Parent
    <3>3. n \in [id : 1..made', name : {n.name}, in : {n.in}, button : BOOLEAN, by : {n.by}]
        BY <1>3, <3>1
    <3> QED
        BY <3>2, <3>3 DEF IsRow
  <2>3. \A r \in rows' : IsRow(r)'
      BY <1>1, <2>1, <2>2
  <2>4. \A a, b \in rows' : a.id = b.id => a = b
      BY <1>1, <1>3, <1>5 DEF TableInv, TableTypes
  <2>5. made' \in Nat
      BY <1>1, <1>2
  <2> QED
      BY <1>1, <1>4, <2>3, <2>4, <2>5 DEF TableInv, TableTypes
<1>7. NamesAreUnique'
  <2>1. ASSUME NEW a \in rows, a.name = n.name, ~a.button, Tables!Siblings => a.in = n.in
        PROVE  ~Tables!Table[resource].unique /\ (overlap \/ moved \/ resource \in {"notice", "key"})
    <3>1. a.id # o.id /\ o.id \notin Tables!Ids
        BY <1>2, <1>5, <2>1 DEF Tables!Ids
    <3> QED
        BY <1>1, <1>3, <2>1, <3>1, NameFits
  <2>2. NamesAreUnique
      BY DEF TableInv
  <2> QED
      BY <1>1, <2>1, <2>2 DEF NamesAreUnique, Tables!NamesAreUnique, Tables!Siblings
<1>8. ParentsExist'
  <2>1. Tables!Ids \subseteq Tables!Ids'
      BY <1>1 DEF Tables!Ids
  <2>2. ASSUME NEW r, Tables!ParentFound(r) PROVE Tables!ParentFound(r)'
      BY <1>1, <2>1, <2>2 DEF Tables!ParentFound, Tables!Nested, Tables!Parent
  <2>3. ParentsExist
      BY DEF TableInv
  <2>4. ~Tables!ParentFound(n) => ~Tables!Table[resource].foreign /\ (overlap \/ resource = "column")
      BY <1>1, <1>3, ParentFits DEF Tables!ParentFound
  <2> QED
      BY <1>1, <2>2, <2>3, <2>4 DEF ParentsExist, Tables!ParentsExist
<1> QED
    BY <1>4, <1>6, <1>7, <1>8 DEF TableInv

LEMMA ReplaceKeeps ==
    ASSUME TableInv, NEW c \in Clients, Tables!Replace(c)
    PROVE  TableInv'
<1> PICK o : o = op[c]
    OBVIOUS
<1> PICK old : old = Tables!TheRow(o)
    OBVIOUS
<1> PICK n : n = [Tables!RowOf(o, o.id) EXCEPT !.by = old.by]
    OBVIOUS
<1>1. /\ o # Tables!Free /\ o.todo = <<>> /\ o.does = "update" /\ ~Tables!Refused(o) /\ o.id \in Tables!Ids
      /\ Tables!Done(c) /\ (rows' = rows \/ rows' = (rows \ {old}) \union {n})
      /\ UNCHANGED <<resource, parents, made, requests, overlap>>
    BY DEF Tables!Replace, Tables!Ready
<1>m. moved' = (moved \/ (Tables!Moves(o) /\ old.name = o.name))
    BY DEF Tables!Replace
<1>2. IsRequest(o) /\ made \in Nat
    BY <1>1 DEF TableInv, TableTypes, IsRequest
<1>3. /\ n.id = o.id /\ n.name = o.name /\ n.in = o.in /\ n.button = o.button
      /\ n \in [id : {o.id}, name : {n.name}, in : {n.in}, button : BOOLEAN, by : {n.by}]
    BY <1>2 DEF Tables!RowOf, IsRequest
<1>4. AloneInv' /\ op' = [d \in Clients |-> op'[d]] /\ \A d \in Clients : (op[d] = Tables!Free \/ IsRequest(op[d]))'
    BY <1>1, <1>2, WriteEnds
<1>5. old \in rows /\ old.id = o.id /\ \A r \in rows : r.id = o.id => r = old
    BY <1>1, TheRowIs
<1>6. TableTypes'
  <2>1. \A r \in rows : IsRow(r)'
      BY <1>1, <1>2 DEF TableInv, TableTypes, IsRow, Tables!Parent
  <2>2. IsRow(n)'
    <3>1. o.id \in 1..made'
        BY <1>1, <1>5 DEF TableInv, TableTypes, IsRow
    <3>2. Tables!Parent' = "none" => n.in = 0
        BY <1>1, <1>2, <1>3 DEF IsRequest, Tables!Parent
    <3>3. n \in [id : 1..made', name : {n.name}, in : {n.in}, button : BOOLEAN, by : {n.by}]
        BY <1>3, <3>1
    <3> QED
        BY <3>2, <3>3 DEF IsRow
  <2>3. \A r \in rows' : IsRow(r)'
      BY <1>1, <2>1, <2>2
  <2>4. \A a, b \in rows' : a.id = b.id => a = b
      BY <1>1, <1>3, <1>5 DEF TableInv, TableTypes
  <2> QED
      BY <1>1, <1>4, <2>3, <2>4 DEF TableInv, TableTypes
<1>7. NamesAreUnique'
  <2>1. ASSUME NEW a \in rows, a # old, a.name = n.name, ~a.button, ~n.button, Tables!Siblings => a.in = n.in
        PROVE  ~Tables!Table[resource].unique /\ (overlap \/ moved' \/ resource \in {"notice", "key"})
    <3>1. a.id # o.id
        BY <1>5, <2>1
    <3>2. /\ ~Tables!Table[resource].unique
          /\ overlap \/ resource \in {"notice", "key"} \/ o.name = old.name
        BY <1>1, <1>3, <2>1, <3>1, NameFits
    <3>3. CASE o.name = old.name /\ ~Tables!Moves(o)
      <4>1. ~old.button /\ (Tables!Siblings => a.in = old.in)
          BY <1>3, <2>1, <3>3 DEF Tables!Moves
      <4>2. overlap \/ moved \/ resource \in {"notice", "key"}
          BY <1>3, <1>5, <2>1, <3>3, <4>1 DEF TableInv, NamesAreUnique, Tables!NamesAreUnique
      <4> QED
          BY <1>m, <3>2, <4>2, Zenon
    <3>4. CASE o.name = old.name /\ Tables!Moves(o)
        BY <1>m, <3>2, <3>4, Zenon
    <3>5. CASE o.name # old.name
        BY <3>2, <3>5, Zenon
    <3> QED
        BY <3>3, <3>4, <3>5
  <2>2. ASSUME NEW a \in rows, NEW b \in rows, a # b, a.name = b.name, ~a.button, ~b.button, Tables!Siblings => a.in = b.in
        PROVE  ~Tables!Table[resource].unique /\ (overlap \/ moved' \/ resource \in {"notice", "key"})
    <3>1. ~Tables!Table[resource].unique /\ (overlap \/ moved \/ resource \in {"notice", "key"})
        BY <2>2 DEF TableInv, NamesAreUnique, Tables!NamesAreUnique
    <3> QED
        BY <1>m, <3>1, Zenon
  <2>3. ASSUME NEW a \in rows', NEW b \in rows', a # b, a.name = b.name, ~a.button, ~b.button,
               Tables!Siblings' => a.in = b.in
        PROVE  ~Tables!Table[resource].unique /\ (overlap \/ moved' \/ resource \in {"notice", "key"})
    <3>1. Tables!Siblings' = Tables!Siblings
        BY <1>1 DEF Tables!Siblings
    <3>2. CASE a \in rows /\ b \in rows
        BY <2>2, <2>3, <3>1, <3>2
    <3>3. CASE rows' = (rows \ {old}) \union {n} /\ a = n /\ b # n
      <4>1. b \in rows /\ b # old
          BY <2>3, <3>3
      <4> QED
          BY <2>1, <2>3, <3>1, <3>3, <4>1
    <3>4. CASE rows' = (rows \ {old}) \union {n} /\ b = n /\ a # n
      <4>1. a \in rows /\ a # old
          BY <2>3, <3>4
      <4> QED
          BY <2>1, <2>3, <3>1, <3>4, <4>1
    <3> QED
        BY <1>1, <2>3, <3>2, <3>3, <3>4
  <2> QED
      BY <1>1, <2>3 DEF NamesAreUnique, Tables!NamesAreUnique
<1>8. ParentsExist'
  <2>1. Tables!Ids = Tables!Ids'
      BY <1>1, <1>3, <1>5 DEF Tables!Ids
  <2>2. ASSUME NEW r, Tables!ParentFound(r) PROVE Tables!ParentFound(r)'
      BY <1>1, <2>1, <2>2 DEF Tables!ParentFound, Tables!Nested, Tables!Parent
  <2>3. ParentsExist
      BY DEF TableInv
  <2>4. ~Tables!ParentFound(n) => ~Tables!Table[resource].foreign /\ (overlap \/ resource = "column")
      BY <1>1, <1>3, ParentFits DEF Tables!ParentFound
  <2> QED
      BY <1>1, <2>2, <2>3, <2>4 DEF ParentsExist, Tables!ParentsExist
<1> QED
    BY <1>4, <1>6, <1>7, <1>8 DEF TableInv

\* What a deletion leaves behind, unless its look-ups were overtaken.
LEMMA RemoveKeeps ==
    ASSUME TableInv, NEW c \in Clients, Tables!Remove(c) \/ Tables!RemoveParent(c) \/ Tables!WriteFails(c)
    PROVE  TableInv'
<1> PICK o : o = op[c]
    OBVIOUS
<1>1. /\ o # Tables!Free /\ o.todo = <<>> /\ Tables!Done(c)
      /\ UNCHANGED <<resource, made, requests, overlap, moved>>
      /\ rows' \subseteq rows /\ parents' \subseteq parents
    BY DEF Tables!Remove, Tables!RemoveParent, Tables!WriteFails, Tables!Ready
<1>2. IsRequest(o) /\ made \in Nat /\ resource \in DOMAIN Tables!Service
    BY <1>1 DEF TableInv, TableTypes, IsRequest
<1>4. AloneInv' /\ op' = [d \in Clients |-> op'[d]] /\ \A d \in Clients : (op[d] = Tables!Free \/ IsRequest(op[d]))'
    BY <1>1, <1>2, WriteEnds
<1>6. TableTypes'
  <2>1. \A r \in rows : IsRow(r)'
      BY <1>1, <1>2 DEF TableInv, TableTypes, IsRow, Tables!Parent
  <2> QED
      BY <1>1, <1>4, <2>1 DEF TableInv, TableTypes
<1>7. NamesAreUnique'
    BY <1>1 DEF TableInv, NamesAreUnique, Tables!NamesAreUnique, Tables!Siblings
<1>8. ASSUME NEW r \in rows', Tables!ParentFound(r), ~Tables!ParentFound(r)'
      PROVE  ~Tables!Table[resource].foreign /\ (overlap \/ resource = "column")
  <2>1. CASE Tables!Remove(c)
    <3>1. o.id \in Tables!Ids /\ o.does = "delete" /\ UNCHANGED parents
          /\ (rows' = rows \/ rows' = rows \ {Tables!TheRow(o)})
        BY <2>1 DEF Tables!Remove, Tables!Ready
    <3>2. Tables!Nested /\ r \in Tables!Children(o)
      <4>1. Tables!Nested /\ r.in \in Tables!Ids /\ r.in \notin Tables!Ids' /\ r \in rows
          BY <1>1, <1>8, <3>1 DEF Tables!ParentFound, Tables!Nested, Tables!Parent
      <4>2. PICK p \in rows : p.id = r.in /\ p \notin rows'
          BY <4>1 DEF Tables!Ids
      <4>3. p = Tables!TheRow(o)
          BY <3>1, <4>2
      <4>4. p.id = o.id
          BY <3>1, <4>3, TheRowIs
      <4> QED
          BY <4>1, <4>2, <4>4 DEF Tables!Children
    <3>3. o.id > 0
        BY <3>1 DEF Tables!Ids, TableInv, TableTypes, IsRow
    <3>4. Has(LooksOf(o), "children") /\ ~Tables!Table[resource].foreign
        BY <1>2, <3>1, <3>2, <3>3, EveryResource DEF Kept, ParentsKept, LooksOf, Tables!Nested, Tables!Parent
    <3>5. ~overlap => Passed("children", o)
        BY <1>1, <3>4, AllPassed DEF Looks
    <3> QED
        BY <3>2, <3>4, <3>5 DEF Passed
  <2>2. CASE Tables!RemoveParent(c)
    <3> DEFINE gone == IF Tables!Dao[Tables!Parent].cascades THEN Tables!Children(o) ELSE {}
    <3>1. /\ o.does = "delete" /\ o.id \in parents /\ o.id \in {-1, -2}
          /\ Tables!Table[resource].foreign => Tables!Children(o) = {}
          /\ parents' = IF Tables!Commits(Tables!Parent) THEN parents \ {o.id} ELSE parents
          /\ rows' = IF Tables!Commits(Tables!Parent) THEN rows \ gone ELSE rows
        BY <2>2 DEF Tables!RemoveParent, Tables!Ready, TableInv, TableTypes
    <3>2. Tables!Commits(Tables!Parent) /\ parents' # parents
      <4>1. Tables!Ids' = Tables!Ids \/ ~Tables!Nested
        <5>1. CASE Tables!Nested
            BY <1>2, <3>1, <5>1 DEF Tables!Belongs, Tables!Nested, IsRequest
        <5> QED
            BY <5>1
      <4> QED
          BY <1>1, <1>8, <3>1 DEF Tables!ParentFound, Tables!Nested, Tables!Parent, Tables!Ids
    <3>3. ~Tables!Nested /\ Tables!Belongs
        BY <1>2, <3>1 DEF IsRequest, Tables!Belongs, Tables!Nested
    <3>4. r \in Tables!Children(o)
        BY <1>1, <1>8, <3>1, <3>3 DEF Tables!ParentFound, Tables!Children, Tables!Nested, Tables!Parent
    <3>5. ~Tables!Table[resource].foreign /\ ~Tables!Dao[Tables!Parent].cascades
        BY <1>1, <1>8, <3>1, <3>2, <3>4
    <3>6. CASE resource # "column"
      <4>1. resource = "user" /\ Has(LooksOf(o), "users")
          BY <1>2, <3>1, <3>2, <3>3, <3>5, <3>6, EveryResource
          DEF Kept, ParentsKept, LooksOf, Tables!Belongs, Tables!Parent
      <4>2. ~overlap => Passed("users", o)
          BY <1>1, <4>1, AllPassed DEF Looks
      <4> QED
          BY <3>4, <3>5, <4>1, <4>2 DEF Passed
    <3> QED
        BY <3>5, <3>6
  <2>3. CASE Tables!WriteFails(c)
    <3>1. UNCHANGED <<rows, parents>>
        BY <2>3 DEF Tables!WriteFails
    <3> QED
        BY <1>1, <1>8, <3>1 DEF Tables!ParentFound, Tables!Nested, Tables!Parent, Tables!Ids
  <2> QED
      BY <2>1, <2>2, <2>3
<1>9. ParentsExist'
    BY <1>1, <1>8 DEF TableInv, ParentsExist, Tables!ParentsExist
<1> QED
    BY <1>4, <1>6, <1>7, <1>9 DEF TableInv

LEMMA NextTables == TableInv /\ [Tables!Next]_(Tables!vars) => TableInv'
<1> SUFFICES ASSUME TableInv, [Tables!Next]_(Tables!vars) PROVE TableInv'
    OBVIOUS
<1>1. ASSUME NEW c \in Clients,
             \/ \E name \in Names, place \in Tables!Places, button \in BOOLEAN : Tables!Create(c, name, place, button)
             \/ \E id \in 1..made, name \in Names, place \in Tables!Places, button \in BOOLEAN :
                    Tables!Update(c, id, name, place, button)
             \/ \E id \in 1..made : Tables!Delete(c, id)
             \/ \E id \in {-1, -2} : Tables!DeleteParent(c, id)
      PROVE  TableInv'
    BY <1>1, RequestsBegin
<1>2. ASSUME NEW c \in Clients,
             \/ Tables!LookUp(c) \/ Tables!Insert(c) \/ Tables!Replace(c)
             \/ Tables!Remove(c) \/ Tables!RemoveParent(c) \/ Tables!WriteFails(c)
      PROVE  TableInv'
    BY <1>2, LookUpKeeps, InsertKeeps, ReplaceKeeps, RemoveKeeps
<1>3. CASE UNCHANGED Tables!vars
  <2>1. UNCHANGED <<resource, rows, parents, op, made, overlap, moved>>
      BY <1>3 DEF Tables!vars
  <2>2. TableTypes' /\ NamesAreUnique' /\ ParentsExist'
      BY <2>1, RowsStay DEF TableInv, TableTypes
  <2>3. AloneInv'
    <3>1. \A c \in Clients : LooksOf(op[c])' = LooksOf(op[c]) /\ Tables!TheRow(op[c])' = Tables!TheRow(op[c])
        BY <2>1 DEF LooksOf, Tables!Parent, Tables!TheRow
    <3>2. \A c \in Clients : \A look \in Looks : Passed(look, op[c])' <=> Passed(look, op[c])
        BY <2>1 DEF Passed, Tables!Taken, Tables!ParentFound, Tables!Children, Tables!Siblings, Tables!Nested,
           Tables!Parent, Tables!Ids
    <3>3. Tables!Ids' = Tables!Ids /\ Tables!Free' = Tables!Free
        BY <2>1 DEF Tables!Ids, Tables!Free
    <3>4. AloneInv
        BY DEF TableInv
    <3> QED
        BY <2>1, <3>1, <3>2, <3>3, <3>4 DEF AloneInv
  <2> QED
      BY <2>2, <2>3 DEF TableInv
<1> QED
    BY <1>1, <1>2, <1>3 DEF Tables!Next

THEOREM TablesInductive == Tables!Spec => []TableInv
<1> QED
    BY InitTables, NextTables, PTL DEF Tables!Spec

\* Two rows share a name that only the services keep apart just if requests
\* were under way together or an update brought one among others unchecked.
THEOREM NamesStayUnique == Tables!Spec => []NamesAreUnique
<1>1. TableInv => NamesAreUnique
    BY DEF TableInv
<1> QED
    BY <1>1, TablesInductive, PTL

\* A row belongs to one that is gone just if requests were under way together
\* or the deletion looks at no children.
THEOREM ParentsStay == Tables!Spec => []ParentsExist
<1>1. TableInv => ParentsExist
    BY DEF TableInv
<1> QED
    BY <1>1, TablesInductive, PTL

-----------------------------------------------------------------------------
(***************************************************************************)
(* The tree.  What traversal_to_tree does not show has a parent that it    *)
(* does not show either, and so on.  The provers have no induction over    *)
(* operators, but every set of numbers has a least one.                    *)
(***************************************************************************)

LEMMA AllNumbers ==
    ASSUME NEW T, 0 \in T, \A n \in Nat : n \in T => n + 1 \in T
    PROVE  \A n \in Nat : n \in T
<1> DEFINE Missing == Nat \ T
<1> SUFFICES ASSUME Missing # {} PROVE FALSE
    OBVIOUS
<1>1. PICK m \in Missing : \A n \in Missing : ~(<<n, m>> \in OpToRel(<, Nat))
    BY NatLessThanWellFounded, WFMin
<1>2. \A n \in Missing : ~(n < m)
    BY <1>1 DEF OpToRel
<1>3. m # 0 /\ m - 1 \in Nat /\ m - 1 < m
    OBVIOUS
<1> QED
    BY <1>2, <1>3

\* The nodes that are k links below the tops, or fewer.
Below(g, nodes, n) ==
    g = [k \in 0..n |-> IF k = 0 THEN Tables!Tops(nodes)
                        ELSE g[k - 1] \cup {x \in nodes : \E p \in g[k - 1] : p.id = x.in}]

LEMMA BelowExists == \A nodes : \A n \in Nat : \E g : Below(g, nodes, n)
<1> SUFFICES ASSUME NEW nodes PROVE \A n \in Nat : \E g : Below(g, nodes, n)
    OBVIOUS
<1> DEFINE T == {n \in Nat : \E g : Below(g, nodes, n)}
<1>1. 0 \in T
  <2> DEFINE g == [k \in 0..0 |-> Tables!Tops(nodes)]
  <2>1. Below(g, nodes, 0)
      BY DEF Below
  <2> QED
      BY <2>1
<1>2. ASSUME NEW n \in Nat, n \in T PROVE n + 1 \in T
  <2>1. PICK g : Below(g, nodes, n)
      BY <1>2
  <2> DEFINE next == g[n] \cup {x \in nodes : \E p \in g[n] : p.id = x.in}
             h == [k \in 0..(n + 1) |-> IF k = n + 1 THEN next ELSE g[k]]
             rule(k) == IF k = 0 THEN Tables!Tops(nodes)
                        ELSE h[k - 1] \cup {x \in nodes : \E p \in h[k - 1] : p.id = x.in}
  <2>2. ASSUME NEW k \in 0..n PROVE g[k] = IF k = 0 THEN Tables!Tops(nodes)
                        ELSE g[k - 1] \cup {x \in nodes : \E p \in g[k - 1] : p.id = x.in}
      BY <2>1 DEF Below
  <2>3. ASSUME NEW k \in 0..(n + 1) PROVE h[k] = rule(k)
    <3>1. CASE k = n + 1
      <4>1. h[k] = next /\ h[k - 1] = g[n] /\ k # 0 /\ k - 1 = n
          BY <3>1
      <4> QED
          BY <4>1
    <3>2. CASE k # n + 1
      <4>1. k \in 0..n /\ h[k] = g[k] /\ (k # 0 => h[k - 1] = g[k - 1])
          BY <3>2
      <4> QED
          BY <2>2, <4>1
    <3> QED
        BY <3>1, <3>2
  <2>4. h = [k \in 0..(n + 1) |-> rule(k)]
    <3>1. h = [k \in 0..(n + 1) |-> h[k]]
        OBVIOUS
    <3> HIDE DEF h
    <3> QED
        BY <2>3, <3>1
  <2>5. Below(h, nodes, n + 1)
      BY <2>4 DEF Below
  <2> QED
      BY <2>5
<1>3. \A n \in Nat : n \in T
  <2> HIDE DEF T
  <2> QED
      BY <1>1, <1>2, AllNumbers
<1> QED
    BY <1>3

\* A chain of n links, each to the parent, from a node.
Chain(chain, nodes, x, n) ==
    chain \in [0..n -> nodes] /\ chain[0] = x /\ \A k \in 1..n : chain[k].id = chain[k - 1].in

LEMMA HiddenChains ==
    ASSUME NEW nodes, NEW m \in Nat, NEW g, Below(g, nodes, m)
    PROVE  \A x \in nodes \ g[m] : \E chain : Chain(chain, nodes, x, m)
<1> DEFINE T == {n \in Nat : n <= m => \A x \in nodes \ g[n] : \E chain : Chain(chain, nodes, x, n)}
<1>0. /\ g[0] = Tables!Tops(nodes)
      /\ \A k \in 1..m : g[k] = g[k - 1] \cup {x \in nodes : \E p \in g[k - 1] : p.id = x.in}
    BY DEF Below
<1>1. 0 \in T
  <2> SUFFICES ASSUME NEW x \in nodes PROVE \E chain : Chain(chain, nodes, x, 0)
      OBVIOUS
  <2> DEFINE chain == [k \in 0..0 |-> x]
  <2>1. Chain(chain, nodes, x, 0)
      BY DEF Chain
  <2> QED
      BY <2>1
<1>t. \A n \in Nat : n <= m => Tables!Tops(nodes) \subseteq g[n]
  <2> DEFINE S == {n \in Nat : n <= m => Tables!Tops(nodes) \subseteq g[n]}
  <2>1. 0 \in S
      BY <1>0
  <2>2. ASSUME NEW n \in Nat, n \in S PROVE n + 1 \in S
    <3>1. CASE n + 1 <= m
      <4>1. n + 1 \in 1..m /\ n <= m /\ (n + 1) - 1 = n
          BY <3>1
      <4>2. g[n] \subseteq g[n + 1]
          BY <1>0, <4>1
      <4> QED
          BY <2>2, <4>1, <4>2
    <3>2. CASE ~(n + 1 <= m)
        BY <3>2
    <3> QED
        BY <3>1, <3>2
  <2>3. \A n \in Nat : n \in S
    <3> HIDE DEF S
    <3> QED
        BY <2>1, <2>2, AllNumbers
  <2> QED
      BY <2>3
<1>2. ASSUME NEW n \in Nat, n \in T PROVE n + 1 \in T
  <2> SUFFICES ASSUME n + 1 <= m, NEW x \in nodes \ g[n + 1] PROVE \E chain : Chain(chain, nodes, x, n + 1)
      OBVIOUS
  <2>1. n + 1 \in 1..m /\ n <= m /\ (n + 1) - 1 = n
      OBVIOUS
  <2>2. g[n + 1] = g[n] \cup {y \in nodes : \E p \in g[n] : p.id = y.in}
      BY <1>0, <2>1
  <2>3. PICK p \in nodes : p.id = x.in
      BY <1>t, <2>1 DEF Tables!Tops
  <2>4. p \in nodes \ g[n]
      BY <2>2, <2>3
  <2>5. PICK c : Chain(c, nodes, p, n)
      BY <1>2, <2>1, <2>4
  <2> DEFINE chain == [k \in 0..(n + 1) |-> IF k = 0 THEN x ELSE c[k - 1]]
  <2>6. chain \in [0..(n + 1) -> nodes] /\ chain[0] = x
      BY <2>5 DEF Chain
  <2>7. ASSUME NEW k \in 1..(n + 1) PROVE chain[k].id = chain[k - 1].in
    <3>1. CASE k = 1
      <4>1. chain[1] = c[0] /\ chain[0] = x
          OBVIOUS
      <4> QED
          BY <2>3, <2>5, <3>1, <4>1 DEF Chain
    <3>2. CASE k # 1
      <4>1. k - 1 \in 1..n /\ chain[k] = c[k - 1] /\ chain[k - 1] = c[(k - 1) - 1]
          BY <3>2
      <4> QED
          BY <2>5, <4>1 DEF Chain
    <3> QED
        BY <3>1, <3>2
  <2> HIDE DEF chain
  <2>8. Chain(chain, nodes, x, n + 1)
      BY <2>6, <2>7 DEF Chain
  <2> QED
      BY <2>8
<1>3. \A n \in Nat : n \in T
  <2> HIDE DEF T
  <2> QED
      BY <1>1, <1>2, AllNumbers
<1> QED
    BY <1>3

\* Whatever the rows are, a tree shows each that does not descend from itself.
THEOREM TreesShowAll == Tables!Spec => []TreeShowsAll
<1>1. ASSUME NEW nodes PROVE \A x \in nodes \ Tables!Shown(nodes) : \E chain : Chain(chain, nodes, x, MaxRows)
  <2>0. MaxRows \in Nat
      BY ResourcesAreKnown
  <2> DEFINE g == CHOOSE f : Below(f, nodes, MaxRows)
  <2>1. Below(g, nodes, MaxRows)
      BY <2>0, BelowExists
  <2>2. Tables!Shown(nodes) = g[MaxRows]
      BY DEF Tables!Shown, Below
  <2> HIDE DEF g
  <2> QED
      BY <2>0, <2>1, <2>2, HiddenChains
<1>2. TreeShowsAll
    BY <1>1 DEF TreeShowsAll, Tables!TreeShowsAll, Chain
<1> QED
    BY <1>2, PTL

=============================================================================
