------------------------------ MODULE ApiKeys ------------------------------
(***************************************************************************)
(* An API key and the calls made with it (app/llm/service/                 *)
(* api_key_service.py, gateway_service.py): how a user comes by the key,   *)
(* what verify_api_key asks of it, which daily limit holds for it, and the *)
(* lock that the update of last_used_at keeps on its row until the usage   *)
(* log is committed in the same session.                                   *)
(***************************************************************************)
EXTENDS Integers

CONSTANTS
    Calls,          \* calls with the key at a time
    DefaultDaily,   \* daily_token_limit of default_limits
    Limits,         \* daily limits that an administrator may have given
    MaxTokens       \* bound: tokens of an answer

VARIABLES
    key,            \* the committed row: its status, whether it has expired,
                    \* custom_daily_tokens (0: none)
    config,         \* the row of rate_limit_config_id
    token,          \* the key that the client has
    call,           \* where each call is
    daily,          \* the key's tokens of today, in Redis
    hasty           \* history: a call was admitted while another one was
                    \* logged and not charged yet

vars == <<key, config, token, call, daily, hasty>>

NoConfig == [enabled |-> FALSE, daily |-> 0]

Init ==
    /\ key \in [status : {"ACTIVE", "DISABLED"}, expired : {FALSE}, custom : {0} \cup Limits]
    /\ config \in {NoConfig} \cup [enabled : BOOLEAN, daily : Limits]
    /\ token = "none" /\ call = [c \in Calls |-> "idle"] /\ daily = 0 /\ hasty = FALSE

Goto(c, place) == call' = [call EXCEPT ![c] = place]

\* The first key of the user that is ACTIVE, expired or not.
GetDefaultKey == IF key.status = "ACTIVE" THEN "key" ELSE "none"

\* A new one; /llm-token has a session that is closed, not committed.
CreateDefaultKey == "lost"

GetOrCreateDefaultKey ==
    /\ token' = IF GetDefaultKey # "none" THEN GetDefaultKey ELSE CreateDefaultKey
    /\ UNCHANGED <<key, config, call, daily, hasty>>

\* get_rate_limits: a shared configuration goes before the key's own limit.
RateLimits ==
    CASE config.enabled -> config.daily
      [] ~config.enabled /\ key.custom > 0 -> key.custom
      [] ~config.enabled /\ key.custom = 0 -> DefaultDaily

-----------------------------------------------------------------------------
(* A call.                                                                 *)

\* Variation: the update of last_used_at is committed at once.
LockedByNobody(c) == FALSE

\* Another call has updated the row and neither committed nor gone.
Locked(c) == \E d \in Calls \ {c} : call[d] \in {"limits", "provider"}

\* verify_api_key: an unknown or disabled key is refused.
VerifyApiKey(c) ==
    /\ call[c] = "idle" /\ token = "key" /\ key.status = "ACTIVE"
    /\ Goto(c, IF key.expired THEN "expire" ELSE "use")
    /\ UNCHANGED <<key, config, token, daily, hasty>>

\* The status EXPIRED is written, and rolled back by the error that follows.
MarkExpired(c) ==
    /\ call[c] = "expire" /\ ~Locked(c)
    /\ Goto(c, "idle")
    /\ UNCHANGED <<key, config, token, daily, hasty>>

UpdateLastUsed(c) ==
    /\ call[c] = "use" /\ ~Locked(c)
    /\ Goto(c, "limits")
    /\ UNCHANGED <<key, config, token, daily, hasty>>

\* check_all with the limits of the key.
CheckLimits(c) ==
    /\ call[c] = "limits"
    /\ IF daily < RateLimits
       THEN Goto(c, "provider") /\ hasty' = (hasty \/ \E d \in Calls : call[d] = "charge")
       ELSE Goto(c, "idle") /\ UNCHANGED hasty
    /\ UNCHANGED <<key, config, token, daily>>

\* The log is committed, and last_used_at with it.
TrackSuccess(c) ==
    /\ call[c] = "provider" /\ Goto(c, "charge")
    /\ UNCHANGED <<key, config, token, daily, hasty>>

TrackError(c) ==
    /\ call[c] = "provider" /\ Goto(c, "idle")
    /\ UNCHANGED <<key, config, token, daily, hasty>>

ConsumeTokens(c) ==
    /\ call[c] = "charge" /\ Goto(c, "idle")
    /\ \E tokens \in 1..MaxTokens : daily' = daily + tokens
    /\ UNCHANGED <<key, config, token, hasty>>

\* An error anywhere, or the client leaves: the session is rolled back.
Leave(c) ==
    /\ call[c] # "idle" /\ Goto(c, "idle")
    /\ UNCHANGED <<key, config, token, daily, hasty>>

Expire ==
    /\ ~key.expired /\ key' = [key EXCEPT !.expired = TRUE]
    /\ UNCHANGED <<config, token, call, daily, hasty>>

Next ==
    \/ \E c \in Calls :
           \/ VerifyApiKey(c) \/ MarkExpired(c) \/ UpdateLastUsed(c) \/ CheckLimits(c)
           \/ TrackSuccess(c) \/ TrackError(c) \/ ConsumeTokens(c) \/ Leave(c)
    \/ GetOrCreateDefaultKey \/ Expire

Spec == Init /\ [][Next]_vars

-----------------------------------------------------------------------------
(* Properties.                                                             *)

\* However many calls a key makes at once, they go beyond its daily limit by
\* the last answer only: they read the counter and add to it with a provider's
\* answer in between (rate_limiter.py:70, gateway.py:285), but the row that
\* verify_api_key has updated (api_key_service.py:179) keeps the others out
\* until the answer is logged.  Between the log and the charge nothing does.
KeyOvershootsOnce == daily < RateLimits + MaxTokens \/ hasty

=============================================================================
