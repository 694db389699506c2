---------------------------- MODULE RateLimiter ----------------------------
(***************************************************************************)
(* The rate limiter of backend/app/llm/core/rate_limiter.py for one API    *)
(* key: requests that run check_all, are served, and run consume_tokens,   *)
(* against counters kept in Redis.  Every Redis command is a step of its   *)
(* own, so requests interleave between any two of them.                    *)
(*                                                                         *)
(* A date is a day number; a month is DaysPerMonth days.  The two- and     *)
(* 35-day expiries of the token counters are not modelled: a counter is    *)
(* only read on its own date, long before it can expire.                   *)
(***************************************************************************)
EXTENDS Integers, FiniteSets, FiniteSetsExt

CONSTANTS
    Requests,        \* the requests of the key that can be in progress at once
    RpmLimit,        \* rpm_limit
    DailyLimit,      \* daily_limit
    MonthlyLimit,    \* monthly_limit
    MaxTokens,       \* the most tokens one request uses
    Window,          \* seconds the RPM counter lives, 60 in the code
    DaysPerMonth,
    Days             \* bound: the last day that is modelled

ASSUME LimiterAssumption ==
    /\ IsFiniteSet(Requests)
    /\ RpmLimit \in Nat /\ DailyLimit \in Nat /\ MonthlyLimit \in Nat
    /\ MaxTokens \in Nat
    /\ Window \in Nat \ {0} /\ DaysPerMonth \in Nat \ {0} /\ Days \in Nat \ {0}

VARIABLES
    rpm,        \* the RPM counter: its count (0: no key) and its time to live
    daily,      \* tokens counted for each day
    monthly,    \* tokens counted for each month
    day,        \* date.today()
    pc,         \* the next Redis command of each request
    owed,       \* tokens a request has counted daily, not yet monthly
    recent,     \* history: requests admitted by check_rpm, by age in seconds
    died        \* history: the Redis commands before which a request died

vars == <<rpm, daily, monthly, day, pc, owed, recent, died>>

Forever == Window + 1                     \* time to live of a key without expiry
Dates == 0 .. Days
MonthOf(d) == d \div DaysPerMonth
Months == {MonthOf(d) : d \in Dates}

Stage == {"idle", "expire", "daily", "monthly", "serving", "charge"}

\* Requests past check_daily_tokens whose tokens are not counted yet.
Uncounted == {r \in Requests : pc[r] \in {"monthly", "serving"}}

Init ==
    /\ rpm = [count |-> 0, ttl |-> Forever]
    /\ daily = [d \in Dates |-> 0]
    /\ monthly = [m \in Months |-> 0]
    /\ day = 0
    /\ pc = [r \in Requests |-> "idle"]
    /\ owed = [r \in Requests |-> 0]
    /\ recent = [a \in 0 .. Window - 1 |-> 0]
    /\ died = {}

Goto(r, stage) == pc' = [pc EXCEPT ![r] = stage]

\* The comparison at the end of check_rpm; a refused request is not uncounted.
RpmVerdict(r, count) ==
    IF count > RpmLimit THEN Goto(r, "idle") ELSE Goto(r, "daily")

\* Variant with a bug: nobody goes on to set the expiry.
IncrWithoutExpire(r) ==
    LET count == IF rpm.count <= RpmLimit + 1 THEN rpm.count + 1 ELSE rpm.count
    IN  /\ pc[r] = "idle"
        /\ rpm' = [rpm EXCEPT !.count = count]
        /\ RpmVerdict(r, count)
        /\ recent' = IF count > RpmLimit THEN recent ELSE [recent EXCEPT ![0] = @ + 1]
        /\ UNCHANGED <<daily, monthly, day, owed, died>>

\* Variant with a bug: every request of a window renews its expiry.
IncrRenewing(r) ==
    LET count == IF rpm.count <= RpmLimit + 1 THEN rpm.count + 1 ELSE rpm.count
    IN  /\ pc[r] = "idle"
        /\ rpm' = [count |-> count, ttl |-> IF count = 1 THEN rpm.ttl ELSE Window]
        /\ IF count = 1 THEN Goto(r, "expire") ELSE RpmVerdict(r, count)
        /\ recent' = IF count > RpmLimit THEN recent ELSE [recent EXCEPT ![0] = @ + 1]
        /\ UNCHANGED <<daily, monthly, day, owed, died>>

\* check_rpm: INCR; the first of a window goes on to EXPIRE.  The count is
\* saturated above the two values it is compared with, 1 and RpmLimit.
Incr(r) ==
    LET count == IF rpm.count <= RpmLimit + 1 THEN rpm.count + 1 ELSE rpm.count
    IN  /\ pc[r] = "idle"
        /\ rpm' = [rpm EXCEPT !.count = count]
        /\ IF count = 1 THEN Goto(r, "expire") ELSE RpmVerdict(r, count)
        /\ recent' = IF count > RpmLimit THEN recent
                     ELSE [recent EXCEPT ![0] = @ + 1]
        /\ UNCHANGED <<daily, monthly, day, owed, died>>

\* Variant with a bug: the expiry is too short.
ExpireTooSoon(r) ==
    /\ pc[r] = "expire"
    /\ rpm' = [rpm EXCEPT !.ttl = 1]
    /\ RpmVerdict(r, 1)
    /\ UNCHANGED <<daily, monthly, day, owed, recent, died>>

Expire(r) ==
    /\ pc[r] = "expire"
    /\ rpm' = [rpm EXCEPT !.ttl = Window]
    /\ RpmVerdict(r, 1)
    /\ UNCHANGED <<daily, monthly, day, owed, recent, died>>

\* Variant with a bug: a key exactly at its limit passes.
CheckDailyTokensLate(r) ==
    /\ pc[r] = "daily"
    /\ Goto(r, IF daily[day] > DailyLimit THEN "idle" ELSE "monthly")
    /\ UNCHANGED <<rpm, daily, monthly, day, owed, recent, died>>

CheckDailyTokens(r) ==
    /\ pc[r] = "daily"
    /\ Goto(r, IF daily[day] >= DailyLimit THEN "idle" ELSE "monthly")
    /\ UNCHANGED <<rpm, daily, monthly, day, owed, recent, died>>

CheckMonthlyTokens(r) ==
    /\ pc[r] = "monthly"
    /\ Goto(r, IF monthly[MonthOf(day)] >= MonthlyLimit THEN "idle" ELSE "serving")
    /\ UNCHANGED <<rpm, daily, monthly, day, owed, recent, died>>

\* The provider answered; consume_tokens counts on the day it is by now.
ConsumeDaily(r) ==
    /\ pc[r] = "serving"
    /\ \E tokens \in 0 .. MaxTokens :
          /\ daily' = [daily EXCEPT ![day] = @ + tokens]
          /\ owed' = [owed EXCEPT ![r] = tokens]
    /\ Goto(r, "charge")
    /\ UNCHANGED <<rpm, monthly, day, recent, died>>

\* Variant with a bug: a month at its limit is not counted any further.
ConsumeMonthlyCapped(r) ==
    /\ pc[r] = "charge"
    /\ monthly' = IF monthly[MonthOf(day)] >= MonthlyLimit THEN monthly
                  ELSE [monthly EXCEPT ![MonthOf(day)] = @ + owed[r]]
    /\ owed' = [owed EXCEPT ![r] = 0]
    /\ Goto(r, "idle")
    /\ UNCHANGED <<rpm, daily, day, recent, died>>

ConsumeMonthly(r) ==
    /\ pc[r] = "charge"
    /\ monthly' = [monthly EXCEPT ![MonthOf(day)] = @ + owed[r]]
    /\ owed' = [owed EXCEPT ![r] = 0]
    /\ Goto(r, "idle")
    /\ UNCHANGED <<rpm, daily, day, recent, died>>

\* The provider failed, or the client left: no tokens are consumed.
Unserved(r) ==
    /\ pc[r] = "serving"
    /\ Goto(r, "idle")
    /\ UNCHANGED <<rpm, daily, monthly, day, owed, recent, died>>

\* A Redis error, a cancelled request or a crash between two commands.
Fault(r) ==
    /\ pc[r] \notin {"idle", "serving"}
    /\ died' = died \cup {pc[r]}
    /\ Goto(r, "idle")
    /\ owed' = [owed EXCEPT ![r] = 0]
    /\ UNCHANGED <<rpm, daily, monthly, day, recent>>

\* One second passes in Redis: a key that reaches its expiry is gone.
Second ==
    /\ rpm' = IF rpm.ttl = Forever THEN rpm
              ELSE IF rpm.ttl = 1 THEN [count |-> 0, ttl |-> Forever]
              ELSE [rpm EXCEPT !.ttl = @ - 1]
    /\ recent' = [a \in 0 .. Window - 1 |-> IF a = 0 THEN 0 ELSE recent[a - 1]]
    /\ UNCHANGED <<daily, monthly, day, pc, owed, died>>

Midnight ==
    /\ day < Days
    /\ day' = day + 1
    /\ UNCHANGED <<rpm, daily, monthly, pc, owed, recent, died>>

Step(r) ==
    \/ Incr(r) \/ Expire(r) \/ CheckDailyTokens(r) \/ CheckMonthlyTokens(r)
    \/ ConsumeDaily(r) \/ ConsumeMonthly(r) \/ Unserved(r) \/ Fault(r)

Next == (\E r \in Requests : Step(r)) \/ Second \/ Midnight

Spec == Init /\ [][Next]_vars

\* A request that has begun goes on, and time passes.
Fairness ==
    /\ \A r \in Requests : WF_vars(pc[r] # "idle" /\ Step(r))
    /\ WF_vars(Second)

FairSpec == Spec /\ Fairness

-----------------------------------------------------------------------------

\* Every counter and every request keeps its type, and only a request
\* between the two counters owes tokens.
TypeOK ==
    /\ rpm \in [count : 0 .. RpmLimit + 2, ttl : 1 .. Forever]
    /\ daily \in [Dates -> Nat]
    /\ monthly \in [Months -> Nat]
    /\ day \in Dates
    /\ pc \in [Requests -> Stage]
    /\ owed \in [Requests -> 0 .. MaxTokens]
    /\ recent \in [0 .. Window - 1 -> Nat]
    /\ died \subseteq Stage

\* check_daily_tokens and consume_tokens are far apart, so concurrent
\* requests overshoot the daily limit; but by no more than one request's
\* tokens for each request that can be in progress, never without bound.
DailyOvershootBounded ==
    DailyLimit > 0 =>
        daily[day] + MaxTokens * Cardinality(Uncounted)
            < DailyLimit + MaxTokens * Cardinality(Requests)

TotalDaily == MapThenSumSet(LAMBDA d : daily[d], Dates)
TotalMonthly == MapThenSumSet(LAMBDA m : monthly[m], Months)

\* consume_tokens counts a request daily first, so even when requests die
\* half way the months never hold more tokens than the days.
MonthsNeverAhead == TotalMonthly <= TotalDaily

\* As long as no request dies between the two counters, the two books differ
\* by exactly what the requests between them owe, midnights included.
BooksBalance ==
    /\ MonthsNeverAhead
    /\ "charge" \notin died =>
           TotalDaily = TotalMonthly + MapThenSumSet(LAMBDA r : owed[r], Requests)

\* check_rpm counts in fixed windows: in any Window seconds it admits at
\* most twice rpm_limit requests.
TwoWindowsAtMost ==
    MapThenSumSet(LAMBDA a : recent[a], 0 .. Window - 1) <= 2 * RpmLimit

\* The RPM counter has no expiry and nobody is going to set one: every
\* later request of the key is counted, and none is the first.
Orphaned ==
    rpm.count > 0 /\ rpm.ttl = Forever /\ \A r \in Requests : pc[r] # "expire"

\* The RPM counter is only orphaned by a request that dies between INCR and
\* EXPIRE; no interleaving of requests and expiries does it.
OrphanedByDeath == Orphaned => "expire" \in died

\* "RPM" is requests per minute: a key at its limit is served again, unless
\* its counter is orphaned.
LimitIsLifted ==
    rpm.count > RpmLimit ~> rpm.count = 0 \/ Orphaned

=============================================================================
