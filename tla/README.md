# Formal model of the backend

TLA+ models of the backend in `src/backend`, checked with TLC on small
instances; the safety properties are proved with TLAPS for every value of
their constants. The repository is a FastAPI application (administration,
authentication, plugins, a Celery scheduler) with an LLM gateway on top. It
has almost no tests; what the models look at is where concurrency, time and
failure meet.

Contents: [the system](#the-system), [modules](#modules),
[state and abstraction](#state-and-abstraction), [runs](#runs),
[mutants](#mutants), [fairness](#fairness), [proofs](#proofs),
[deviations](#where-the-code-does-not-do-what-one-would-expect),
[not modelled](#not-modelled), [plan](#plan).

## The system

Every process runs one asyncio event loop; between two `await`s a handler is
atomic, at every `await` any other handler may run, and a client that leaves
ends it there. Several processes share Redis and the database. Celery workers
and the beat scheduler are processes of their own.

| Component | State | Operations | Talks to |
|---|---|---|---|
| circuit breaker `app/llm/core/circuit_breaker.py` | per provider name and process: state, failure, success and trial counters, time of the last failure | `allow_request`, `record_success`, `record_failure`, `reset`, `get_status`, each under a lock | called by the gateway |
| LLM gateway `app/llm/core/gateway.py`, `service/gateway_service.py` | none of its own: local variables of a handler | `chat_completion`, `chat_completion_stream`, `anthropic_messages`, `anthropic_messages_stream` | limiter, breaker, litellm, usage log |
| usage log `app/llm/core/usage_tracker.py` | rows, unique `request_id` | `track_success`, `track_error` | called by the gateway |
| rate limiter `app/llm/core/rate_limiter.py` | Redis: an RPM counter with a time to live, tokens per day, tokens per month | `check_all`, `consume_tokens` | called by the gateway |
| API keys `app/llm/service/api_key_service.py` | rows, and the lock on a row between an UPDATE and the end of its session | verify, default key, limits, administration | gateway service, phone login |
| LLM administration `app/llm/service/` | rows of providers, models, groups, limits | create, update, delete | gateway, API keys |
| snowflake ids `utils/snowflake.py` | per process: last timestamp, sequence, node; in Redis: one key with a time to live for each node in use | `generate`, `parse`, `init`, heartbeat, `shutdown` | `core/registrar.py` starts and stops it |
| tokens and sessions `common/security/jwt.py`, `auth_service.py` | Redis: access tokens, refresh tokens, extra info, for each user and session | login, refresh, logout, revoke, kick out | user cache, middleware |
| user cache and accounts `user_service.py`, `admin/utils/cache.py` | Redis: a copy of each user with roles, menus and rules; the rows | get, update, permissions, passwords, delete | tokens, permissions |
| login failures and passwords `user_password_history_service.py`, `password_security.py` | Redis counters and locks; password history rows | check, count, lock, validate | login, accounts |
| phone and OAuth2 login `phone.py`, `plugin/oauth2/` | Redis: one-time codes; rows of users and social accounts | send and accept a code, register, bind, unbind | sessions |
| two-level cache `common/cache/` | a local cache in each process, Redis, a pub/sub channel | `cached`, `cache_invalidate`, listener, warm-up | configuration and dictionary plugins |
| beat scheduler `app/task/utils/schedulers.py` | entries in memory and their rows, a last-update stamp and a lock in Redis | `is_due`, `reserve`, `sync`, `schedule_changed`, `tick` | Celery, scheduler service |
| task results `app/task/database.py`, `tasks/base.py` | a row for each task | store, update, hooks, revoke, clean up | Celery's workers |
| operation log `middleware/opera_log_middleware.py`, `common/queue.py` | a bounded asyncio queue | enqueue, batching consumer | database |
| roles, menus, departments, data scopes, dictionaries, configuration, notices, code generator tables | rows and the tables that link them | create, update, delete, trees | permissions, caches |
| permissions `common/security/rbac.py`, `permission.py` | none | a decision for each request, a SQL filter | the copy of the user |
| plugins, code generator `plugin/`, `utils/locks.py`, `cli.py` | directories, the generated router, a status for each plugin and a flag in Redis, a Redis lock and a lock file | install, uninstall, enable, generate, start of a worker, file watcher | all processes |
| websocket, mail, i18n, logging | connections | I/O | |

What makes each of them correct, and hard:

* **Breaker.** Answers come late and in any order, whatever state the breaker
  is in by then. Its counters must speak of one period each, trials must wait
  for `recovery_timeout` without failures, an OPEN breaker must be tried
  again and decide.
* **Gateway.** One `except` clause for four different steps, three ways in,
  clients that leave at any `await` or `yield`. A request is charged once, and
  only if it is logged; a complete answer is charged; what the breaker is told
  and what the log says agree.
* **Limiter and keys.** Checks and consumption are far apart and every Redis
  command is a separate step. The overshoot of a limit must be bounded, the
  two token books must agree, and a key at its limit must be served again.
* **Snowflake.** The clock goes back, also during a wait, the sequence wraps,
  processes start and crash at any time. Ids of a process must increase; no
  two running processes may share a node; nodes of crashed processes must
  come back.
* **Sessions.** A change of the credentials must end every session opened
  before it, also those that are being opened or refreshed.
* **Sign-up, guard, passwords.** Look, compare, write by separate commands:
  what do two requests at a time get around, and how far?
* **Caches.** A value read before an invalidation is stored after it. A copy
  may be stale only for a bounded time, or because of an overlap.
* **Administration.** Look-ups and writes of different requests interleave;
  some sessions never commit; trees must show every row.
* **Tasks.** Two beats and one lock that expires; runs that must not be
  forgotten; changes that must reach the schedule; rows that must say how a
  task ended.
* **Log queue.** Every answered request has its log in one place.
* **Plugins.** Workers serve what they found when they started: a flag must
  say when that is no longer what is installed, and the watcher must not
  restart them into half-written files.

`PROJECT.json` lists the hazards at their lines with the properties for them.

## Modules

| Module | Models | How |
|---|---|---|
| `CircuitBreaker` | `CircuitBreaker` | a record and one operator per method, from the record before to the record after; the methods hold a lock, so each is one step |
| `BreakerCalls` | one breaker and the calls through it | EXTENDS `CircuitBreaker` |
| `LLMGateway` | gateway, gateway service, usage log, all breakers of a process | EXTENDS `CircuitBreaker`; the handler's program counter and local variables, one action for each stretch of code between two `await`s |
| `RateLimiter` | limiter | one action per Redis command, of any number of concurrent requests |
| `ApiKeys` | one key and the calls with it | one action for each SQL statement or Redis step; the row lock of `last_used_at` |
| `Records` | the administration of 18 resources | for each resource, tables say what create, update and delete look up and in which order, what the database enforces, and whether the session commits; one generic request runs them; `Shown` is `traversal_to_tree` |
| `Snowflake` | `generate`, `parse` of one process | the wall clock is a variable that also goes back |
| `SnowflakeNodes` | `SnowflakeNodeManager` of all processes | one action per Redis command; keys with a time to live |
| `Sessions` | tokens, refresh tokens, cached users, and every request that touches them | a request is a list of steps (its *plan*), one for each Redis command or SQL statement |
| `LoginGuard` | failure counter and lock of an account | one action per Redis command of an attempt |
| `SignUp` | codes, phone and OAuth2 registration, binding, unbinding | steps of calls, uncommitted rows local to the call |
| `PasswordHistory` | `validate_new_password` and the history | validation, the UPDATE that locks the row, commit |
| `Permissions` | users, roles, menus, scopes, rules, their links, the copy of a user, `rbac.py`, `permission.py` | EXTENDS `JoinedRows`; changes write, look up whom to clear, clear, commit; loads read and fill |
| `JoinedRows` | `get_join`, `select_join_serialize` | pure operators: the flat rows of the joins, and the tree folded back from them |
| `TwoLevelCache` | `cached`, `cache_invalidate`, `local.py`, `pubsub.py` | calls of the cached function, one writer, notices, listeners, clocks |
| `LaggingReads` | | the abstract specification of a cache: a register whose reads are behind its writes by at most `Lag` |
| `BeatScheduler` | `DatabaseScheduler`, `ModelEntry`, the stamp, the lock, the administrator's changes | each beat's place in its loop; the event loop's stamping tasks |
| `TaskResults` | `DatabaseBackend`, `TaskBase`, cleanup, revocation | attempts on workers, each a SELECT and a write |
| `OperaLog` | middleware, queue, consumer | requests, queue, batch, table |
| `Plugins` | installer, plugin service, start of workers, generator, lock, watcher | jobs, toggles and workers with program counters |
| `BreakerCallsProofs`, `RateLimiterProofs`, `SnowflakeNodesProofs`, `SessionsProofs` | | theorems of the module of that name |
| `RequestsProofs` | | theorems of `LLMGateway`, `ApiKeys`, `Records` |
| `AccountsProofs` | | theorems of `LoginGuard`, `SignUp`, `PasswordHistory`, `Permissions` (and `JoinedRows`) |
| `ServerProofs` | | theorems of `Snowflake`, `TwoLevelCache` (against `LaggingReads`), `OperaLog`, `Plugins` |
| `TasksProofs` | | theorems of `BeatScheduler`, `TaskResults` |
| `MCLLMGateway`, `MCBeatScheduler` | | values of constants for TLC |
| `MCRequests`, `MCAccounts`, `MCTasks`, `MCServer` | | parts that share no state, side by side in one run |

A run of an `MC` module of the last row chooses a *part* in its initial state
and lets only that part step: a behaviour of the composed module is a
behaviour of one part, with the others at rest. The parts share no state in
the code either. This is a way to check several modules in one run and says
nothing about their interaction; what interacts is in one module: the breakers
with the gateway, the tokens with the cached users and the accounts, the rows
with the copies of permissions, the jobs with the workers and the watcher.

## State and abstraction

**History variables** (marked so in each module) record what the code does
not: which requests were under way together, who died where, what was
admitted lately. They are read by properties only, never by a guard.

`CircuitBreaker.elapsed` stands for `time.time() - _last_failure_time` and
stops one second above `recovery_timeout`; `failure_count` stops at the
threshold: the code compares them with nothing larger. `BreakerCalls.call`
says how a call was admitted: a `probe` in the present HALF_OPEN period, a
`stale` call in an earlier one. `Abandon` is a call that ends without a
report: a client that disconnects (`CancelledError` and `GeneratorExit` are
not `Exception`s), the end of every anthropic stream, a slot taken by a
fallback scan.

`LLMGateway.local` holds the handler's local variables; `verdicts` and
`mishap` are history. `mishap` tells a request whose client left, or which met
a failure of the database, Redis or the key store, from one for which only
the provider can have failed. `Scan` walks `group.model_ids` one element at a
time and asks the breaker of every enabled candidate, those after the first
admitted included. `client` is what the client has been given. Payloads,
token counts and costs are left out here.

`RateLimiter.rpm` is the Redis counter with its time to live; its count stops
at `RpmLimit + 2`. The token counters are kept per date and are exact; their
expiries of 2 and 35 days can never be noticed and are left out.

`ApiKeys`: `verify_api_key` updates `last_used_at` in the session of the
request; the row stays locked until `crud_usage_log.create` commits that
session or the session is rolled back, so that the next call of the same key
waits at its own update. `call` says between which of these commands a call
is; `hasty` is history. The session of a stream is closed when the stream has
ended. Only the daily limit is followed; the monthly one goes the same way.

`Records`: a request looks up, one query after another, what the table of its
service says, then writes and commits in one step (under READ COMMITTED a
conflicting statement waits for the other transaction, so that the two cannot
be told apart), or writes into a session that nobody commits. One id per
deletion: the bulk deletions and `bulk_update` of the configuration are
repetitions. The role look-ups of user requests are in `Permissions`. Buttons
of menus may repeat titles.

`Snowflake` writes the shifts and masks as products, quotients and remainders
of the field sizes, which are constants, so that proofs hold for all of them.
`SnowflakeNodes.key` is the node's Redis key; its owner is history as far as
the code is concerned: neither `EXPIRE` nor `DELETE` looks at it.

`Sessions`: a key is a user and the number of the request that made it. Ids
are numbers, because `delete_prefix` of user 1 also matches the keys of user
12 (`HasPrefix`). A row's update keeps it locked until the transaction ends.

`LoginGuard`, `SignUp`, `PasswordHistory`: a password is right or wrong, a
code is a number, a word a value. The rules for length and characters are
left out. A transaction's rows are seen by others when it commits.

`Permissions`: rows are sets of ids with the columns the decisions read;
expressions of rules, and how AND and OR combine them, are the set of rules
that apply. `GetDataRuleDetail` is frozen into the copy, as the versions of
the rules show. A change looks up the holders in its own transaction, clears
their copies, and commits after that.

`TwoLevelCache`: one key and its versions. `matching` says whether the
writer's invalidation builds a key that is a prefix of the cached ones, which
those of the dictionary and configuration services do not. `Hold` bounds the
time between a command and its effect on the caller; without such a bound no
age of a cached value could be promised.

`BeatScheduler`: one task stands for all, a deletion for a disabled row, and
a crontab for a period. Time is counted in moments, `PerSecond` to a second,
because the stamp keeps whole seconds.

`TaskResults`: Celery's order is taken from how the repository uses it: STARTED
is stored, `before_start` runs, the task runs, its end is stored; the message
of a retry is sent before RETRY is stored. The countdown of a retry is left
out: any delay may pass. Redelivery is bounded.

`OperaLog`: a log says whether its request failed; the other fields are left
out. The put waits while the queue is full.

`Plugins`: a directory is absent, half written or whole; the requirements and
the configuration file are checks that may fail. All workers start together
once (`MaxStarts`), each at its own pace; jobs from the API die with their
process, which leaves the lock file but not, for ever, the Redis lock;
installations by the command line are processes of their own. The watcher
looks at the lock file when it reports.

## Runs

| Run | Instance | Shows |
|---|---|---|
| `breaker` | 4 calls, threshold 3, timeout 1, 3 slots | counters of one period, trials after quiet, OPEN is always retried, HALF_OPEN decides unless a slot was lost |
| `breaker_wedge` | 3 calls, threshold 2, 2 slots | **violated**: HALF_OPEN need not decide |
| `limiter` | 2 requests, RPM limit 1, daily limit 1, monthly limit 2, answers of 0 or 1 tokens, windows of 3 seconds, 2 days of a month each | overshoot, books, windows, lock-out |
| `gateway` | 2 requests, 3 models of 2 providers, all ways in; 3 calls of a key with limits 1 to 3 and answers of 1 or 2 tokens; 2 administrators, 18 resources, 3 rows, 3 requests | what is charged, logged and reported; how far a key overshoots; unique names, parents, trees |
| `gateway_anthropic` | 1 model | **violated**: a complete anthropic stream is not charged |
| `nodes` | 3 processes, 2 nodes, time to live 2, heartbeat 1 | exclusive nodes, leases, and their return |
| `sessions` | user 12 beside user 1, 3 requests, 2 at a time, 1 death or expiry | which sessions and copies survive a change |
| `accounts` | 2 attempts with threshold 3; 3 sign-ups, 2 at a time; 4 password changes; 2 changes of rights against 2 loads | guard, owners, reuse, decisions from copies |
| `tasks` | 2 beats, 1 change, 1 fault, 4 kinds of task; 2 workers, 2 retries | who ticks, what is known of the runs, which changes arrive; what a row says |
| `beat_changes` | 1 beat for ever | **violated**: a change need not reach the schedule |
| `server` | ids of 2 a millisecond; 2 processes, 2 calls and a writer of the cache; 3 logged requests; 1 plugin, 1 application, 2 jobs, 2 workers | ids, caches (with the refinement), log, plugins |
| `lost_writes` | one creation | **violated**: a row whose creation was answered need not exist |

`PROJECT.json` states each run's question in a sentence, the comment above
each property what it means and for which code.

Bounds, and why they are enough:

* `breaker`: a full period of trials and one call of an earlier period at
  once, or a failure streak with a straggler. The safety properties are proved
  for every number.
* `gateway`: a request shares only the breakers with others; with one slot
  and a threshold of one a second request can put every breaker into every
  state at every step of the first. Of three models two have the same
  provider, so that a scan can come back to the provider that refused, and
  can take slots of two. With keys, one call can hold the row, one wait for
  it and one be between its log and its charge. Of rows, three make a
  circle longer than the one the services forbid, and two of them twins.
* `limiter`: `Window` 3 has seconds inside and at both ends of a window;
  `DaysPerMonth` 1 makes a midnight the turn of a month as well; a daily limit
  of 1 with a monthly limit of 2 lets requests be refused by either book.
* `nodes`: `TTL` 2 and `Interval` 1 have the code's ratio (60 and 30
  seconds). Three processes on two nodes meet, and may find no node left.
* `sessions`: two requests interleave at every command, a third comes before,
  between or after them; deeper overlaps are chains of pairs. User 12's keys
  fall under the prefix of user 1.
* `accounts`: two attempts undo each other's counts up to the threshold and
  past it; three social accounts, two of them with one mail address; a
  history of two words out of three; two roles that share and do not share
  a menu, a scope and a rule.
* `tasks`: two moments to a second and a period of one let changes and ticks
  fall into one second or not; the lock lasts one moment, so that a slow tick
  outlives it. Two retries reorder against each other on two workers.
* `server`: times to live of one moment and a hold of one add up like larger
  ones; queue and batch of 2 with 3 requests fill both; two jobs meet at the
  lock. A tolerance of 2 on a clock 0..5 has steps back within and beyond it.

**Symmetry.** `gateway`, `tasks` and `server` use permutations of model
values that no definition tells apart (requests, clients, beats, workers,
calls, jobs, processes). Their properties are invariants or hold of every
step (`[][A]_vars`, and the refinement, which has no fairness), for which
symmetry is sound; the runs with leads-to properties use none.

The components whose behaviours may end (administration, accounts, plugins,
tasks: their numbers of requests are bounded) are checked with
`CHECK_DEADLOCK FALSE`; `breaker`, `limiter` and `nodes` check deadlock.

## Mutants

Each property has a variant of a modelled operator that contains a plausible
bug of the code and breaks the property; the variants stand next to the
operators they vary, marked "Variant with a bug" or "Variation".

## Refinement

`TwoLevelCache` implements `LaggingReads`: its row is the register, and every
answer, from the local cache, from Redis or from the database, is one that the
register may give, no older than the two times to live one after the other
and the time a call takes to fill each. `ReadsLag` is the abstract
specification with `version <- row`; `replaced` and `answer` are history of
the concrete one. The bound holds whether or not invalidations match, and with
every fault; `CopiesAgree` says what the invalidations add to it.

## Fairness

* `BreakerCalls`: time passes; a call that waits is answered or fails
  (litellm has a timeout of its own, and an exception is a failure); what
  follows an answer ends; when the breaker would admit a call, some client
  makes one. Nothing forces a client to leave or the breaker to be read.
* `RateLimiter`: a request under way takes its next step (the event loop is
  fair, Redis commands return or raise), and seconds pass. New requests and
  midnights are not forced.
* `SnowflakeNodes`: seconds pass, and a heartbeat that is due is sent.
  `Second` waits for due heartbeats: the event loop is assumed never to be
  blocked for a second. Starts, stops and crashes are not forced.
* `LoginGuard`: seconds pass and attempts under way go on; nobody has to try.
* `BeatScheduler.FairSpec`: commits and stamping tasks that are under way are
  done, time passes, and a beat goes on. Strong fairness for its steps,
  because Celery's loop comes back to a tick that was not due.

The other modules are checked for safety only. An id generation may really
wait for ever, if its clock keeps being set back; a cached call, a plugin job
and a task wait for a network that may be gone.

## Proofs

Checked by `tlapm`, for every value of the constants that satisfies the
`ASSUME`s of the modules: finite sets of calls and requests, positive sizes
and times, `Interval < TTL`, user ids that are numbers, ids of
different kinds that differ (`KindsDiffer`, `NamesAreDistinct`), resources
that `Records` knows. TLC evaluates each of them. **Every safety property,
action property and refinement that a passing run checks is proved**; the
comment above each theorem says what it adds to the run. The parts that an
`MC` module puts side by side are proved each for its own specification
(`Keys!Spec`, `Tables!Spec`, `Cache!Spec`, `Log!Spec`, `AddOns!Spec`) or for
that of their run (`AccountsSpec`, `TasksSpec`).

Hypotheses of single theorems: `TwoGuessersBounded` takes a positive threshold
and at most two attempts, which is what the property is about;
`NoReuseAlways` a natural number of passwords to look back at;
`CopiesAlwaysDecide` that there is a role and a menu to give the first users;
`OvershootsOnce` that limits are numbers and an answer has a token at least.

* **`BreakerCallsProofs`.** `Inductive`: the five safety properties are
  inductive only together. That successes stay below the slots, for one,
  holds across a failure because outside HALF_OPEN there are none; and the
  bound on waiting probes holds across a new trial period only because that
  period makes every probe stale at the moment its slots are cleared. The
  methods of the breaker keep its own part of the invariant by a lemma each;
  adding or removing one probe is counted with the library's theorems on
  finite sets. From it: `TypeCorrect`, `ClosedMeansBelow`, `TrialsWait`,
  `SuccessesStay`, `ProbesBounded`, and `CountersStay`, which joins them.
* **`RateLimiterProofs`.** `OvershootIsBounded`: a request is *uncounted* from
  the check of the daily limit to the increment of the counter. The day's
  tokens plus `MaxTokens` for every uncounted request stay below the limit
  plus `MaxTokens` for every request: a request becomes uncounted only below
  the limit, and an increment pays with its own share. The invariant needs
  `FutureIsEmpty` besides, for midnight. `OrphansAreOfTheDead`: a counter
  without expiry has a request about to set it, or one that died there.
  `BooksAlwaysBalance`: the two books and what is owed are sums over sets,
  and one step changes one summand of one or two of them. What such sums do
  when a summand changes is proved in the module (`TotalWithout`,
  `TotalChanged`): the library's induction on finite sets takes an operator,
  so the induction is over the set of sizes for which the claim holds.
  `TwoWindowsAlways`: the counter has counted all that was admitted in the
  last *b* seconds for some *b*, and before these at most one earlier window
  admitted anything that a span of `Window` seconds still contains.
* **`SnowflakeNodesProofs`.** `LeasesAreHeld`: a running process for whose
  node no heartbeat has failed owns its key, with more seconds left than its
  heartbeat is away; `SET NX` cannot overwrite it, `DELETE` by another
  process would need the same node. `NodesAreExclusive` follows, as a key has
  one owner.
* **`RequestsProofs`**, the gateway. What a request has left behind at each
  stage of its handler (`Unanswered`, `Answered`, `Failed`) decides what the
  `except` clause can still do to it, and `Settled` says of one request what
  the properties say of all: `ChargesFollowTheLog`, `OpenAIAnswersPay`,
  `OutcomesAlwaysAgree`, for any group of models, providers and retries. The
  breakers do not matter: the invariant holds whatever they answer.
* **`RequestsProofs`**, keys. `OvershootsOnce`: between the update of
  `last_used_at` and the log one call holds the row (`OneHoldsRow`), so a call
  admitted while nobody stands between its log and its charge is the only
  one that owes tokens, and was let in below the limit (`AdmittedAlone`).
* **`RequestsProofs`**, rows. For each of the 18 resources either its tables
  enforce a rule or its service looks for what would break it
  (`EveryResource`, by going through all of them). A request that has been
  alone so far may rely on what it has looked up, and what it has not looked
  up yet lies ahead of it (`AloneInv`); hence `NamesStayUnique` and
  `ParentsStay`. `TreesShowAll` holds of any rows: the rows that a tree leaves out
  each have a parent that is left out, and such a chain either meets itself or
  would be an infinite descent in a finite set.
* **`ServerProofs`**, ids. `ParseInvertsId` is arithmetic on fields of any
  size. `IdsAlwaysIncrease` rests on the invariant that every id was made of
  a millisecond and a sequence no later than the pair `last_timestamp`,
  `sequence`, and while the generator waits, no later than the millisecond
  alone; the next pair is larger than all of them. `IdsAlwaysParse` follows
  with `ParseInvertsId`.
* **`ServerProofs`**, cache. `CacheImplementsLaggingReads`: a value's age and
  the time its copy has left are bounded together at each place where it can
  be (`CacheInv`): in Redis, on its way from Redis, in a local cache, in the
  hands of a call. Every step then maps to a write, a read, a moment or a
  stutter of the register. `CopiesAlwaysAgree`: after the write a copy that
  differs from the row has its removal still on the way, or is the work of an
  overlapping call or of a lost notice (`AgreeInv`).
* **`ServerProofs`**, log. `LogsAreKeptOnce`: queue, batch and table are
  sequences in which each request stands once, and in one of them only;
  moving from one to the next keeps this.
* **`ServerProofs`**, plugins. Who works on a directory holds the lock, until
  a job has outrun it (`LockIsHeld`); changes of a status are counted by
  parity (`StatusIsCounted`); who is writing half a plugin will set the flag
  (`HalvesAreReported`); and a worker that takes the flag down has, as the
  last to look, seen what every other one saw (`SeenOrFlagged`,
  `LostOrFlagged`). From these `ChangesAlwaysFlagged`, `TogglesAlwaysCount`,
  and the action property `WritersAlwaysSpared`.
* **`AccountsProofs`**, guard. `OnlyOvertakenUnlock`: whoever is past
  `check_status` while a lock is in force is one of those the lock overtook
  (`OvertakenAreMarked`), and only such an attempt comes to remove a lock
  before its last second. `TwoGuessersBounded`: with *n* counted, two
  attempts have tried at most *n(2T-n+1)/2* passwords, and each that is under
  way or dead one more. A slow attempt may set the count back to one more than
  it has read, so the room below the threshold is charged to what it read, not
  to what is counted now (`SlowInv`).
* **`AccountsProofs`**, sign-up. `OwnersAlwaysUsers`: a call that has found a
  code, a phone number or a social account new ran together with whoever
  took it since (`SignInv`).
* **`AccountsProofs`**, passwords. `NoReuseAlways`: a validated change ran
  together with whoever recorded the same word after it looked (`ReuseInv`).
* **`AccountsProofs`**, permissions. `FoldsBack`: the serializer makes of the
  flat rows of eight outer joins just what the tables link, whatever they
  contain. `CopiesAlwaysDecide`: decisions depend only on what hangs on a
  user (`SameFor`), a change that clears no copy of a user leaves that
  alone or is one of those named, and a load across a change is marked.
* **`SessionsProofs`.** A request is a place in the plan of its operation:
  the number of steps it has left says what it has done (`PlanTable`), and its
  session is made just if it is past the step that stores it (`BaseInv`). On
  this rest four invariants. `ForkInv`: the token of a session that was
  refreshed is gone, and whoever has found it knows of the others.
  `CredInv`: of every session alive, each change since its base is explained
  by an overlap; a change about to commit has purged what it must.
  `StaleInv`: the same for the copy of a user and for the row a request
  carries to the cache. `SingleInv`: the sessions stored and those about to
  be are no more than the requests in progress.
* **`TasksProofs`**, beats. Until something happens that can lose a run, one
  beat at most serves: it holds the lock, or is closing and has released it
  (`DutyInv`); it knows the count, and what is not saved is dirty or being
  saved (`KnownInv`, `DirtyInv`): `RunsCounted`. `TicksOnce` needs less, and
  holds always. `ChangesSeen`: a row at rest is known to each beat, or its
  next look will tell it, or it is about to read (`SeenInv`).
* **`TasksProofs`**, results. `OutcomeTold`: the row has the last outcome, or
  an attempt that will tell is under way or waiting.

Only model-checked are the five liveness properties, which are out of reach of
the prover: `OpenIsRetried`, `HalfOpenResolvesOrLoses`, `LimitIsLifted`,
`LockIsLifted`, `NodesComeBack`. The four deviations are counterexamples, and
TLC's.

## Where the code does not do what one would expect

Shown by a run that must fail:

1. `breaker_wedge`. A slot of a HALF_OPEN breaker is given back only by a
   report. Every call that ends without one loses it; after
   `half_open_max_calls` of them the breaker refuses for ever, as only OPEN
   has a way out with time. `HalfOpenResolvesOrLoses` in the passing run
   shows that this is the only way. Three things in the code lose slots:
   disconnects, `_get_fallback_models`, which asks the breakers of all
   candidates and uses one (`gateway.py:108`), and anthropic streams.
2. `gateway_anthropic`. `anthropic_messages_stream` breaks off at `[DONE]`
   (`gateway_service.py:218`), so that the generator's code after its last
   `yield` never runs: no success is reported, nothing is logged or charged.
3. `beat_changes`. A change stamped before its commit, or in the second of
   the last look, never reaches the schedule of a beat that goes on
   (`schedulers.py:383`).
4. `lost_writes`. The creation of a model group, a rate limit or an API key is
   flushed in a session that nobody commits (`db.py:89`): the answer shows a
   row, and for a key its secret, that is rolled back.

In the models, with properties stated around them:

* Gateway: a request that dies between `INCR` and `EXPIRE` leaves an RPM
  counter for ever (`rate_limiter.py:50`). Failures of logging and charging
  are reported to the breaker as failures of the provider (`gateway.py:315`).
  A failed anthropic stream ends for its client like a complete one
  (`gateway_service.py:220`). A client that leaves at or before `[DONE]` is
  not charged (`gateway.py:391`).
* Keys: calls of one key run one at a time, from the update of
  `last_used_at` (`api_key_service.py:179`) to the commit of the usage log;
  those that wait each hold a database connection for as long as a provider
  answers. EXPIRED is written in a transaction that the error rolls back, so
  `get_default_key` hands an expired key out for ever. `/llm-token` creates
  keys in a session without commit. A shared limit goes before the key's own
  (`api_key_service.py:278`).
* Snowflake: one failed heartbeat loses a node: the time to live is two
  intervals, and `EXPIRE` on a missing key is not noticed (`snowflake.py:89`).
* Sessions: `update_permission` compares `pk` with the id of the row that it has
  read by `pk` (`user_service.py:165`), so that multi-login becomes the negation
  of the administrator's own setting; a refresh issues no refresh cookie; the OAuth2
  callback loses it; OAuth2 and phone logins look at no status; the extra info
  of a session outlives a refresh and a password change; `delete_prefix`
  matches the keys of every id that begins with the same digits.
* Sign-up: phone numbers and social accounts have no unique column; an OAuth2
  login by mail binds a second account without `check_binding`; a social
  account whose user was deleted cannot log in; a code is used up by a login
  that fails. The first password of an account is not in its history.
* Permissions: the deletion of a menu removes the links by which its holders
  are then looked up, and changes of departments clear no copy; the status of
  roles is ignored (`rbac.py:39` compares objects with 0); a user whose roles
  have no menu is shown all of them (`crud_menu.py:62`); disabling the last
  scope opens all data (`permission.py:82`).
* Rows: names are unique only as far as requests do not overlap; an update of
  dictionary data or of a menu's type brings a row among others unchecked
  (`dict_data_service.py:131`, `crud_menu.py:24`); only an object itself is
  refused as its parent, so that longer circles vanish from the tree; columns
  outlive their business.
* Caches: invalidations of the dictionary and configuration services match no
  key (`dict_data_service.py:97`, `config_service.py:65`), and run before the
  commit: copies live to the end of their time. Changes of a dictionary type
  invalidate nothing.
* Beat: a database error forgets the names that `sync` has popped; a close
  releases the lock before its last save; a beat that waits for the lock
  keeps an old schedule; a restart overwrites edited entries of the settings.
* Tasks: a worker that dies leaves STARTED for ever; a failed notification
  in `before_start` fails the task.
* Log: what is queued at the end of a process is lost, as is a batch whose
  insert fails.
* Plugins: the answer of the lock is ignored after 60 seconds
  (`locks.py:19`), so that a second job goes on and takes the first one's lock
  file away; an uninstallation takes no lock; a starting worker takes the flag
  down also for changes it has not seen (`core.py:141`); a failed installation
  leaves a directory that makes the next one "already installed"; a crash
  leaves the lock file and with it a silent watcher.

Outside of the models: `crud_user.py` declares `reset_password` without
parameters, which does not parse; socket.io's `disconnect` takes an arbitrary
session out of the online set (`server.py:53`); the installer reads the
requirements of the archive's directory instead of the plugin's
(`installer.py:106`); the list of plugins reads the flag as if it were a
plugin (`plugin_service.py:27`).

## Not modelled

* Of the gateway: the parameters for litellm, the conversion between the two
  message formats, the arithmetic of costs: pure reshaping of payloads.
* The pool of database connections; the creation of tables.
* The crontab arithmetic of `tzcrontab.py`; Celery, its broker and
  python-socketio beyond what the code around them sees.
* Rendering of templates and import of tables by the code generator; the
  content of configuration files and requirements.
* Websocket callbacks: they write a set that is only shown.
* Middlewares, exception handlers, logging, i18n, pagination, mail and most
  of the command line: formatting and I/O without state of their own.

## Plan

All safety properties of the runs are proved. What is left:

1. `SnowflakeCluster`: `Snowflake` and `SnowflakeNodes` composed, ids unique
   across processes and restarts as far as clocks allow (`snowflake.py:118`).
2. `BeatScheduler` with two tasks, so that one failed save can lose the other
   one's name.
3. What a client has used that leaves in the middle of a stream
   (`gateway.py:391`), which needs tokens in `LLMGateway`.
4. Shorter proofs: the lemmas about sums, and those about steps that leave an
   invariant's variables alone.
