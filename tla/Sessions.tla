------------------------------ MODULE Sessions ------------------------------
(***************************************************************************)
(* Access tokens, refresh tokens and cached users in Redis, and the user   *)
(* rows they are issued from (backend/common/security/jwt.py, admin's      *)
(* auth_service and user_service, the phone and OAuth2 logins).  A request *)
(* is a list of steps, one for each Redis command or SQL statement that    *)
(* another request can come before or after; it may die at any of them.    *)
(***************************************************************************)
EXTENDS Integers, Sequences, FiniteSets, TLC

CONSTANTS
    Users,          \* user ids, numbers as DATABASE_PK_MODE = autoincrement gives
    Others,         \* ids of users whose own sessions are not modelled
    Parallel,       \* bound: requests in progress at the same time
    MaxRequests,    \* bound: requests in all
    MaxFaults       \* bound: requests that die and access tokens that expire

ASSUME SessionsAssumption ==
    /\ Users \subseteq Nat \ {0} /\ Others \subseteq Nat \ {0}
    /\ Parallel \in Nat \ {0} /\ MaxRequests \in Nat /\ MaxFaults \in Nat

VARIABLES
    row,            \* committed user rows
    reqs,           \* the requests in progress
    access,         \* TOKEN_REDIS_PREFIX: keys <<user, session>>
    extra,          \* TOKEN_EXTRA_INFO_REDIS_PREFIX
    refresh,        \* TOKEN_REFRESH_REDIS_PREFIX
    cache,          \* JWT_USER_REDIS_PREFIX
    known,          \* sessions whose access token a client was given
    cookies,        \* sessions whose refresh token a client was given
    faults,         \* requests that died and tokens that expired
    (* history *)
    started,        \* requests started
    overlap,        \* pairs of requests that were in progress together
    commits,        \* per user: the requests whose change of the row was committed
    made            \* sessions stored: what their request knew

clients == <<known, cookies>>
history == <<started, overlap, commits, made>>
vars == <<row, reqs, access, extra, refresh, cache, clients, faults, history>>

\* A request that creates a session names it by its own number; session 0
\* of a user is the one it has at the start.
Accounts == Users \union Others
Keys == Users \X (0 .. MaxRequests)
NoKey == <<0, 0>>
NotCached == [since |-> -1]
Row == [live : BOOLEAN, status : BOOLEAN, multi : BOOLEAN]

\* scan_iter(match = prefix + '*') finds the keys of user v when u is asked
\* for: the decimal form of v begins with that of u.
HasPrefix(v, u) == v = u \/ \E k \in 1 .. 9 : v \div 10^k = u
PrefixKeys(keys, u) == {k \in keys : HasPrefix(k[1], u)}

-----------------------------------------------------------------------------
(* What each handler does, step by step.                                   *)

LoginPlan == <<"touch", "drop", "store", "dropRefresh", "storeRefresh">>
SwaggerPlan == <<"touch", "drop", "store">>
PhonePlan == <<"touch", "drop", "store", "dropRefresh", "storeRefresh">>
SocialPlan == <<"drop", "store", "dropRefresh", "storeRefresh", "touch">>
\* Variant with a bug: the refresh token is not used up.
RefreshPlanUnspent == <<"check", "revoke", "drop", "store", "dropRefresh", "storeRefresh">>
RefreshPlan == <<"check", "spend", "revoke", "drop", "store", "dropRefresh", "storeRefresh">>
LogoutPlan == <<"revoke", "spend">>
KickPlan == <<"revoke">>
SwitchPlan == <<"read", "write", "dropOthers", "clear">>
\* Variant with a bug: the cached user outlives the change.
StatusPlanCached == <<"read", "write">>
StatusPlan == <<"read", "write", "clear">>
ProfilePlan == <<"read", "write", "clear">>
\* Variant with a bug: the refresh tokens outlive the change.
ResetPlanKeepsRefresh == <<"read", "write", "purge", "purgeUsers">>
ResetPlan == <<"read", "write", "purge", "purgeRefresh", "purgeUsers">>
PasswordPlan == <<"read", "write", "purge", "purgeRefresh", "purgeUsers">>
DeletePlan == <<"read", "write", "purge", "purgeRefresh", "purgeUsers">>

\* The requests a user makes with an access token, and those an
\* administrator makes about a user.
OwnPlan ==
    [logout |-> LogoutPlan, profile |-> ProfilePlan,
     password |-> PasswordPlan, switchOwn |-> SwitchPlan]
AdminPlan ==
    [kick |-> KickPlan, switch |-> SwitchPlan, status |-> StatusPlan,
     reset |-> ResetPlan, delete |-> DeletePlan]
\* The changes that end the sessions of the user they are made to.
Credentials == {"password", "reset", "delete"}

Init ==
    /\ \E m \in [Users -> BOOLEAN] :
           row = [u \in Accounts |-> [live |-> TRUE, status |-> TRUE, multi |-> u \in Users /\ m[u]]]
    /\ reqs = {}
    /\ access = Users \X {0} /\ extra = Users \X {0} /\ refresh = Users \X {0}
    /\ known = Users \X {0} /\ cookies = Users \X {0}
    /\ cache = [u \in Users |-> NotCached]
    /\ faults = 0 /\ started = 0 /\ overlap = {}
    /\ commits = [u \in Accounts |-> <<>>]
    /\ made = [k \in Users \X {0} |->
                  [multi |-> row[k[1]].multi, since |-> 0, line |-> {}, from |-> NoKey, cookie |-> TRUE]]

-----------------------------------------------------------------------------
(* Beginning a request.                                                    *)

\* u is the user whose session or row the request is about, key the session
\* it presents, multi and since what it read of the row, line the requests
\* its session descends from.
Begin(op, u, key, steps, multi, since, line) ==
    /\ started < MaxRequests /\ Cardinality(reqs) < Parallel
    /\ started' = started + 1
    /\ overlap' = overlap \union {{started + 1, r.n} : r \in reqs}
    /\ reqs' = reqs \union
                  {[n |-> started + 1, op |-> op, u |-> u, key |-> key, todo |-> steps,
                    multi |-> multi, since |-> since, line |-> line,
                    snap |-> NotCached, change |-> <<>>, lock |-> FALSE]}
    /\ UNCHANGED <<row, access, extra, refresh, cache, clients, faults, commits, made>>

\* user_verify with the right password; the row is read here.
BeginLogin(u) ==
    /\ row[u].live /\ row[u].status
    /\ \/ Begin("login", u, NoKey, LoginPlan, row[u].multi, Len(commits[u]), {started + 1})
       \/ Begin("swagger", u, NoKey, SwaggerPlan, row[u].multi, Len(commits[u]), {started + 1})

\* A verification code or a social account names the user: no status check.
BeginCodeLogin(u) ==
    /\ row[u].live
    /\ \/ Begin("phone", u, NoKey, PhonePlan, row[u].multi, Len(commits[u]), {started + 1})
       \/ Begin("social", u, NoKey, SocialPlan, row[u].multi, Len(commits[u]), {started + 1})

\* The cookie a client holds names the session.  A single-login user that has
\* any access token is refused.  The refresh token that replaces it is stored
\* and never sent: no cookie names the new session.
BeginRefresh(k) ==
    /\ k \in cookies
    /\ row[k[1]].live /\ row[k[1]].status
    /\ row[k[1]].multi \/ \A j \in access : j[1] # k[1]
    /\ Begin("refresh", k[1], k, RefreshPlan, row[k[1]].multi, made[k].since,
             made[k].line \union {started + 1})

\* A request with an access token: the middleware finds it in Redis.
BeginOwn(op, k) ==
    /\ k \in known \intersect access
    /\ Begin(op, k[1], k, <<"user">>, FALSE, 0, {})

\* An administrator's request about u; multi is its own flag, as its cached
\* user has it.  What is done to another user reaches the modelled ones
\* through the prefixes only.
BeginAdmin(op, u) ==
    /\ u \in Others => op = "reset"
    /\ \E multi \in IF op = "switch" THEN BOOLEAN ELSE {TRUE} :
           Begin(op, u, NoKey, AdminPlan[op], multi, 0, {})

-----------------------------------------------------------------------------
(* The steps.                                                              *)

\* The row of u is locked by another request's uncommitted UPDATE.
Locked(r) == \E q \in reqs \ {r} : q.lock /\ q.u = r.u

NewKey(r) == <<r.u, r.n>>
At(r, step) == r.todo # <<>> /\ Head(r.todo) = step
After(r) == [r EXCEPT !.todo = Tail(@)]
Become(r, s) == reqs' = (reqs \ {r}) \union {s}
Continue(r) == Become(r, After(r))
End(r) == reqs' = reqs \ {r}

\* The handler runs as whoever the cached user says the caller is.
Enter(r, snap) ==
    Become(r, [r EXCEPT !.todo = OwnPlan[r.op], !.snap = NotCached,
                        !.multi = r.op = "switchOwn" /\ snap.multi])

\* get_jwt_user: the cached user, ...
GetUser(r) ==
    /\ At(r, "user")
    /\ IF cache[r.key[1]] # NotCached THEN Enter(r, cache[r.key[1]])
       ELSE Become(r, [r EXCEPT !.todo = <<"load">>])
    /\ UNCHANGED <<row, access, extra, refresh, cache, clients, faults, history>>

\* ... or the row, if it passes get_current_user's checks, ...
LoadUser(r) ==
    LET u == r.key[1] IN
    /\ At(r, "load")
    /\ IF row[u].live /\ row[u].status
       THEN Become(r, [r EXCEPT !.todo = <<"fill">>,
                                !.snap = [multi |-> row[u].multi, since |-> Len(commits[u]), by |-> r.n]])
       ELSE End(r)
    /\ UNCHANGED <<row, access, extra, refresh, cache, clients, faults, history>>

\* ... which is then cached.
FillCache(r) ==
    /\ At(r, "fill")
    /\ cache' = [cache EXCEPT ![r.key[1]] = r.snap]
    /\ Enter(r, r.snap)
    /\ UNCHANGED <<row, access, extra, refresh, clients, faults, history>>

\* UPDATE last_login_time waits for the row's lock and takes it; a login
\* then reads the row again, the others keep what they read before it.
Touch(r) ==
    /\ At(r, "touch")
    /\ ~Locked(r)
    /\ \/ /\ row[r.u].live
          /\ Become(r, [After(r) EXCEPT !.lock = TRUE,
                                        !.multi = IF r.op = "login" THEN row[r.u].multi ELSE @])
       \/ /\ ~row[r.u].live
          /\ IF r.op = "swagger" THEN Continue(r) ELSE End(r)
    /\ UNCHANGED <<row, access, extra, refresh, cache, clients, faults, history>>

\* Variant with a bug: it is the user with several logins that loses them.
DropTokensInverted(r) ==
    /\ At(r, "drop")
    /\ access' = IF r.multi THEN access \ PrefixKeys(access, r.u) ELSE access
    /\ Continue(r)
    /\ UNCHANGED <<row, extra, refresh, cache, clients, faults, history>>

\* create_access_token: a single login drops the user's other tokens, ...
DropTokens(r) ==
    /\ At(r, "drop")
    /\ access' = IF r.multi THEN access ELSE access \ PrefixKeys(access, r.u)
    /\ Continue(r)
    /\ UNCHANGED <<row, extra, refresh, cache, clients, faults, history>>

\* ... then the new token is stored, and what is known of the client.
StoreToken(r) ==
    /\ At(r, "store")
    /\ access' = access \union {NewKey(r)}
    /\ extra' = extra \union {NewKey(r)}
    /\ made' = [k \in DOMAIN made \union {NewKey(r)} |->
                  IF k # NewKey(r) THEN made[k]
                  ELSE [multi |-> r.multi, since |-> r.since, line |-> r.line, from |-> r.key,
                        cookie |-> r.op \in {"login", "phone", "refresh"}]]
    /\ Continue(r)
    /\ UNCHANGED <<row, refresh, cache, clients, faults, started, overlap, commits>>

\* create_refresh_token.
DropRefresh(r) ==
    /\ At(r, "dropRefresh")
    /\ refresh' = IF r.multi THEN refresh ELSE refresh \ PrefixKeys(refresh, r.u)
    /\ Continue(r)
    /\ UNCHANGED <<row, access, extra, cache, clients, faults, history>>

StoreRefresh(r) ==
    /\ At(r, "storeRefresh")
    /\ refresh' = refresh \union {NewKey(r)}
    /\ Continue(r)
    /\ UNCHANGED <<row, access, extra, cache, clients, faults, history>>

\* create_new_token: the refresh token must be in Redis, ...
CheckRefresh(r) ==
    /\ At(r, "check")
    /\ IF r.key \in refresh THEN Continue(r) ELSE End(r)
    /\ UNCHANGED <<row, access, extra, refresh, cache, clients, faults, history>>

\* ... and is deleted by a command of its own; a logout with a cookie deletes
\* it too.
SpendRefresh(r) ==
    /\ At(r, "spend")
    /\ refresh' = IF made[r.key].cookie THEN refresh \ {r.key} ELSE refresh
    /\ Continue(r)
    /\ UNCHANGED <<row, access, extra, cache, clients, faults, history>>

\* The session a request revokes: its own, or for a kick any of the user's.
RevokeToken(r) ==
    /\ At(r, "revoke")
    /\ \E k \in IF r.op = "kick" THEN {j \in DOMAIN made : j[1] = r.u} ELSE {r.key} :
           /\ access' = access \ {k}
           /\ extra' = IF r.op = "refresh" THEN extra ELSE extra \ {k}
    /\ Continue(r)
    /\ UNCHANGED <<row, refresh, cache, clients, faults, history>>

\* The row a change is made to is read without a lock.  The flag that decides
\* about several logins is set to the opposite of the caller's, also when the
\* caller is an administrator.
ReadRow(r) ==
    /\ At(r, "read")
    /\ \/ /\ row[r.u].live
          /\ Become(r, [After(r) EXCEPT !.change =
                 CASE r.op = "status" -> [status |-> ~row[r.u].status]
                   [] r.op \in {"switch", "switchOwn"} -> [multi |-> ~r.multi]
                   [] r.op = "delete" -> [live |-> FALSE]
                   [] OTHER -> <<>>])
       \/ ~row[r.u].live /\ End(r)
    /\ UNCHANGED <<row, access, extra, refresh, cache, clients, faults, history>>

WriteRow(r) ==
    /\ At(r, "write")
    /\ ~Locked(r)
    /\ Become(r, [After(r) EXCEPT !.lock = row[r.u].live])
    /\ UNCHANGED <<row, access, extra, refresh, cache, clients, faults, history>>

\* Turned to a single login, the user loses every token but the one whose
\* key names the caller's session.
DropOthers(r) ==
    /\ At(r, "dropOthers")
    /\ access' = IF r.change.multi THEN access
                 ELSE access \ (PrefixKeys(access, r.u) \ {<<r.u, r.key[2]>>})
    /\ Continue(r)
    /\ UNCHANGED <<row, extra, refresh, cache, clients, faults, history>>

ClearCache(r) ==
    /\ At(r, "clear")
    /\ cache' = [u \in Users |-> IF u = r.u THEN NotCached ELSE cache[u]]
    /\ Continue(r)
    /\ UNCHANGED <<row, access, extra, refresh, clients, faults, history>>

\* After a change of password and when a user is deleted: three prefixes,
\* one after the other, before the transaction commits.
Purge(r) ==
    /\ \/ /\ At(r, "purge")
          /\ access' = access \ PrefixKeys(access, r.u)
          /\ UNCHANGED <<refresh, cache>>
       \/ /\ At(r, "purgeRefresh")
          /\ refresh' = refresh \ PrefixKeys(refresh, r.u)
          /\ UNCHANGED <<access, cache>>
       \/ /\ At(r, "purgeUsers")
          /\ cache' = [v \in Users |-> IF HasPrefix(v, r.u) THEN NotCached ELSE cache[v]]
          /\ UNCHANGED <<access, refresh>>
    /\ Continue(r)
    /\ UNCHANGED <<row, extra, clients, faults, history>>

\* The handler returns: the transaction commits and the client is answered.
Finish(r) ==
    LET stored == IF NewKey(r) \in DOMAIN made THEN {NewKey(r)} ELSE {} IN
    /\ r.todo = <<>>
    /\ row' = IF r.lock THEN [row EXCEPT ![r.u] = r.change @@ @] ELSE row
    /\ commits' = IF r.lock /\ r.op \in DOMAIN OwnPlan \union DOMAIN AdminPlan
                  THEN [commits EXCEPT ![r.u] = Append(@, [by |-> r.n, ends |-> r.op \in Credentials])]
                  ELSE commits
    /\ known' = known \union stored
    /\ cookies' = IF r.op \in {"login", "phone"} THEN cookies \union stored ELSE cookies
    /\ End(r)
    /\ UNCHANGED <<access, extra, refresh, cache, faults, started, overlap, made>>

\* An error or a lost process: nothing is committed, Redis keeps what it has.
Die(r) ==
    /\ faults < MaxFaults
    /\ faults' = faults + 1
    /\ End(r)
    /\ UNCHANGED <<row, access, extra, refresh, cache, clients, history>>

\* An access token expires, and what is known of its client with it; the
\* refresh token lives longer.
Expire(k) ==
    /\ faults < MaxFaults
    /\ faults' = faults + 1
    /\ access' = access \ {k} /\ extra' = extra \ {k}
    /\ UNCHANGED <<row, reqs, refresh, cache, clients, history>>

Step(r) ==
    \/ GetUser(r) \/ LoadUser(r) \/ FillCache(r) \/ Touch(r)
    \/ DropTokens(r) \/ StoreToken(r) \/ DropRefresh(r) \/ StoreRefresh(r)
    \/ CheckRefresh(r) \/ SpendRefresh(r) \/ RevokeToken(r)
    \/ ReadRow(r) \/ WriteRow(r) \/ DropOthers(r) \/ ClearCache(r) \/ Purge(r)
    \/ Finish(r) \/ Die(r)

Next ==
    \/ \E u \in Users : BeginLogin(u) \/ BeginCodeLogin(u)
    \/ \E k \in cookies : BeginRefresh(k)
    \/ \E op \in DOMAIN OwnPlan, k \in known : BeginOwn(op, k)
    \/ \E op \in DOMAIN AdminPlan, u \in Accounts : BeginAdmin(op, u)
    \/ \E r \in reqs : Step(r)
    \/ \E k \in access : Expire(k)

Spec == Init /\ [][Next]_vars

-----------------------------------------------------------------------------
(* Properties.                                                             *)

\* Whether request n was in progress together with the one that made the
\* i-th committed change of u's row.
Overlapped(n, u, i) == {n, commits[u][i].by} \in overlap

\* A password change and a deletion end the sessions of the user
\* (user_service.reset_password, update_password, delete): a session opened
\* from the row as it was before lives on only if a request it descends from
\* was in progress together with the change.
CredentialChangesEndSessions ==
    \A k \in access \union refresh : \A i \in made[k].since + 1 .. Len(commits[k[1]]) :
        commits[k[1]][i].ends =>
            \E n \in made[k].line : Overlapped(n, k[1], i)

\* The cached user the requests of u are served from (jwt.get_jwt_user) is the
\* committed row, but for changes that were in progress together with the
\* request that cached it.
StaleUserOverlapped ==
    \A u \in Users : cache[u] # NotCached =>
        \A i \in cache[u].since + 1 .. Len(commits[u]) : Overlapped(cache[u].by, u, i)

\* create_access_token with multi_login False: the sessions a single-login
\* user has at one time are those of requests that raced each other, never
\* more than there are requests at a time.
SingleLoginOvershoot ==
    \A u \in Users :
        Cardinality({k \in access : k[1] = u /\ ~made[k].multi}) <= Parallel

\* create_new_token: a refresh token makes two sessions only for two requests
\* that were in progress together.
ForkedByOverlapOnly ==
    \A j, k \in DOMAIN made :
        (j # k /\ made[j].from # NoKey /\ made[j].from = made[k].from) => {j[2], k[2]} \in overlap

=============================================================================
