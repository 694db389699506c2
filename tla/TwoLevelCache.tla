--------------------------- MODULE TwoLevelCache ---------------------------
(***************************************************************************)
(* cached and cache_invalidate (common/cache/decorator.py): a cached       *)
(* function, the local cache of each process (local.py), the copy in       *)
(* Redis, and the notices that keep the local caches in step (pubsub.py).  *)
(* One cache key; the versions of its rows stand for the values.           *)
(***************************************************************************)
EXTENDS Integers

CONSTANTS
    Nodes,          \* server processes
    Readers,        \* calls of the cached function at a time
    LocalTTL,       \* CACHE_LOCAL_TTL, in moments
    RedisTTL,       \* CACHE_REDIS_TTL, in moments
    Hold,           \* bound: moments between a command and its effect on the caller
    MaxWrites,      \* bound: writes
    MaxFaults       \* bound: errors of Redis, calls given up, restarts

VARIABLES
    row,            \* the committed version
    writer,         \* the call of a function with cache_invalidate
    matching,       \* whether the key it builds is a prefix of the cached one
    local, redis,   \* copies, each with the moments it has left
    channel,        \* notices on their way to each process
    listening,      \* whether a process has its subscription
    call,           \* the calls of the cached function
    (* history *)
    answer,         \* what the last call returned
    replaced,       \* moments since each version was replaced
    overlap,        \* whether a read overlapped a write or a notice was lost
    faults

vars == <<row, writer, matching, local, redis, channel, listening, call,
          answer, replaced, overlap, faults>>

None == [v |-> -1, left |-> 0]
NoCall == [pc |-> "idle", node |-> "none", v |-> -1, left |-> 0]
NoWrite == [pc |-> "idle", node |-> "none"]
Lag == LocalTTL + RedisTTL + 2 * Hold

Init ==
    /\ row = 0 /\ writer = NoWrite /\ matching \in BOOLEAN
    /\ local = [n \in Nodes |-> None] /\ redis = None
    /\ channel = [n \in Nodes |-> 0] /\ listening = [n \in Nodes |-> TRUE]
    /\ call = [r \in Readers |-> NoCall]
    /\ answer = 0 /\ replaced = [v \in 0..MaxWrites |-> 0] /\ overlap = FALSE /\ faults = 0

Fault == faults < MaxFaults /\ faults' = faults + 1

-----------------------------------------------------------------------------
(* cached.                                                                 *)

Reading == \E r \in Readers : call[r].pc # "idle"
Writing == writer.pc # "idle"

\* The local copy answers at once.
HitLocal(n) ==
    /\ local[n] # None
    /\ answer' = local[n].v
    /\ UNCHANGED <<row, writer, matching, local, redis, channel, listening, call, replaced, overlap, faults>>

MissLocal(r, n) ==
    /\ call[r] = NoCall /\ local[n] = None
    /\ call' = [call EXCEPT ![r] = [pc |-> "get", node |-> n, v |-> -1, left |-> 0]]
    /\ overlap' = (overlap \/ Writing)
    /\ UNCHANGED <<row, writer, matching, local, redis, channel, listening, answer, replaced, faults>>

\* GET: what Redis has is on its way to the local cache.
GetRedis(r) ==
    /\ call[r].pc = "get"
    /\ call' = [call EXCEPT ![r].pc = IF redis # None THEN "found" ELSE "select",
                            ![r].v = redis.v, ![r].left = Hold]
    /\ UNCHANGED <<row, writer, matching, local, redis, channel, listening, answer, replaced, overlap, faults>>

\* An error of GET counts as a miss.
GetFails(r) ==
    /\ call[r].pc = "get" /\ Fault
    /\ call' = [call EXCEPT ![r].pc = "select", ![r].left = Hold]
    /\ UNCHANGED <<row, writer, matching, local, redis, channel, listening, answer, replaced, overlap>>

Keep(r) == local' = [local EXCEPT ![call[r].node] = [v |-> call[r].v, left |-> LocalTTL]]
Return(r) == call' = [call EXCEPT ![r] = NoCall] /\ answer' = call[r].v

\* Variation: a hit renews the copy in Redis.
FillFromRedisRenewing(r) ==
    /\ call[r].pc = "found"
    /\ Keep(r) /\ Return(r)
    /\ redis' = [v |-> call[r].v, left |-> RedisTTL]
    /\ UNCHANGED <<row, writer, matching, channel, listening, replaced, overlap, faults>>

FillFromRedis(r) ==
    /\ call[r].pc = "found"
    /\ Keep(r) /\ Return(r)
    /\ UNCHANGED <<row, writer, matching, redis, channel, listening, replaced, overlap, faults>>

\* The function reads the database.
Select(r) ==
    /\ call[r].pc = "select"
    /\ call' = [call EXCEPT ![r].pc = "fill", ![r].v = row, ![r].left = Hold]
    /\ UNCHANGED <<row, writer, matching, local, redis, channel, listening, answer, replaced, overlap, faults>>

FillLocal(r) ==
    /\ call[r].pc = "fill"
    /\ Keep(r)
    /\ call' = [call EXCEPT ![r].pc = "set"]
    /\ UNCHANGED <<row, writer, matching, redis, channel, listening, answer, replaced, overlap, faults>>

FillRedis(r) ==
    /\ call[r].pc = "set"
    /\ redis' = [v |-> call[r].v, left |-> RedisTTL]
    /\ Return(r)
    /\ UNCHANGED <<row, writer, matching, local, channel, listening, replaced, overlap, faults>>

\* An error of SETEX is logged.
FillFails(r) ==
    /\ call[r].pc = "set" /\ Fault
    /\ Return(r)
    /\ UNCHANGED <<row, writer, matching, local, redis, channel, listening, replaced, overlap>>

-----------------------------------------------------------------------------
(* cache_invalidate: after the function and before the commit of its       *)
(* transaction, which is that of the request.                              *)

Write(n) ==
    /\ ~Writing /\ row < MaxWrites
    /\ writer' = [pc |-> "redis", node |-> n]
    /\ overlap' = (overlap \/ Reading)
    /\ UNCHANGED <<row, matching, local, redis, channel, listening, call, answer, replaced, faults>>

\* delete_prefix.  A key made of a hash of the arguments is a prefix of none.
InvalidateRedis ==
    /\ writer.pc = "redis"
    /\ redis' = IF matching THEN None ELSE redis
    /\ writer' = [writer EXCEPT !.pc = "local"]
    /\ UNCHANGED <<row, matching, local, channel, listening, call, answer, replaced, overlap, faults>>

InvalidateLocal ==
    /\ writer.pc = "local"
    /\ local' = IF matching THEN [local EXCEPT ![writer.node] = None] ELSE local
    /\ writer' = [writer EXCEPT !.pc = "publish"]
    /\ UNCHANGED <<row, matching, redis, channel, listening, call, answer, replaced, overlap, faults>>

\* Variation: the other processes are not told.
PublishToNobody ==
    /\ writer.pc = "publish"
    /\ writer' = [writer EXCEPT !.pc = "commit"]
    /\ UNCHANGED <<row, matching, local, redis, channel, listening, call, answer, replaced, overlap, faults>>

\* publish_invalidation reaches who is subscribed.
Publish ==
    /\ writer.pc = "publish"
    /\ channel' = [n \in Nodes |-> IF listening[n] THEN channel[n] + 1 ELSE channel[n]]
    /\ overlap' = (overlap \/ \E n \in Nodes : ~listening[n])
    /\ writer' = [writer EXCEPT !.pc = "commit"]
    /\ UNCHANGED <<row, matching, local, redis, listening, call, answer, replaced, faults>>

\* Its own errors are logged.
PublishFails ==
    /\ writer.pc = "publish" /\ Fault
    /\ overlap' = TRUE
    /\ writer' = [writer EXCEPT !.pc = "commit"]
    /\ UNCHANGED <<row, matching, local, redis, channel, listening, call, answer, replaced>>

\* atomic: an error before that, of the key or of Redis, fails the request,
\* whose transaction is rolled back.
InvalidateFails ==
    /\ writer.pc = "redis" /\ Fault
    /\ writer' = NoWrite
    /\ UNCHANGED <<row, matching, local, redis, channel, listening, call, answer, replaced, overlap>>

Commit ==
    /\ writer.pc = "commit"
    /\ row' = row + 1
    /\ replaced' = [replaced EXCEPT ![row] = 0]
    /\ writer' = NoWrite
    /\ UNCHANGED <<matching, local, redis, channel, listening, call, answer, overlap, faults>>

-----------------------------------------------------------------------------
(* subscribe_and_listen.                                                   *)

Notice(n) ==
    /\ listening[n] /\ channel[n] > 0
    /\ channel' = [channel EXCEPT ![n] = @ - 1]
    /\ local' = IF matching THEN [local EXCEPT ![n] = None] ELSE local
    /\ UNCHANGED <<row, writer, matching, redis, listening, call, answer, replaced, overlap, faults>>

\* The connection is lost, with the notices on it.
Disconnect(n) ==
    /\ listening[n] /\ Fault
    /\ listening' = [listening EXCEPT ![n] = FALSE]
    /\ channel' = [channel EXCEPT ![n] = 0]
    /\ overlap' = (overlap \/ channel[n] > 0)
    /\ UNCHANGED <<row, writer, matching, local, redis, call, answer, replaced>>

\* A new attempt after a delay, if it is not given up.
Reconnect(n) ==
    /\ ~listening[n]
    /\ listening' = [listening EXCEPT ![n] = TRUE]
    /\ UNCHANGED <<row, writer, matching, local, redis, channel, call, answer, replaced, overlap, faults>>

\* start_listener in a new process, whose cache is empty.
Restart(n) ==
    /\ Fault
    /\ local' = [local EXCEPT ![n] = None]
    /\ channel' = [channel EXCEPT ![n] = 0] /\ listening' = [listening EXCEPT ![n] = TRUE]
    /\ call' = [r \in Readers |-> IF call[r].node = n THEN NoCall ELSE call[r]]
    /\ writer' = IF writer.node = n THEN NoWrite ELSE writer
    /\ UNCHANGED <<row, matching, redis, answer, replaced, overlap>>

Older(copy) == IF copy.left > 1 THEN [copy EXCEPT !.left = @ - 1] ELSE None
Moment ==
    /\ \A r \in Readers : call[r].pc \in {"found", "fill", "set"} => call[r].left > 0
    /\ call' = [r \in Readers |-> IF call[r].left > 0 THEN [call[r] EXCEPT !.left = @ - 1] ELSE call[r]]
    /\ local' = [n \in Nodes |-> Older(local[n])] /\ redis' = Older(redis)
    /\ replaced' = [v \in 0..MaxWrites |->
                       IF v < row /\ replaced[v] <= Lag THEN replaced[v] + 1 ELSE replaced[v]]
    /\ UNCHANGED <<row, writer, matching, channel, listening, answer, overlap, faults>>

Next ==
    \/ \E n \in Nodes : HitLocal(n) \/ Write(n) \/ Notice(n) \/ Disconnect(n) \/ Reconnect(n) \/ Restart(n)
    \/ \E r \in Readers :
           \/ \E n \in Nodes : MissLocal(r, n)
           \/ GetRedis(r) \/ GetFails(r) \/ FillFromRedis(r) \/ Select(r)
           \/ FillLocal(r) \/ FillRedis(r) \/ FillFails(r)
    \/ InvalidateRedis \/ InvalidateLocal \/ Publish \/ PublishFails \/ InvalidateFails \/ Commit
    \/ Moment

Spec == Init /\ [][Next]_vars

-----------------------------------------------------------------------------
(* Properties.                                                             *)

\* Nothing bounds how old a cached answer is but the two times to live, one
\* after the other, and the time a call takes to fill each cache: with them,
\* the cached function is a register whose reads lag (decorator.py:117).
Lagging == INSTANCE LaggingReads WITH LastVersion <- MaxWrites, version <- row
ReadsLag == Lagging!Spec

\* Where the keys match, a copy differs from the row only until a notice that
\* is on its way arrives, or because a call read while a write was going on or
\* a notice was lost (decorator.py:182, pubsub.py:16).
CopiesAgree ==
    matching /\ ~overlap /\ ~Writing =>
        /\ redis # None => redis.v = row
        /\ \A n \in Nodes : local[n] # None /\ channel[n] = 0 => local[n].v = row

=============================================================================
