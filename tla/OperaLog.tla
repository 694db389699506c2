------------------------------ MODULE OperaLog ------------------------------
(***************************************************************************)
(* The operation log: OperaLogMiddleware puts the log of each request into *)
(* a bounded queue after the request was handled, and its consumer takes   *)
(* batches from the queue and inserts them into the table.                 *)
(***************************************************************************)
EXTENDS Integers, Sequences, FiniteSets

CONSTANTS
    Requests,       \* requests of one run of the process
    QueueSize,      \* OPERA_LOG_QUEUE_MAXSIZE
    BatchSize,      \* OPERA_LOG_QUEUE_BATCH_CONSUME_SIZE
    MaxStops,       \* bound: ends of the process
    MaxFailures     \* bound: inserts that fail

VARIABLES
    request,        \* what each request is doing
    failed,         \* whether it ended with an error, in its log
    queue, batch,
    table,          \* the inserted rows, with what they say
    stops, failures,
    (* history *)
    lost,           \* logs of a batch that failed or a process that ended
    deleted         \* logs that an administrator deleted

logVars == <<request, failed, queue, batch, table, stops, failures, lost, deleted>>

Init ==
    /\ request = [r \in Requests |-> "none"] /\ failed = [r \in Requests |-> FALSE]
    /\ queue = <<>> /\ batch = <<>> /\ table = {}
    /\ stops = 0 /\ failures = 0 /\ lost = {} /\ deleted = {}

In(r, logs) == \E k \in DOMAIN logs : logs[k] = r
Elements(logs) == {logs[k] : k \in DOMAIN logs}

-----------------------------------------------------------------------------
(* dispatch.  The log is made after the handler, whether it answered, or   *)
(* its exception was handled inside (its code is in the context), or it    *)
(* comes through.  The put waits while the queue is full, and with it the  *)
(* answer.                                                                 *)

Handle(r) ==
    /\ request[r] = "none"
    /\ request' = [request EXCEPT ![r] = "running"]
    /\ UNCHANGED <<failed, queue, batch, table, stops, failures, lost, deleted>>

Finish(r, error) ==
    /\ request[r] = "running"
    /\ request' = [request EXCEPT ![r] = "putting"]
    /\ failed' = [failed EXCEPT ![r] = error]
    /\ UNCHANGED <<queue, batch, table, stops, failures, lost, deleted>>

Put(r) ==
    /\ request[r] = "putting" /\ Len(queue) < QueueSize
    /\ queue' = Append(queue, r)
    /\ request' = [request EXCEPT ![r] = "answered"]
    /\ UNCHANGED <<failed, batch, table, stops, failures, lost, deleted>>

-----------------------------------------------------------------------------
(* consumer: batch_dequeue collects until the batch is full or its time is *)
(* over.                                                                   *)

Collect ==
    /\ queue # <<>> /\ Len(batch) < BatchSize
    /\ batch' = Append(batch, Head(queue)) /\ queue' = Tail(queue)
    /\ UNCHANGED <<request, failed, table, stops, failures, lost, deleted>>

\* Variation: batch_dequeue goes on with the same list.
KeepBatch == UNCHANGED batch

Clear == batch' = <<>>

Insert ==
    /\ batch # <<>>
    /\ table' = table \cup {[log |-> r, failed |-> failed[r]] : r \in Elements(batch)}
    /\ Clear
    /\ UNCHANGED <<request, failed, queue, stops, failures, lost, deleted>>

\* An error of the insert loses the batch.
InsertFails ==
    /\ batch # <<>> /\ failures < MaxFailures
    /\ failures' = failures + 1
    /\ lost' = lost \cup Elements(batch)
    /\ Clear
    /\ UNCHANGED <<request, failed, queue, table, stops, deleted>>

\* register_init ends without waiting for the consumer or the queue.
Stop ==
    /\ stops < MaxStops
    /\ stops' = stops + 1
    /\ lost' = lost \cup Elements(queue) \cup Elements(batch)
                    \cup {r \in Requests : request[r] \in {"running", "putting"}}
    /\ queue' = <<>> /\ Clear
    /\ request' = [r \in Requests |-> IF request[r] \in {"running", "putting"} THEN "cut" ELSE request[r]]
    /\ UNCHANGED <<failed, table, failures, deleted>>

\* opera_log_service.delete, delete_all.
Delete(logs) ==
    /\ logs # {} /\ table' = {row \in table : row.log \notin logs}
    /\ deleted' = deleted \cup logs
    /\ UNCHANGED <<request, failed, queue, batch, stops, failures, lost>>

Next ==
    \/ \E r \in Requests : Handle(r) \/ (\E error \in BOOLEAN : Finish(r, error)) \/ Put(r)
    \/ Collect \/ Insert \/ InsertFails \/ Stop
    \/ \E r \in Requests : Delete({row.log : row \in {x \in table : x.log = r}})
    \/ Delete({row.log : row \in table})

Spec == Init /\ [][Next]_logVars

-----------------------------------------------------------------------------
(* Properties.                                                             *)

Places(r) ==
    <<In(r, queue), In(r, batch), \E row \in table : row.log = r, r \in lost, r \in deleted>>

\* Every request that was answered has its log in exactly one place: on its
\* way, in the table with how the request ended, deleted, or lost with a
\* failed batch or the end of the process (opera_log_middleware.py:253).
LoggedOnce ==
    \A r \in Requests :
        /\ request[r] = "answered" =>
               Cardinality({k \in 1..5 : Places(r)[k]}) = 1
               /\ Cardinality({k \in DOMAIN (queue \o batch) : (queue \o batch)[k] = r}) < 2
        /\ \A row \in table : row.log = r => row.failed = failed[r]

=============================================================================
