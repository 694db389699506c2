--------------------------- MODULE SnowflakeNodes ---------------------------
(***************************************************************************)
(* How the processes of a deployment get distinct snowflake nodes:         *)
(* SnowflakeNodeManager of backend/utils/snowflake.py.  A process looks    *)
(* for a node without a key in Redis, sets the key with a time to live,    *)
(* refreshes it from a heartbeat task, and deletes it at shutdown.  Every  *)
(* Redis command is a step.  A node is a number, its pair of datacenter    *)
(* and worker in the order acquire_node_id tries them.                     *)
(***************************************************************************)
EXTENDS Integers

CONSTANTS
    Procs,        \* processes of the deployment
    NodeCount,    \* nodes, 1024 in the code
    TTL,          \* SNOWFLAKE_NODE_TTL_SECONDS
    Interval,     \* SNOWFLAKE_HEARTBEAT_INTERVAL_SECONDS
    NoProc        \* no process

Nodes == 0 .. NodeCount - 1

ASSUME NodesAssumption ==
    /\ NodeCount \in Nat
    /\ TTL \in Nat /\ Interval \in Nat \ {0} /\ Interval < TTL
    /\ NoProc \notin Procs

VARIABLES
    key,          \* the key of each node: who set it, and its seconds to live
    pc,           \* what each process is doing
    occupied,     \* the nodes that its scan_iter found
    candidate,    \* the node it tries next, or holds when it is up
    alarm,        \* seconds until its heartbeat
    missed        \* history: the nodes for which a heartbeat has failed

vars == <<key, pc, occupied, candidate, alarm, missed>>

NoKey == [owner |-> NoProc, ttl |-> 0]

Held(n) == key[n].ttl > 0

Init ==
    /\ key = [n \in Nodes |-> NoKey]
    /\ pc = [p \in Procs |-> "down"]
    /\ occupied = [p \in Procs |-> {}]
    /\ candidate = [p \in Procs |-> 0]
    /\ alarm = [p \in Procs |-> 0]
    /\ missed = {}

\* The process is gone, and what it knew with it.
Stop(p) ==
    /\ pc' = [pc EXCEPT ![p] = "down"]
    /\ occupied' = [occupied EXCEPT ![p] = {}]
    /\ candidate' = [candidate EXCEPT ![p] = 0]
    /\ alarm' = [alarm EXCEPT ![p] = 0]

\* acquire_node_id begins: the scan of the keys.
Scan(p) ==
    /\ pc[p] = "down"
    /\ pc' = [pc EXCEPT ![p] = "search"]
    /\ occupied' = [occupied EXCEPT ![p] = {n \in Nodes : Held(n)}]
    /\ UNCHANGED <<key, candidate, alarm, missed>>

\* The candidate was found occupied, or somebody has set its key since (SET
\* NX fails): the next one.
TryNext(p) ==
    /\ pc[p] = "search" /\ candidate[p] \in Nodes
    /\ candidate[p] \in occupied[p] \/ Held(candidate[p])
    /\ candidate' = [candidate EXCEPT ![p] = @ + 1]
    /\ UNCHANGED <<key, pc, occupied, alarm, missed>>

\* Variant with a bug: SET without NX.
RegisterOver(p) ==
    /\ pc[p] = "search" /\ candidate[p] \in Nodes
    /\ candidate[p] \notin occupied[p]
    /\ key' = [key EXCEPT ![candidate[p]] = [owner |-> p, ttl |-> TTL]]
    /\ pc' = [pc EXCEPT ![p] = "up"]
    /\ alarm' = [alarm EXCEPT ![p] = Interval]
    /\ occupied' = [occupied EXCEPT ![p] = {}]
    /\ UNCHANGED <<candidate, missed>>

\* SET NX EX succeeds; the heartbeat task is started.
Register(p) ==
    /\ pc[p] = "search" /\ candidate[p] \in Nodes
    /\ candidate[p] \notin occupied[p] /\ ~Held(candidate[p])
    /\ key' = [key EXCEPT ![candidate[p]] = [owner |-> p, ttl |-> TTL]]
    /\ pc' = [pc EXCEPT ![p] = "up"]
    /\ alarm' = [alarm EXCEPT ![p] = Interval]
    /\ occupied' = [occupied EXCEPT ![p] = {}]
    /\ UNCHANGED <<candidate, missed>>

\* Every node was tried: ServerError, and the process does not start.
NoneLeft(p) ==
    /\ pc[p] = "search" /\ candidate[p] \notin Nodes
    /\ Stop(p)
    /\ UNCHANGED <<key, missed>>

\* Variant with a bug: the heartbeat sleeps for the whole time to live.
HeartbeatLate(p) ==
    /\ pc[p] = "up" /\ alarm[p] = 0
    /\ key' = IF Held(candidate[p]) THEN [key EXCEPT ![candidate[p]].ttl = TTL] ELSE key
    /\ alarm' = [alarm EXCEPT ![p] = TTL]
    /\ UNCHANGED <<pc, occupied, candidate, missed>>

\* EXPIRE, which does nothing to a key that is gone and does not ask whose
\* it is; an exception is logged and the task goes on.
Heartbeat(p) ==
    /\ pc[p] = "up" /\ alarm[p] = 0
    /\ \/ /\ key' = IF Held(candidate[p]) THEN [key EXCEPT ![candidate[p]].ttl = TTL] ELSE key
          /\ UNCHANGED missed
       \/ /\ missed' = missed \cup {candidate[p]}
          /\ UNCHANGED key
    /\ alarm' = [alarm EXCEPT ![p] = Interval]
    /\ UNCHANGED <<pc, occupied, candidate>>

\* shutdown: the key is deleted, whoever set it.
Release(p) ==
    /\ pc[p] = "up"
    /\ key' = [key EXCEPT ![candidate[p]] = NoKey]
    /\ Stop(p)
    /\ UNCHANGED missed

Crash(p) ==
    /\ pc[p] # "down"
    /\ Stop(p)
    /\ UNCHANGED <<key, missed>>

\* Variant with a bug: a key without a time to live.
SecondWithoutExpiry ==
    /\ \A p \in Procs : pc[p] = "up" => alarm[p] > 0
    /\ alarm' = [p \in Procs |-> IF alarm[p] > 0 THEN alarm[p] - 1 ELSE 0]
    /\ UNCHANGED <<key, pc, occupied, candidate, missed>>

\* A second passes.  No heartbeat is late: the event loop is never blocked
\* for as long as a second.
Second ==
    /\ \A p \in Procs : pc[p] = "up" => alarm[p] > 0
    /\ key' = [n \in Nodes |-> IF key[n].ttl <= 1 THEN NoKey
                               ELSE [key[n] EXCEPT !.ttl = @ - 1]]
    /\ alarm' = [p \in Procs |-> IF alarm[p] > 0 THEN alarm[p] - 1 ELSE 0]
    /\ UNCHANGED <<pc, occupied, candidate, missed>>

Next ==
    \/ \E p \in Procs : \/ Scan(p) \/ TryNext(p) \/ Register(p) \/ NoneLeft(p)
                        \/ Heartbeat(p) \/ Release(p) \/ Crash(p)
    \/ Second

Spec == Init /\ [][Next]_vars

\* Time passes, and heartbeats are sent when they are due.
FairSpec == Spec /\ WF_vars(Second) /\ \A p \in Procs : WF_vars(Heartbeat(p))

-----------------------------------------------------------------------------

\* Every variable keeps its type.
TypeOK ==
    /\ key \in [Nodes -> [owner : Procs \cup {NoProc}, ttl : 0 .. TTL]]
    /\ pc \in [Procs -> {"down", "search", "up"}]
    /\ occupied \in [Procs -> SUBSET Nodes]
    /\ candidate \in [Procs -> 0 .. NodeCount]
    /\ alarm \in [Procs -> 0 .. Interval]
    /\ missed \subseteq Nodes
    /\ \A p \in Procs : pc[p] = "up" => candidate[p] \in Nodes

\* Two processes never generate ids for the same node at the same time,
\* whoever starts, stops and crashes in between, unless a heartbeat for that
\* very node has failed before: a failure spoils no other node.
NodesExclusive ==
    \A p, q \in Procs :
        p # q /\ pc[p] = "up" /\ pc[q] = "up" /\ candidate[p] = candidate[q]
            => candidate[p] \in missed

\* As long as no heartbeat for its node has failed, a running process has its
\* own key in Redis, with enough time left for the next heartbeat: nobody
\* else sets, deletes or outlives it.
LeaseHeld ==
    \A p \in Procs :
        pc[p] = "up" /\ candidate[p] \notin missed =>
            key[candidate[p]].owner = p /\ key[candidate[p]].ttl > alarm[p]

\* The node of a crashed process is free again some time later, unless
\* another process is running on it by then.
NodesComeBack ==
    \A n \in Nodes :
        Held(n) ~> ~Held(n) \/ \E p \in Procs : pc[p] = "up" /\ candidate[p] = n

=============================================================================
