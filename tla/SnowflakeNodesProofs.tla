------------------------ MODULE SnowflakeNodesProofs ------------------------
(***************************************************************************)
(* Proofs about SnowflakeNodes.  As long as no heartbeat for a node fails, *)
(* a process that runs on it finds its own key in Redis with time to       *)
(* spare, and since a key has one owner, no two processes run on it.       *)
(***************************************************************************)
EXTENDS SnowflakeNodes, TLAPS

IInv == TypeOK /\ LeaseHeld

LEMMA LeasesExclude == TypeOK /\ LeaseHeld => NodesExclusive
  BY DEF TypeOK, LeaseHeld, NodesExclusive

LEMMA InitIInv == Init => IInv
  BY NodesAssumption DEF Init, IInv, TypeOK, LeaseHeld, NoKey

\* A key keeps its type when only its time to live changes.
LEMMA NewTtl ==
    ASSUME NEW O, NEW T, NEW k \in [owner : O, ttl : T], NEW t \in T
    PROVE  [k EXCEPT !.ttl = t] \in [owner : O, ttl : T]
  OBVIOUS

\* The types are kept, one action at a time.
LEMMA StepType == TypeOK /\ LeaseHeld /\ [Next]_vars => TypeOK'
<1> SUFFICES ASSUME TypeOK, LeaseHeld, [Next]_vars PROVE TypeOK'
  OBVIOUS
<1> USE NodesAssumption DEF TypeOK, Nodes
<1> DEFINE KeyType == [owner : Procs \cup {NoProc}, ttl : 0 .. TTL]
<1>k. NoKey \in KeyType
  BY DEF NoKey
<1>s. ASSUME NEW p \in Procs, Stop(p), key' \in [Nodes -> KeyType], missed' = missed
      PROVE  TypeOK'
  <2>1. /\ pc' \in [Procs -> {"down", "search", "up"}]
        /\ \A q \in Procs : pc'[q] = "up" => q # p /\ pc[q] = "up"
    BY <1>s DEF Stop
  <2>2. occupied' \in [Procs -> SUBSET Nodes]
    BY <1>s DEF Stop
  <2>3. /\ candidate' \in [Procs -> 0 .. NodeCount]
        /\ \A q \in Procs : q # p => candidate'[q] = candidate[q]
    BY <1>s DEF Stop
  <2>4. alarm' \in [Procs -> 0 .. Interval]
    BY <1>s DEF Stop
  <2>5. \A q \in Procs : pc'[q] = "up" => candidate'[q] \in Nodes
    BY <2>1, <2>3
  <2>6. QED  BY <1>s, <2>1, <2>2, <2>3, <2>4, <2>5
<1>1. ASSUME NEW p \in Procs, Scan(p) PROVE TypeOK'
  BY <1>1 DEF Scan
<1>2. ASSUME NEW p \in Procs, TryNext(p) PROVE TypeOK'
  <2>1. candidate[p] + 1 \in 0 .. NodeCount /\ pc[p] # "up"
    BY <1>2 DEF TryNext
  <2>2. \A q \in Procs : pc'[q] = "up" => candidate'[q] = candidate[q]
    BY <1>2, <2>1 DEF TryNext
  <2>3. candidate' \in [Procs -> 0 .. NodeCount]
    BY <1>2, <2>1 DEF TryNext
  <2>4. QED  BY <1>2, <2>2, <2>3 DEF TryNext
<1>3. ASSUME NEW p \in Procs, Register(p) PROVE TypeOK'
  <2>1. [owner |-> p, ttl |-> TTL] \in KeyType
    OBVIOUS
  <2>2. QED  BY <1>3, <2>1 DEF Register
<1>4. ASSUME NEW p \in Procs, NoneLeft(p) PROVE TypeOK'
  BY <1>4, <1>s DEF NoneLeft
<1>5. ASSUME NEW p \in Procs, Heartbeat(p) PROVE TypeOK'
  <2>1. key' \in [Nodes -> KeyType]
    <3>1. TTL \in 0 .. TTL /\ candidate[p] \in Nodes /\ key[candidate[p]] \in KeyType
      BY <1>5 DEF Heartbeat
    <3>2. [key[candidate[p]] EXCEPT !.ttl = TTL] \in KeyType
      BY <3>1, NewTtl
    <3>3. QED  BY <1>5, <3>1, <3>2 DEF Heartbeat
  <2>2. QED  BY <1>5, <2>1 DEF Heartbeat
<1>6. ASSUME NEW p \in Procs, Release(p) PROVE TypeOK'
  <2>1. key' \in [Nodes -> KeyType]
    BY <1>6, <1>k DEF Release
  <2>2. QED  BY <1>6, <2>1, <1>s DEF Release
<1>7. ASSUME NEW p \in Procs, Crash(p) PROVE TypeOK'
  BY <1>7, <1>s DEF Crash
<1>8. CASE Second
  <2>1. key' \in [Nodes -> KeyType]
    <3> SUFFICES ASSUME NEW n \in Nodes PROVE key'[n] \in KeyType
      BY <1>8 DEF Second
    <3>1. CASE key[n].ttl <= 1
      BY <1>8, <1>k, <3>1 DEF Second
    <3>2. CASE ~(key[n].ttl <= 1)
      <4>1. key[n] \in KeyType /\ key[n].ttl - 1 \in 0 .. TTL
        BY <3>2
      <4>2. [key[n] EXCEPT !.ttl = key[n].ttl - 1] \in KeyType
        BY <4>1, NewTtl
      <4>3. QED  BY <1>8, <3>2, <4>2 DEF Second
    <3>3. QED  BY <3>1, <3>2
  <2>2. QED  BY <1>8, <2>1 DEF Second
<1>9. CASE UNCHANGED vars
  BY <1>9 DEF vars
<1>10. QED
  BY <1>1, <1>2, <1>3, <1>4, <1>5, <1>6, <1>7, <1>8, <1>9 DEF Next

\* So are the leases, of nodes for which no heartbeat has failed.
LEMMA StepLease == IInv /\ [Next]_vars => LeaseHeld'
<1> SUFFICES ASSUME TypeOK, LeaseHeld, [Next]_vars PROVE LeaseHeld'
  BY DEF IInv
<1> USE NodesAssumption DEF TypeOK, Nodes, LeaseHeld
<1>1. ASSUME NEW p \in Procs, Scan(p) PROVE LeaseHeld'
  BY <1>1 DEF Scan
<1>2. ASSUME NEW p \in Procs, TryNext(p) PROVE LeaseHeld'
  BY <1>2 DEF TryNext
<1>3. ASSUME NEW p \in Procs, Register(p) PROVE LeaseHeld'
  <2> SUFFICES ASSUME NEW q \in Procs, pc'[q] = "up", candidate'[q] \notin missed'
               PROVE  /\ key'[candidate'[q]].owner = q
                      /\ key'[candidate'[q]].ttl > alarm'[q]
    OBVIOUS
  <2>1. CASE q = p
    BY <1>3, <2>1 DEF Register
  <2>2. CASE q # p
    <3>1. /\ pc[q] = "up" /\ candidate'[q] = candidate[q] /\ alarm'[q] = alarm[q]
          /\ candidate[q] \notin missed
          /\ key[candidate[q]].owner = q /\ key[candidate[q]].ttl > alarm[q]
      BY <1>3, <2>2 DEF Register
    <3>2. candidate[q] # candidate[p]
      BY <1>3, <3>1 DEF Register, Held
    <3>3. key'[candidate[q]] = key[candidate[q]]
      BY <1>3, <3>1, <3>2 DEF Register
    <3>4. QED  BY <3>1, <3>3
  <2>3. QED  BY <2>1, <2>2
<1>4. ASSUME NEW p \in Procs, NoneLeft(p) PROVE LeaseHeld'
  BY <1>4 DEF NoneLeft, Stop
<1>5. ASSUME NEW p \in Procs, Heartbeat(p) PROVE LeaseHeld'
  <2> SUFFICES ASSUME NEW q \in Procs, pc'[q] = "up", candidate'[q] \notin missed'
               PROVE  /\ key'[candidate'[q]].owner = q
                      /\ key'[candidate'[q]].ttl > alarm'[q]
    OBVIOUS
  <2>1. /\ pc[q] = "up" /\ candidate'[q] = candidate[q] /\ candidate[q] \notin missed
        /\ key[candidate[q]].owner = q /\ key[candidate[q]].ttl > alarm[q]
    BY <1>5 DEF Heartbeat
  <2>2. CASE q = p
    <3>1. Held(candidate[p]) /\ key' = [key EXCEPT ![candidate[p]].ttl = TTL]
      BY <1>5, <2>1, <2>2 DEF Heartbeat, Held
    <3>2. QED  BY <1>5, <2>1, <2>2, <3>1 DEF Heartbeat
  <2>3. CASE q # p
    <3>1. alarm'[q] = alarm[q] /\ alarm[q] <= TTL
      BY <1>5, <2>3 DEF Heartbeat
    <3>2. CASE key' = key
      BY <2>1, <3>1, <3>2
    <3>3. CASE key' = [key EXCEPT ![candidate[p]].ttl = TTL]
      <4>1. key'[candidate[q]].owner = q
        BY <2>1, <3>3
      <4>2. key'[candidate[q]].ttl \in {key[candidate[q]].ttl, TTL}
        BY <2>1, <3>3
      <4>3. alarm[q] <= Interval
        OBVIOUS
      <4>4. QED  BY <2>1, <3>1, <4>1, <4>2, <4>3
    <3>4. QED  BY <1>5, <3>2, <3>3 DEF Heartbeat
  <2>4. QED  BY <2>2, <2>3
<1>6. ASSUME NEW p \in Procs, Release(p) PROVE LeaseHeld'
  BY <1>6 DEF Release, Stop
<1>7. ASSUME NEW p \in Procs, Crash(p) PROVE LeaseHeld'
  BY <1>7 DEF Crash, Stop
<1>8. CASE Second
  <2> SUFFICES ASSUME NEW q \in Procs, pc'[q] = "up", candidate'[q] \notin missed'
               PROVE  /\ key'[candidate'[q]].owner = q
                      /\ key'[candidate'[q]].ttl > alarm'[q]
    OBVIOUS
  <2>1. /\ pc[q] = "up" /\ candidate[q] \in Nodes /\ candidate'[q] = candidate[q]
        /\ alarm[q] > 0 /\ alarm'[q] = alarm[q] - 1
    BY <1>8 DEF Second
  <2>2. key[candidate[q]].owner = q /\ key[candidate[q]].ttl > alarm[q]
    BY <1>8, <2>1 DEF Second
  <2>3. key'[candidate[q]] = [key[candidate[q]] EXCEPT !.ttl = @ - 1]
    BY <1>8, <2>1, <2>2 DEF Second
  <2>4. QED  BY <2>1, <2>2, <2>3
<1>9. CASE UNCHANGED vars
  BY <1>9 DEF vars
<1>10. QED
  BY <1>1, <1>2, <1>3, <1>4, <1>5, <1>6, <1>7, <1>8, <1>9 DEF Next

THEOREM Inductive == Spec => []IInv
<1>1. IInv /\ [Next]_vars => IInv'
  BY StepType, StepLease DEF IInv
<1>2. QED  BY InitIInv, <1>1, PTL DEF Spec

\* Every running process keeps its key until a heartbeat for its node fails,
\* for any number of processes and nodes and any times with Interval < TTL.
THEOREM LeasesAreHeld == Spec => []LeaseHeld
<1>1. IInv => LeaseHeld
  BY DEF IInv
<1>2. QED  BY <1>1, Inductive, PTL

\* No two running processes have the same node before a heartbeat for it
\* fails, whatever happens to other nodes.
THEOREM NodesAreExclusive == Spec => []NodesExclusive
<1>1. IInv => NodesExclusive
  BY LeasesExclude DEF IInv
<1>2. QED  BY <1>1, Inductive, PTL

=============================================================================
