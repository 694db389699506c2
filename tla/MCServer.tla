------------------------------ MODULE MCServer ------------------------------
(***************************************************************************)
(* Parts of the server that share no state, in one run: its ids, its       *)
(* two-level cache, its operation log and its plugins.  A behaviour        *)
(* follows one of them.                                                    *)
(***************************************************************************)
EXTENDS Snowflake, TLC

CONSTANTS Nodes, Readers, LocalTTL, RedisTTL, Hold, MaxWrites, MaxFaults,
          Requests, QueueSize, BatchSize, MaxStops, MaxFailures,
          Plugins, Apps, Processes, Jobs, Toggles, MaxStarts

\* Times, and numbers of writes.
ASSUME TimesAreNatural ==
    LocalTTL \in Nat /\ RedisTTL \in Nat /\ Hold \in Nat /\ MaxWrites \in Nat

VARIABLES part,
          row, writer, matching, local, redis, channel, listening, call,
          answer, replaced, overlap, faults,
          request, failed, queue, batch, table, stops, failures, lost, deleted,
          dir, router, status, changed, lock, lockFile, event, job, toggle,
          worker, starts, hidden, overrun, answered, raced

Cache == INSTANCE TwoLevelCache
Log == INSTANCE OperaLog
AddOns == INSTANCE Plugins WITH Workers <- Processes

\* The lock's holder is a job or nobody; a plugin and an application have
\* directories of their own.
ASSUME NamesAreDistinct == AddOns!Nobody \notin Jobs /\ Plugins \cap Apps = {}

idVars == <<clock, last_timestamp, sequence, waiting, ids>>
cacheVars == <<row, writer, matching, local, redis, channel, listening, call,
               answer, replaced, overlap, faults>>
logVars == <<request, failed, queue, batch, table, stops, failures, lost, deleted>>
pluginVars == <<dir, router, status, changed, lock, lockFile, event, job, toggle,
                worker, starts, hidden, overrun, answered, raced>>

ServerInit ==
    /\ Init /\ Cache!Init /\ Log!Init /\ AddOns!Init
    /\ part \in {"ids", "log", "plugins", "cache"} /\ (part = "cache" \/ matching)

ServerNext ==
    /\ UNCHANGED part
    /\ \/ part = "ids" /\ Next /\ UNCHANGED <<cacheVars, logVars, pluginVars>>
       \/ part = "cache" /\ Cache!Next /\ UNCHANGED <<idVars, logVars, pluginVars>>
       \/ part = "log" /\ Log!Next /\ UNCHANGED <<idVars, cacheVars, pluginVars>>
       \/ part = "plugins" /\ AddOns!Next /\ UNCHANGED <<idVars, cacheVars, logVars>>

\* The properties of the parts.
ReadsLag == Cache!ReadsLag
CopiesAgree == Cache!CopiesAgree
LoggedOnce == Log!LoggedOnce
ChangesAreFlagged == AddOns!ChangesAreFlagged
TogglesCount == AddOns!TogglesCount
WritersAreSpared == AddOns!WritersAreSpared

\* Calls, jobs and workers are alike.
Alike == Permutations(Readers) \cup Permutations(Jobs) \cup Permutations(Processes)

=============================================================================
