---------------------------- MODULE LaggingReads ----------------------------
(***************************************************************************)
(* What a cache may promise: a register whose readers are behind its       *)
(* writers, by at most Lag moments.                                        *)
(***************************************************************************)
EXTENDS Integers

CONSTANTS
    Lag,            \* how long a reader may get a value that was replaced
    LastVersion     \* bound: writes

VARIABLES
    version,        \* the version in the register
    replaced,       \* how long ago each older one was replaced
    answer          \* what the last reader got

vars == <<version, replaced, answer>>

Init == version = 0 /\ replaced = [v \in 0..LastVersion |-> 0] /\ answer = 0

Write ==
    /\ version < LastVersion
    /\ version' = version + 1
    /\ replaced' = [replaced EXCEPT ![version] = 0]
    /\ UNCHANGED answer

Read ==
    /\ \E v \in 0..version : (v = version \/ replaced[v] <= Lag) /\ answer' = v
    /\ UNCHANGED <<version, replaced>>

\* Ages stop where they make no difference any more.
Moment ==
    /\ replaced' = [v \in 0..LastVersion |->
                       IF v < version /\ replaced[v] <= Lag THEN replaced[v] + 1 ELSE replaced[v]]
    /\ UNCHANGED <<version, answer>>

Next == Write \/ Read \/ Moment

Spec == Init /\ [][Next]_vars

=============================================================================
