------------------------------ MODULE MCTasks ------------------------------
(***************************************************************************)
(* The two halves of app/task, which share no state, in one run: the       *)
(* schedule that beat reads, and the results that the workers write.       *)
(***************************************************************************)
EXTENDS MCBeatScheduler

CONSTANTS Executors, MaxRetries, StoreTries, MaxAgain, MaxErrors, MaxDeletions

VARIABLES part, messages, attempt, result, revoked, again, errors, deletions,
          outcome, excused

Results == INSTANCE TaskResults

resultVars == <<messages, attempt, result, revoked, again, errors, deletions, outcome, excused>>

TasksInit == part \in {"schedule", "results"} /\ Init /\ Results!Init
             /\ (part = "results" => task = Periodic)

TasksNext ==
    /\ UNCHANGED part
    /\ (part = "schedule" /\ Next) \/ (part # "schedule" /\ UNCHANGED vars)
    /\ (part = "results" /\ Results!Next) \/ (part # "results" /\ UNCHANGED resultVars)

TasksSpec == TasksInit /\ [][TasksNext]_<<part, vars, resultVars>>

OutcomeIsTold == Results!OutcomeIsTold

\* Beats, and workers, are alike.
Alike == Permutations(Beats) \cup Permutations(Executors)

=============================================================================
