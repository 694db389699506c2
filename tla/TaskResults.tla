---------------------------- MODULE TaskResults ----------------------------
(***************************************************************************)
(* The row of a Celery task in task_result: the attempts at the task, on   *)
(* any worker, each of which stores STARTED and then how it ended through  *)
(* DatabaseBackend, the messages that carry the attempts, and the          *)
(* deletions of the row.  What Celery and its broker do around it          *)
(* (delivery, the order of the stores and hooks of an attempt) is external. *)
(***************************************************************************)
EXTENDS Integers

CONSTANTS
    Executors,      \* worker processes
    MaxRetries,     \* CELERY_TASK_MAX_RETRIES
    StoreTries,     \* max_retries of celery's @retry
    MaxAgain,       \* bound: messages delivered twice
    MaxErrors,      \* bound: errors of the result database
    MaxDeletions    \* bound: deletions of the row

VARIABLES
    messages,       \* the attempts that wait to be delivered
    attempt,        \* what each worker does
    result,         \* the row: its status, or none
    revoked,        \* whether an administrator has revoked the task
    again, errors, deletions,
    (* history *)
    outcome,        \* how the last attempt ended
    excused         \* the row was deleted or not stored, a worker died, or two
                    \* workers had the task together

vars == <<messages, attempt, result, revoked, again, errors, deletions, outcome, excused>>

Idle == [pc |-> "idle", try |-> 0, store |-> "none", found |-> FALSE, left |-> 0]

Init ==
    /\ messages = {0}
    /\ attempt = [w \in Executors |-> Idle]
    /\ result = "none" /\ revoked = FALSE
    /\ again = 0 /\ errors = 0 /\ deletions = 0
    /\ outcome = "none" /\ excused = FALSE

bounds == <<again, errors, deletions>>
Store(w, state) ==
    attempt' = [attempt EXCEPT ![w].pc = "select", ![w].store = state, ![w].found = FALSE, ![w].left = StoreTries]

-----------------------------------------------------------------------------
(* The broker.                                                             *)

\* A worker takes the message, unless it is delivered once more later; the
\* attempts at a revoked task are only recorded.
Receive(w, try) ==
    /\ attempt[w] = Idle /\ try \in messages
    /\ \/ messages' = messages \ {try} /\ UNCHANGED again
       \/ again < MaxAgain /\ again' = again + 1 /\ UNCHANGED messages
    /\ attempt' = [attempt EXCEPT ![w] =
                      [pc |-> "select", try |-> try, found |-> FALSE, left |-> StoreTries,
                       store |-> IF revoked THEN "REVOKED" ELSE "STARTED"]]
    /\ excused' = (excused \/ again' # again \/ \E v \in Executors \ {w} : attempt[v] # Idle)
    /\ UNCHANGED <<result, revoked, errors, deletions, outcome>>

RevokeTask ==
    /\ revoked' = TRUE /\ ~revoked
    /\ UNCHANGED <<messages, attempt, result, bounds, outcome, excused>>

-----------------------------------------------------------------------------
(* _store_result.                                                          *)

Select(w) ==
    /\ attempt[w].pc = "select"
    /\ attempt' = [attempt EXCEPT ![w].pc = "write", ![w].found = (result # "none")]
    /\ UNCHANGED <<messages, result, revoked, bounds, outcome, excused>>

\* Where an attempt goes on when its state is stored.
After(state) == IF state = "STARTED" THEN "hook" ELSE "idle"

\* _update_result
Stored(w) ==
    /\ result' = attempt[w].store
    /\ outcome' = IF attempt[w].store = "STARTED" THEN outcome ELSE attempt[w].store
    /\ attempt' = [attempt EXCEPT ![w] = IF After(@.store) = "idle" THEN Idle ELSE [@ EXCEPT !.pc = "hook"]]

\* Variation: a row that is there already is left as it is.
WriteNewOnly(w) ==
    /\ attempt[w].pc = "write" /\ attempt[w].found = (result # "none")
    /\ outcome' = IF attempt[w].store = "STARTED" THEN outcome ELSE attempt[w].store
    /\ result' = IF attempt[w].found THEN result ELSE attempt[w].store
    /\ attempt' = [attempt EXCEPT ![w] = IF After(@.store) = "idle" THEN Idle ELSE [@ EXCEPT !.pc = "hook"]]
    /\ UNCHANGED <<messages, revoked, bounds, excused>>

Write(w) ==
    /\ attempt[w].pc = "write" /\ attempt[w].found = (result # "none")
    /\ Stored(w)
    /\ UNCHANGED <<messages, revoked, bounds, excused>>

\* The row it found is gone, or another worker has inserted it (task_id is
\* UNIQUE), or the database fails: all over again, as often as retry allows.
StoreFails(w) ==
    /\ attempt[w].pc = "write"
    /\ \/ attempt[w].found # (result # "none") /\ UNCHANGED errors
       \/ errors < MaxErrors /\ errors' = errors + 1
    /\ IF attempt[w].left > 0
       THEN attempt' = [attempt EXCEPT ![w].pc = "select", ![w].left = @ - 1] /\ UNCHANGED excused
       ELSE attempt' = [attempt EXCEPT ![w] = Idle] /\ excused' = TRUE
    /\ UNCHANGED <<messages, result, revoked, again, deletions, outcome>>

-----------------------------------------------------------------------------
(* The task.                                                               *)

\* before_start: a notification that cannot be sent fails the attempt.
BeforeStart(w) ==
    /\ attempt[w].pc = "hook"
    /\ attempt' = [attempt EXCEPT ![w].pc = "run"] \/ Store(w, "FAILURE")
    /\ UNCHANGED <<messages, result, revoked, bounds, outcome, excused>>

Succeeds(w) ==
    /\ attempt[w].pc = "run" /\ Store(w, "SUCCESS")
    /\ UNCHANGED <<messages, result, revoked, bounds, outcome, excused>>

\* autoretry_for: the next attempt is sent before this one is recorded.
Retries(w) ==
    /\ attempt[w].pc = "run" /\ attempt[w].try < MaxRetries
    /\ messages' = messages \cup {attempt[w].try + 1}
    /\ Store(w, "RETRY")
    /\ UNCHANGED <<result, revoked, bounds, outcome, excused>>

\* Another error, or one more of the database than it may retry.
Fails(w) ==
    /\ attempt[w].pc = "run" /\ Store(w, "FAILURE")
    /\ UNCHANGED <<messages, result, revoked, bounds, outcome, excused>>

\* The message was acknowledged before, so nobody tries again.
Dies(w) ==
    /\ attempt[w] # Idle
    /\ attempt' = [attempt EXCEPT ![w] = Idle]
    /\ excused' = TRUE
    /\ UNCHANGED <<messages, result, revoked, bounds, outcome>>

\* An administrator deletes the row, or the daily cleanup finds it expired.
DeleteRow ==
    /\ result # "none" /\ deletions < MaxDeletions
    /\ result' = "none" /\ deletions' = deletions + 1
    /\ UNCHANGED <<messages, attempt, revoked, again, errors, outcome, excused>>

Next ==
    \/ \E w \in Executors :
           \/ \E try \in messages : Receive(w, try)
           \/ Select(w) \/ Write(w) \/ StoreFails(w)
           \/ BeforeStart(w) \/ Succeeds(w) \/ Retries(w) \/ Fails(w) \/ Dies(w)
    \/ RevokeTask \/ DeleteRow

Spec == Init /\ [][Next]_vars

-----------------------------------------------------------------------------
(* Properties.                                                             *)

\* Once nobody has the task nor will be sent it, its row tells how the last
\* attempt ended, whatever rows were deleted and inserted under the stores
\* (database.py:66), unless the row is deleted, a store gave up, a worker died
\* or two workers had the task together.
OutcomeIsTold ==
    messages = {} /\ (\A w \in Executors : attempt[w] = Idle) =>
        result \in {outcome, "none"} \/ excused

=============================================================================
