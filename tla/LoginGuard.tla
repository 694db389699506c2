----------------------------- MODULE LoginGuard -----------------------------
(***************************************************************************)
(* The failure counter and the lock of one user in Redis                   *)
(* (admin/service/user_password_history_service.py), around the check of   *)
(* the password in auth_service.user_verify.  Attempts run concurrently;   *)
(* each action ends at the next Redis command or SQL statement.            *)
(***************************************************************************)
EXTENDS Integers, FiniteSets

CONSTANTS
    Attempts,       \* slots for concurrent login attempts
    Threshold,      \* USER_LOCK_THRESHOLD
    LockSeconds,    \* USER_LOCK_SECONDS
    MaxDeaths       \* bound: attempts that die

ASSUME LoginGuardAssumption ==
    /\ IsFiniteSet(Attempts)
    /\ Threshold \in Nat /\ LockSeconds \in Nat \ {0} /\ MaxDeaths \in Nat

VARIABLES
    failures,       \* LOGIN_FAILURE_PREFIX: its count and seconds to live
    lock,           \* USER_LOCK_REDIS_PREFIX: seconds to live and seconds to its time
    pc, seen,       \* of each attempt; seen is the count it has read
    (* history *)
    wrong,          \* wrong passwords tried since the counter was last removed
    overtaken,      \* attempts that were let through before the lock was set
    deaths

vars == <<failures, lock, pc, seen, wrong, overtaken, deaths>>

Gone == [count |-> 0, left |-> 0]
NoLock == [left |-> 0, held |-> 0]
Locked == lock.held > 0

TypeOK ==
    /\ failures \in [count : 0 .. Threshold, left : 0 .. LockSeconds]
    /\ failures.left = 0 => failures = Gone
    /\ lock \in [left : 0 .. LockSeconds, held : 0 .. LockSeconds]
    /\ lock.held <= lock.left
    /\ pc \in [Attempts -> {"idle", "clear", "reset", "verify", "failed", "count",
                            "lock", "release", "forget"}]
    /\ seen \in [Attempts -> 0 .. Threshold]
    /\ wrong \in Nat /\ overtaken \subseteq Attempts /\ deaths \in 0 .. MaxDeaths

Init ==
    /\ failures = Gone /\ lock = NoLock
    /\ pc = [a \in Attempts |-> "idle"] /\ seen = [a \in Attempts |-> 0]
    /\ wrong = 0 /\ overtaken = {} /\ deaths = 0

Goto(a, l) == pc' = [pc EXCEPT ![a] = l]
\* The attempt is over, with or without an answer to its client.
Leave(a) == Goto(a, "idle") /\ overtaken' = overtaken \ {a}

\* Variant with a bug: it is the lock still in force that is cleared.
CheckStatusInverted(a) ==
    /\ pc[a] = "idle"
    /\ Goto(a, IF Locked THEN "clear" ELSE "verify")
    /\ UNCHANGED <<failures, lock, seen, wrong, overtaken, deaths>>

\* Variant with a bug: trying a locked account prolongs its lock.
CheckStatusProlonging(a) ==
    /\ pc[a] = "idle"
    /\ \/ /\ Locked
          /\ lock' = [left |-> LockSeconds, held |-> LockSeconds]
          /\ UNCHANGED pc
       \/ /\ ~Locked
          /\ Goto(a, "verify")
          /\ UNCHANGED lock
    /\ UNCHANGED <<failures, seen, wrong, overtaken, deaths>>

\* check_status: the lock refuses until its time, which is rounded down to
\* seconds; the key itself may outlive it.
CheckStatus(a) ==
    /\ pc[a] = "idle"
    /\ \/ /\ Locked
          /\ UNCHANGED pc
       \/ /\ lock.left > 0 /\ ~Locked
          /\ Goto(a, "clear")
       \/ /\ lock.left = 0
          /\ Goto(a, "verify")
    /\ UNCHANGED <<failures, lock, seen, wrong, overtaken, deaths>>

\* A lock whose time has come is removed, and the counter after it.  The same
\* two commands follow a successful login: handle_login_success.
RemoveLock(a) ==
    /\ \/ pc[a] = "clear" /\ Goto(a, "reset")
       \/ pc[a] = "release" /\ Goto(a, "forget")
    /\ lock' = NoLock
    /\ UNCHANGED <<failures, seen, wrong, overtaken, deaths>>

RemoveCounter(a) ==
    /\ \/ pc[a] = "reset" /\ Goto(a, "verify") /\ UNCHANGED overtaken
       \/ pc[a] = "forget" /\ Leave(a)
    /\ failures' = Gone
    /\ wrong' = 0
    /\ UNCHANGED <<lock, seen, deaths>>

\* user_verify compares the password; a right one that has expired
\* (check_password_expiry_status) is refused and clears nothing.
Verify(a) ==
    /\ pc[a] = "verify"
    /\ \/ /\ wrong' = wrong + 1
          /\ Goto(a, "failed")
          /\ UNCHANGED overtaken
       \/ /\ UNCHANGED wrong
          /\ \/ Leave(a)
             \/ Goto(a, "release") /\ UNCHANGED overtaken
    /\ UNCHANGED <<failures, lock, seen, deaths>>

\* Variant with a bug: the counter begins again with every failure.
ReadCountAnew(a) ==
    /\ pc[a] = "failed"
    /\ seen' = [seen EXCEPT ![a] = 0]
    /\ Goto(a, "count")
    /\ UNCHANGED <<failures, lock, wrong, overtaken, deaths>>

\* handle_login_failure: GET, ...
ReadCount(a) ==
    /\ pc[a] = "failed"
    /\ \/ /\ Threshold = 0
          /\ Leave(a)
          /\ UNCHANGED seen
       \/ /\ Threshold > 0
          /\ seen' = [seen EXCEPT ![a] = failures.count]
          /\ Goto(a, "count")
          /\ UNCHANGED overtaken
    /\ UNCHANGED <<failures, lock, wrong, deaths>>

\* The count is compared with the threshold only and stops there.
More(n) == IF n + 1 < Threshold THEN n + 1 ELSE Threshold

\* ... SETEX of one more, whatever was written in between, ...
WriteCount(a) ==
    /\ pc[a] = "count"
    /\ failures' = [count |-> More(seen[a]), left |-> LockSeconds]
    /\ IF More(seen[a]) = Threshold THEN Goto(a, "lock") /\ UNCHANGED overtaken ELSE Leave(a)
    /\ UNCHANGED <<lock, seen, wrong, deaths>>

\* ... and the lock.
SetLock(a) ==
    /\ pc[a] = "lock"
    /\ \E held \in {LockSeconds - 1, LockSeconds} : lock' = [left |-> LockSeconds, held |-> held]
    /\ overtaken' = {b \in Attempts \ {a} : pc[b] # "idle"}
    /\ wrong' = 0
    /\ Goto(a, "idle")
    /\ UNCHANGED <<failures, seen, deaths>>

\* An error, or a client that leaves: what was written stays.
Die(a) ==
    /\ deaths < MaxDeaths
    /\ pc[a] # "idle"
    /\ deaths' = deaths + 1
    /\ Leave(a)
    /\ UNCHANGED <<failures, lock, seen, wrong>>

\* A second passes; keys expire.
Down(n) == IF n > 0 THEN n - 1 ELSE 0
Second ==
    /\ failures' = IF failures.left > 1 THEN [failures EXCEPT !.left = @ - 1] ELSE Gone
    /\ lock' = [left |-> Down(lock.left), held |-> Down(lock.held)]
    /\ wrong' = IF failures.left > 1 THEN wrong ELSE 0
    /\ UNCHANGED <<pc, seen, overtaken, deaths>>

Step(a) ==
    \/ CheckStatus(a) \/ RemoveLock(a) \/ RemoveCounter(a) \/ Verify(a)
    \/ ReadCount(a) \/ WriteCount(a) \/ SetLock(a)
Next == (\E a \in Attempts : Step(a) \/ Die(a)) \/ Second

\* Seconds pass and requests go on; nobody has to try.
Fairness ==
    /\ WF_vars(Second)
    /\ \A a \in Attempts : WF_vars(pc[a] # "idle" /\ Step(a))
Spec == Init /\ [][Next]_vars /\ Fairness

-----------------------------------------------------------------------------
(* Properties.                                                             *)

\* The counter is read and written back by separate commands
\* (handle_login_failure), so that a slow attempt undoes the failures counted
\* since it read.  Two attempts at a time can try as many wrong passwords on
\* one counter as there are failures to undo at each count, one more that is
\* still uncounted, and one for every attempt that dies.
GuessesBounded == wrong <= (Threshold * (Threshold + 1)) \div 2 + 1 + deaths

\* A lock in force is removed only by an attempt that check_status let through
\* before the lock was set.
LockRemovedByOvertaken ==
    [][Locked /\ lock' = NoLock /\ lock.left > 1 => \E a \in overtaken : pc'[a] # pc[a]]_vars

\* A locked user can try again some day, however often it is tried meanwhile.
LockIsLifted == lock.left > 0 ~> ~Locked

=============================================================================
