--------------------------- MODULE BeatScheduler ---------------------------
(***************************************************************************)
(* Celery beat with its schedule in the database                           *)
(* (app/task/utils/schedulers.py, model/scheduler.py): one task, the beat  *)
(* processes that may run it, the lock between them, and administrators    *)
(* who change the row.  Time is counted in moments, PerSecond to a second. *)
(***************************************************************************)
EXTENDS Integers, FiniteSets

CONSTANTS
    Beats,          \* beat processes
    PerSecond,      \* moments of a second
    Interval,       \* interval_every of the task, in moments
    Tasks,          \* what the task may be, a set of records: once (one_off),
                    \* started (it has a start_time, in the past), configured
                    \* (beat_schedule of the settings names it)
    LockTimeout,    \* DEFAULT_MAX_LOCK_TIMEOUT, in moments
    MaxTime,        \* bound: moments
    MaxRuns,        \* bound: runs of the task
    MaxChanges,     \* bound: changes by administrators
    MaxFaults       \* bound: failed saves and crashes

\* A lock lasts for some time, and no process is called Never.
ASSUME BeatAssumption ==
    /\ PerSecond \in Nat \ {0} /\ LockTimeout \in Nat \ {0} /\ MaxChanges \in Nat
    /\ -1 \notin Beats

VARIABLES
    now,
    task,           \* one of Tasks
    row,            \* the committed row
    change,         \* an administrator's row that is not committed yet
    stamping,       \* calls of update_changed_async that wait to be run
    stamp,          \* last_update in Redis: a second
    lock,           \* beat_lock in Redis
    pc, plan,       \* each beat's place, and its _schedule (the entry, or none)
    dirty,          \* whether the entry is in _dirty
    checked,        \* _last_update: when the beat last looked at the stamp, of
                    \* which only the second can tell, the stamp having no more
    return,         \* where a save goes on
    (* history *)
    runs, ranAt,    \* runs of the task, the moment of the last
    faults,
    upset,          \* whether something happened that can lose a run
    blind,          \* the last change was stamped before its commit or in a
                    \* second in which a beat had looked already
    looked,         \* beats that have looked at the stamp since it was written,
                    \* unless the change is blind
    late            \* beats whose lock ran out in the middle of a tick

store == <<row, change, stamping, stamp>>
beat == <<pc, plan, dirty, checked, return>>
history == <<runs, ranAt, faults, upset, blind, looked, late>>
vars == <<now, task, store, lock, beat, history>>

Never == -1
NoEntry == [version |-> Never, enabled |-> FALSE, once |-> FALSE, count |-> 0, last |-> Never]
NoRow == [version |-> Never, enabled |-> FALSE]
Free == [owner |-> Never, left |-> 0]

\* timezone.to_str leaves nothing below the second.
Second(t) == (t \div PerSecond) * PerSecond

Init ==
    /\ now = 0
    /\ task \in Tasks
    /\ row = [version |-> 0, enabled |-> TRUE, once |-> task.once, count |-> 0, last |-> Never]
    /\ change = NoRow /\ stamping = 0 /\ stamp = Never /\ lock = Free
    /\ pc = [b \in Beats |-> "down"] /\ plan = [b \in Beats |-> NoEntry]
    /\ dirty = [b \in Beats |-> FALSE] /\ checked = [b \in Beats |-> Never]
    /\ return = [b \in Beats |-> "idle"]
    /\ runs = 0 /\ ranAt = Never /\ faults = 0 /\ upset = FALSE /\ blind = FALSE /\ looked = {} /\ late = {}

-----------------------------------------------------------------------------
(* Administrators: scheduler_service and its events.                       *)

\* update and update_status flush at the end of the request; the listener
\* of the flush makes a task of the stamp, which races the commit.
Flush ==
    /\ change = NoRow
    /\ row.version < MaxChanges
    /\ \E enabled \in BOOLEAN :
           change' = [version |-> row.version + 1, enabled |-> enabled]
    /\ stamping' = stamping + 1
    /\ UNCHANGED <<now, task, row, stamp, lock, beat, history>>

CommitChange ==
    /\ change # NoRow
    /\ row' = [row EXCEPT !.version = change.version, !.enabled = change.enabled]
    /\ change' = NoRow
    /\ UNCHANGED <<now, task, stamping, stamp, lock, beat, history>>

\* update_changed_async.
Stamp ==
    /\ stamping > 0
    /\ stamping' = stamping - 1
    /\ stamp' = Second(now)
    /\ blind' = (change # NoRow \/ \E b \in Beats : checked[b] >= Second(now))
    /\ looked' = {}
    /\ UNCHANGED <<now, task, row, change, lock, beat, runs, ranAt, faults, upset, late>>

-----------------------------------------------------------------------------
(* A beat process.                                                         *)

Goto(b, l) == pc' = [pc EXCEPT ![b] = l]
Outside == {"down", "install", "waiting"}
Ticking(b) == pc[b] \notin Outside \union {"idle"}

\* The end of a process, and of what it had in memory.
End(b) ==
    /\ Goto(b, "down")
    /\ plan' = [plan EXCEPT ![b] = NoEntry] /\ dirty' = [dirty EXCEPT ![b] = FALSE]
    /\ checked' = [checked EXCEPT ![b] = Never] /\ return' = [return EXCEPT ![b] = "idle"]
    /\ looked' = looked \ {b} /\ late' = late \ {b}

\* ModelEntry: a task that has never run counts from now, one with a start
\* time from long before it.
LastRun(r) == CASE r.last # Never -> r.last
                [] r.last = Never /\ task.started -> -Interval
                [] OTHER -> now
EntryOf(r) == [r EXCEPT !.last = LastRun(r)]

\* get_all_task_schedulers.
Load(b) == plan' = [plan EXCEPT ![b] = IF row.enabled THEN EntryOf(row) ELSE NoEntry]

\* The schedule is read when the scheduler is made, before the lock is asked
\* for; the next look at the stamp finds none to compare with.
Start(b) ==
    /\ pc[b] = "down"
    /\ Load(b)
    /\ checked' = [checked EXCEPT ![b] = Second(now)]
    /\ stamp' = IF stamp = Never THEN Second(now) ELSE stamp
    /\ dirty' = [dirty EXCEPT ![b] = FALSE]
    /\ Goto(b, "install")
    /\ UNCHANGED <<now, task, row, change, stamping, lock, return, history>>

\* _unpack_fields: all columns, of a new row with the settings' schedule.
FirstValues(r) == [r EXCEPT !.version = MaxChanges + 1, !.enabled = TRUE, !.count = 0, !.last = Never]

\* update_from_dict, from_entry: a task of the settings that somebody has
\* edited does not match any more, and gets its first values back.
Edited == task.configured /\ row.version \in 1..MaxChanges
Install(b) ==
    /\ pc[b] = "install"
    /\ Goto(b, "waiting")
    /\ \/ ~Edited /\ UNCHANGED <<store, plan, runs, ranAt, upset>>
       \/ /\ Edited /\ change = NoRow
          /\ row' = FirstValues(row)
          /\ plan' = [plan EXCEPT ![b] = EntryOf(row')]
          /\ stamping' = stamping + 1
          /\ runs' = 0 /\ ranAt' = Never /\ upset' = TRUE
          /\ UNCHANGED <<change, stamp>>
    /\ UNCHANGED <<now, task, lock, dirty, checked, return, faults, blind, looked, late>>

\* Whether an entry or a row has all the runs.
Current(r) == r.count = runs /\ (runs > 0 => r.last = ranAt)

AcquireFree(b) ==
    /\ pc[b] = "waiting"
    /\ lock' = [owner |-> b, left |-> LockTimeout]
    /\ upset' = (upset \/ (plan[b] # NoEntry /\ ~(Current(plan[b]) /\ row.enabled)))
    /\ Goto(b, "idle")
    /\ UNCHANGED <<now, task, store, plan, dirty, checked, return, runs, ranAt, faults, blind, looked, late>>

\* acquire_distributed_beat_lock.  What the beat has read of the row may be
\* as old as its start, and another may still be saving after its close.
Acquire(b) ==
    /\ pc[b] = "waiting" /\ lock = Free
    /\ lock' = [owner |-> b, left |-> LockTimeout]
    /\ upset' = \/ upset
                 \/ (plan[b] # NoEntry /\ ~(Current(plan[b]) /\ row.enabled))
                 \/ \E c \in Beats : return[c] = "closed"
    /\ Goto(b, "idle")
    /\ UNCHANGED <<now, task, store, plan, dirty, checked, return, runs, ranAt, faults, blind, looked, late>>

\* tick: a lock that is lost ends the process.
Tick(b) ==
    /\ pc[b] = "idle" /\ lock.owner = b
    /\ lock' = [lock EXCEPT !.left = LockTimeout]
    /\ Goto(b, "look")
    /\ UNCHANGED <<now, task, store, plan, dirty, checked, return, history>>

TickFails(b) ==
    /\ pc[b] = "idle" /\ lock.owner # b
    /\ End(b)
    /\ upset' = TRUE
    /\ UNCHANGED <<now, task, store, lock, runs, ranAt, faults, blind>>

\* schedule_changed, wherever the schedule property is read.
ChangedSinceNow(b) == stamp > now
Changed(b) == stamp > checked[b]
Look(b) ==
    /\ checked' = [checked EXCEPT ![b] = Second(now)]
    /\ looked' = IF blind THEN looked ELSE looked \union {b}

\* schedule: a change has the dirty entry saved and the rows read anew.
CheckSchedule(b) ==
    /\ pc[b] = "look"
    /\ Look(b)
    /\ \/ ~Changed(b) /\ Goto(b, "due") /\ UNCHANGED return
       \/ Changed(b) /\ ~dirty[b] /\ Goto(b, "reload") /\ UNCHANGED return
       \/ Changed(b) /\ dirty[b] /\ Goto(b, "pop") /\ return' = [return EXCEPT ![b] = "reload"]
    /\ UNCHANGED <<now, task, store, lock, plan, dirty, runs, ranAt, faults, upset, blind, late>>

Reload(b) ==
    /\ pc[b] = "reload"
    /\ Load(b)
    /\ Goto(b, "due")
    /\ UNCHANGED <<now, task, store, lock, dirty, checked, return, history>>

\* sync pops the name, then reads the schedule property, which may find a
\* change and replace the entry that was to be saved.  A name that is not in
\* the schedule any more is kept.
Pop(b) ==
    /\ pc[b] = "pop"
    /\ dirty' = [dirty EXCEPT ![b] = FALSE]
    /\ Look(b)
    /\ \/ /\ Changed(b)
          /\ Load(b)
          /\ upset' = TRUE
       \/ ~Changed(b) /\ UNCHANGED <<plan, upset>>
    /\ Goto(b, "save")
    /\ UNCHANGED <<now, task, store, lock, return, runs, ranAt, faults, blind, late>>

\* sync goes on where it was called.
GoBack(b) ==
    /\ Goto(b, return[b])
    /\ return' = [return EXCEPT ![b] = IF @ = "closed" THEN "closed" ELSE "idle"]

\* ModelEntry.save, with the row locked, writes the counters and nothing else
\* of the entry.
Save(b) ==
    /\ pc[b] = "save" /\ change = NoRow
    /\ IF plan[b] = NoEntry
       THEN dirty' = [dirty EXCEPT ![b] = TRUE] /\ UNCHANGED row
       ELSE row' = [row EXCEPT !.count = plan[b].count, !.last = plan[b].last] /\ UNCHANGED dirty
    /\ GoBack(b)
    /\ UNCHANGED <<now, task, change, stamping, stamp, lock, plan, checked, history>>

\* A DatabaseError ends sync; the popped name is forgotten.
SaveFails(b) ==
    /\ pc[b] = "save"
    /\ faults < MaxFaults
    /\ faults' = faults + 1 /\ upset' = TRUE
    /\ GoBack(b)
    /\ UNCHANGED <<now, task, store, lock, plan, dirty, checked, runs, ranAt, blind, looked, late>>

\* is_due of the entry on top of the heap.
Elapsed(b) == now - plan[b].last >= Interval
Spent(b) == plan[b].once /\ plan[b].count > 0

\* __next__.
CountedOnly(e) == [e EXCEPT !.count = @ + 1]
Counted(e) == [e EXCEPT !.count = @ + 1, !.last = now]

\* reserve and apply_entry: the entry counts the run, the task is sent, and
\* when it is time for it the scheduler syncs.
Run(b) ==
    /\ pc[b] = "due"
    /\ plan[b].enabled /\ ~Spent(b) /\ Elapsed(b)
    /\ runs < MaxRuns
    /\ runs' = runs + 1 /\ ranAt' = now
    /\ plan' = [plan EXCEPT ![b] = Counted(@)]
    /\ dirty' = [dirty EXCEPT ![b] = TRUE]
    /\ \/ Goto(b, "idle") /\ UNCHANGED return
       \/ Goto(b, "pop") /\ return' = [return EXCEPT ![b] = "idle"]
    /\ UNCHANGED <<now, task, store, lock, checked, faults, upset, blind, looked, late>>

\* A one-off task that has run is disabled and its counter cleared, in memory
\* and in the row; this save stamps the change.
Retire(b) ==
    /\ pc[b] = "due"
    /\ plan[b].enabled /\ Spent(b)
    /\ change = NoRow
    /\ plan' = [plan EXCEPT ![b].enabled = FALSE, ![b].count = 0]
    /\ row' = [row EXCEPT !.enabled = FALSE, !.count = 0, !.last = plan[b].last]
    /\ stamping' = stamping + 1
    /\ runs' = 0 /\ ranAt' = Never
    /\ Goto(b, "idle")
    /\ UNCHANGED <<now, task, change, stamp, lock, dirty, checked, return, faults,
                   upset, blind, looked, late>>

NotDue(b) ==
    /\ pc[b] = "due"
    /\ ~plan[b].enabled \/ (~Spent(b) /\ (~Elapsed(b) \/ runs = MaxRuns))
    /\ Goto(b, "idle")
    /\ UNCHANGED <<now, task, store, lock, plan, dirty, checked, return, history>>

\* close releases the lock, saves what is dirty after that, and the process
\* ends.
Close(b) ==
    /\ pc[b] = "idle"
    /\ faults < MaxFaults /\ faults' = faults + 1
    /\ lock' = IF lock.owner = b THEN Free ELSE lock
    /\ Goto(b, IF dirty[b] THEN "pop" ELSE "closed")
    /\ return' = [return EXCEPT ![b] = "closed"]
    /\ UNCHANGED <<now, task, store, plan, dirty, checked, runs, ranAt, upset, blind, looked, late>>

Closed(b) ==
    /\ pc[b] = "closed"
    /\ End(b)
    /\ UNCHANGED <<now, task, store, lock, runs, ranAt, faults, upset, blind>>

Crash(b) ==
    /\ pc[b] # "down"
    /\ faults < MaxFaults /\ faults' = faults + 1
    /\ upset' = TRUE
    /\ End(b)
    /\ UNCHANGED <<now, task, store, lock, runs, ranAt, blind>>

\* Time passes wherever the processes are; the lock expires.
Moment ==
    /\ now < MaxTime
    /\ now' = now + 1
    /\ lock' = IF lock.left > 1 THEN [lock EXCEPT !.left = @ - 1] ELSE Free
    /\ upset' = (upset \/ lock.left = 1)
    /\ late' = IF lock.left = 1 THEN late \union {b \in {lock.owner} : Ticking(b)} ELSE late
    /\ UNCHANGED <<task, store, beat, runs, ranAt, faults, blind, looked>>

Step(b) ==
    \/ Acquire(b) \/ Tick(b) \/ TickFails(b) \/ Closed(b) \/ CheckSchedule(b) \/ Reload(b) \/ Pop(b) \/ Save(b)
    \/ Run(b) \/ Retire(b) \/ NotDue(b)
Next ==
    \/ Flush \/ CommitChange \/ Stamp \/ Moment
    \/ \E b \in Beats : Step(b) \/ Start(b) \/ Install(b) \/ SaveFails(b) \/ Close(b) \/ Crash(b)

\* A beat that runs goes on, requests and tasks of the event loop finish, and
\* nothing says that a process is started or the clock stops.
FairSpec ==
    /\ Init /\ [][Next]_vars
    /\ WF_vars(CommitChange) /\ WF_vars(Stamp) /\ WF_vars(Moment)
    /\ \A b \in Beats : WF_vars(Install(b)) /\ SF_vars(Step(b))

-----------------------------------------------------------------------------
(* Properties.                                                             *)

\* The lock keeps beats from sending tasks twice (schedulers.py:37): of two
\* that are in the middle of a tick, one has not come back to its lock for as
\* long as the lock lasts, or is saving after its close.
OneBeatTicks ==
    \A b, c \in Beats : (b # c /\ Ticking(b) /\ Ticking(c)) =>
        \E d \in {b, c} : d \in late \/ return[d] = "closed"

\* Runs are counted and remembered (reserve, sync): while no save has failed,
\* no change came between a pop and its save, and no beat crashed or took over
\* with an older schedule, the beat on duty knows the number and the time of
\* the runs, and a row that nobody has to save has them, too.
RunsAreCounted ==
    ~upset =>
        \A b \in Beats : (lock.owner = b /\ pc[b] # "down" /\ plan[b] # NoEntry) =>
            /\ Current(plan[b])
            /\ ~dirty[b] /\ pc[b] # "save" => Current(row)

\* A change of the row reaches the beat at its next look at the stamp, unless
\* the change is blind.
ChangeIsSeen ==
    \A b \in looked : (pc[b] \in {"due", "idle"} /\ ~blind /\ change = NoRow /\ stamping = 0) =>
        IF row.enabled THEN plan[b].version = row.version ELSE plan[b] = NoEntry

\* schedulers.py:33: the scheduler has to take external changes of the schedule
\* into account.  A beat that holds the lock and keeps ticking has the change
\* in its schedule in the end, or a later one.
ChangesArrive ==
    \A b \in Beats : \A v \in 1..MaxChanges :
        row.version = v ~>
            \/ row.version # v \/ lock.owner # b
            \/ IF row.enabled THEN plan[b].version = v ELSE plan[b] = NoEntry

=============================================================================
