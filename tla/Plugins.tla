------------------------------ MODULE Plugins ------------------------------
(***************************************************************************)
(* Plugins and generated code: their directories, what the server's workers *)
(* found there when they started, the status of each plugin in Redis and    *)
(* the flag that asks for a restart, the jobs that install, uninstall and  *)
(* generate, and the file watcher that restarts the workers unless the     *)
(* lock file of a job stands.                                              *)
(***************************************************************************)
EXTENDS Integers, FiniteSets

CONSTANTS
    Plugins, Apps,          \* names of plugins; of generated applications
    Workers,                \* processes of the server
    Jobs, Toggles,          \* bound: installations and the like; status changes
    MaxStarts               \* bound: restarts

VARIABLES
    dir,                    \* how much of each directory is there
    router,                 \* the applications that app/router.py imports
    status,                 \* fba:plugin:<name>, its "enable"
    changed,                \* fba:plugin:changed
    lock, lockFile,         \* fba:reload_lock; .reload.lock
    event,                  \* whether the watcher has a change to report
    job, toggle, worker, starts,
    (* history *)
    hidden,                 \* whether a change lost its flag
    overrun,                \* whether a job ran on without the lock
    answered,               \* status changes answered since the plugin's status exists
    raced                   \* plugins whose status was written over a newer one

vars == <<dir, router, status, changed, lock, lockFile, event, job, toggle,
          worker, starts, hidden, overrun, answered, raced>>
unchangedServer == <<status, toggle, worker, starts, answered, raced>>

Items == Plugins \cup Apps
Nobody == "nobody"
NoJob == [pc |-> "new", what |-> "none", item |-> "none", cli |-> FALSE]
NoToggle == [pc |-> "new", plugin |-> "none", read |-> "none"]

\* get_plugins
Present == {p \in Plugins : dir[p] # "none"}
\* The applications the router imports.
Generated == router \cap {a \in Apps : dir[a] # "none"}

Init ==
    /\ dir = [i \in Items |-> IF i \in Plugins THEN "whole" ELSE "none"]
    /\ router = {}
    /\ status = [p \in Plugins |-> "1"] /\ changed = FALSE
    /\ lock = Nobody /\ lockFile = FALSE /\ event = FALSE
    /\ job = [j \in Jobs |-> NoJob] /\ toggle = [t \in Toggles |-> NoToggle]
    /\ worker = [w \in Workers |-> [pc |-> "up", listed |-> Plugins, todo |-> {}, read |-> "none"]]
    /\ starts = 0 /\ hidden = FALSE /\ overrun = FALSE
    /\ answered = [p \in Plugins |-> 0] /\ raced = {}

-----------------------------------------------------------------------------
(* The jobs.                                                               *)

Runs(j) == job[j].pc \notin {"new", "done"}
\* The job has changed a plugin and not set the flag yet.
Unflagged(j) ==
    job[j].what # "generate" /\ job[j].pc \in {"written", "report", "forget", "flag"}
Goto(j, pc) == job' = [job EXCEPT ![j].pc = pc]
Serving == \E w \in Workers : worker[w].pc = "up"

\* What a job looks for before it takes the lock: a repository's directory,
\* the plugin to remove.
Begin(j, what, item, cli) ==
    /\ job[j] = NoJob
    /\ (what = "generate") <=> (item \in Apps)
    /\ (what = "clone") => dir[item] = "none"
    /\ (what = "uninstall") => dir[item] # "none"
    /\ job' = [job EXCEPT ![j] =
                 [pc |-> IF what = "uninstall" THEN "move" ELSE "acquire",
                  what |-> what, item |-> item, cli |-> cli]]
    /\ UNCHANGED <<dir, router, changed, lock, lockFile, event, hidden, overrun>>
    /\ UNCHANGED unchangedServer

Request(j, item) ==
    Serving /\ \E what \in {"zip", "clone", "generate", "uninstall"} : Begin(j, what, item, FALSE)

\* From the command line, in a process of its own.
Command(j, item) == \E what \in {"zip", "clone", "generate"} : Begin(j, what, item, TRUE)

\* acquire_distributed_reload_lock: whether the lock was got is not looked at,
\* so a job that has waited for a minute goes on without.
Acquire(j) ==
    /\ job[j].pc = "acquire"
    /\ lock' = IF lock = Nobody THEN j ELSE lock
    /\ overrun' = (overrun \/ lock # Nobody)
    /\ lockFile' = TRUE
    /\ Goto(j, "write")
    /\ UNCHANGED <<dir, router, changed, event, hidden>> /\ UNCHANGED unchangedServer

Unpack(j) ==
    /\ job[j].pc = "write" /\ job[j].what # "generate"
    /\ dir[job[j].item] = "none"
    /\ dir' = [dir EXCEPT ![job[j].item] = "part"]
    /\ event' = TRUE
    /\ Goto(j, "written")
    /\ UNCHANGED <<router, changed, lock, lockFile, hidden, overrun>> /\ UNCHANGED unchangedServer

\* A zip is not unpacked over a plugin, and a clone over one fails; nor is
\* code written that cannot be rendered.
Refuse(j) ==
    /\ job[j].pc = "write"
    /\ job[j].what # "generate" => dir[job[j].item] # "none"
    /\ Goto(j, "release")
    /\ UNCHANGED <<dir, router, changed, lock, lockFile, event, hidden, overrun>>
    /\ UNCHANGED unchangedServer

\* Generated code goes over the application's earlier code.
Copy(j) ==
    /\ job[j].pc = "write" /\ job[j].what = "generate"
    /\ dir' = [dir EXCEPT ![job[j].item] = "part"]
    /\ event' = TRUE
    /\ Goto(j, "written")
    /\ UNCHANGED <<router, changed, lock, lockFile, hidden, overrun>> /\ UNCHANGED unchangedServer

Written(j) ==
    /\ job[j].pc = "written"
    /\ dir' = [dir EXCEPT ![job[j].item] = "whole"]
    /\ event' = TRUE
    /\ Goto(j, "report")
    /\ UNCHANGED <<router, changed, lock, lockFile, hidden, overrun>> /\ UNCHANGED unchangedServer

EndEarly(j) ==
    /\ hidden' = (hidden \/ Unflagged(j))
    /\ Goto(j, "release")
    /\ UNCHANGED <<router, changed, lock, lockFile, event, overrun>> /\ UNCHANGED unchangedServer

\* What is written stays; a failed clone may remove it.
UnpackFails(j) ==
    /\ job[j].pc = "written"
    /\ \/ UNCHANGED dir
       \/ job[j].what = "clone" /\ dir' = [dir EXCEPT ![job[j].item] = "none"]
    /\ EndEarly(j)

\* The .env file or the requirements fail: the plugin stays, without a flag.
SetUpFails(j) == job[j].pc = "report" /\ UNCHANGED dir /\ EndEarly(j)

\* Variation: only a removal sets the flag.
ReportNothing(j) ==
    /\ job[j].pc = "report" /\ job[j].what # "generate"
    /\ Goto(j, "release")
    /\ UNCHANGED <<dir, router, changed, event, lock, lockFile, hidden, overrun>>
    /\ UNCHANGED unchangedServer

Report(j) ==
    /\ job[j].pc = "report" /\ job[j].what # "generate"
    /\ changed' = TRUE
    /\ Goto(j, "release")
    /\ UNCHANGED <<dir, router, event, lock, lockFile, hidden, overrun>> /\ UNCHANGED unchangedServer

\* Generated code is put in app/router.py.
InjectAppRouter(j) ==
    /\ job[j].pc = "report" /\ job[j].what = "generate"
    /\ router' = router \cup {job[j].item}
    /\ event' = TRUE
    /\ Goto(j, "release")
    /\ UNCHANGED <<dir, changed, lock, lockFile, hidden, overrun>> /\ UNCHANGED unchangedServer

Release(j) ==
    /\ job[j].pc = "release"
    /\ lockFile' = FALSE
    /\ lock' = IF lock = j THEN Nobody ELSE lock
    /\ Goto(j, "done")
    /\ UNCHANGED <<dir, router, changed, event, hidden, overrun>> /\ UNCHANGED unchangedServer

\* The lock's five minutes are over.
Lapse ==
    /\ lock # Nobody
    /\ overrun' = (overrun \/ Runs(lock))
    /\ lock' = Nobody
    /\ UNCHANGED <<dir, router, changed, lockFile, event, job, hidden>> /\ UNCHANGED unchangedServer

\* uninstall, under no lock: the directory is moved away, the status deleted,
\* the flag set.
Move(j) ==
    /\ job[j].pc = "move"
    /\ IF dir[job[j].item] = "none" THEN Goto(j, "done") /\ UNCHANGED <<dir, event>>
       ELSE /\ dir' = [dir EXCEPT ![job[j].item] = "none"]
            /\ event' = TRUE /\ Goto(j, "forget")
    /\ UNCHANGED <<router, changed, lock, lockFile, hidden, overrun>> /\ UNCHANGED unchangedServer

\* The requirements cannot be removed.
RemovalFails(j) ==
    /\ job[j].pc = "move" /\ Goto(j, "done")
    /\ UNCHANGED <<dir, router, changed, lock, lockFile, event, hidden, overrun>>
    /\ UNCHANGED unchangedServer

Forget(j) ==
    /\ job[j].pc = "forget"
    /\ status' = [status EXCEPT ![job[j].item] = "none"]
    /\ answered' = [answered EXCEPT ![job[j].item] = 0]
    /\ Goto(j, "flag")
    /\ UNCHANGED <<dir, router, changed, lock, lockFile, event, toggle, worker,
                   starts, hidden, overrun, raced>>

Flag(j) ==
    /\ job[j].pc = "flag"
    /\ changed' = TRUE /\ Goto(j, "done")
    /\ UNCHANGED <<dir, router, lock, lockFile, event, hidden, overrun>> /\ UNCHANGED unchangedServer

-----------------------------------------------------------------------------
(* update_status: reads the status, writes the other.                      *)

ReadStatus(t, p) ==
    /\ toggle[t] = NoToggle /\ Serving
    /\ status[p] # "none"
    /\ toggle' = [toggle EXCEPT ![t] = [pc |-> "write", plugin |-> p, read |-> status[p]]]
    /\ UNCHANGED <<dir, router, status, changed, lock, lockFile, event, job, worker,
                   starts, hidden, overrun, answered, raced>>

\* Variation: the status is written as it was read.
WriteStatusAsRead(t) ==
    LET p == toggle[t].plugin IN
    /\ toggle[t].pc = "write"
    /\ status' = [status EXCEPT ![p] = toggle[t].read]
    /\ answered' = [answered EXCEPT ![p] = @ + 1]
    /\ raced' = IF status[p] = toggle[t].read THEN raced ELSE raced \cup {p}
    /\ toggle' = [toggle EXCEPT ![t].pc = "done"]
    /\ UNCHANGED <<dir, router, changed, lock, lockFile, event, job, worker, starts, hidden, overrun>>

WriteStatus(t) ==
    LET p == toggle[t].plugin IN
    /\ toggle[t].pc = "write"
    /\ status' = [status EXCEPT ![p] = IF toggle[t].read = "0" THEN "1" ELSE "0"]
    /\ answered' = [answered EXCEPT ![p] = @ + 1]
    /\ raced' = IF status[p] = toggle[t].read THEN raced ELSE raced \cup {p}
    /\ toggle' = [toggle EXCEPT ![t].pc = "done"]
    /\ UNCHANGED <<dir, router, changed, lock, lockFile, event, job, worker, starts, hidden, overrun>>

-----------------------------------------------------------------------------
(* The workers' start.                                                     *)

jobVars == <<dir, router, lock, lockFile, event, job, toggle, overrun>>

\* A restart ends the jobs and the status changes the workers were running.
Restarted ==
    /\ starts < MaxStarts /\ starts' = starts + 1
    /\ worker' = [w \in Workers |-> [pc |-> "list", listed |-> {}, todo |-> {}, read |-> "none"]]
    /\ job' = [j \in Jobs |-> IF Runs(j) /\ ~job[j].cli THEN [job[j] EXCEPT !.pc = "done"] ELSE job[j]]
    /\ toggle' = [t \in Toggles |-> IF toggle[t].pc = "write" THEN [toggle[t] EXCEPT !.pc = "done"]
                                    ELSE toggle[t]]
    /\ hidden' = (hidden \/ \E j \in Jobs : ~job[j].cli /\ Unflagged(j))

Restart ==
    /\ Restarted
    /\ UNCHANGED <<dir, router, status, changed, lock, lockFile, event, overrun, answered, raced>>

\* Variation: the watcher looks at no lock.
PassesAlways == TRUE

\* CustomReloadFilter
Passes == ~lockFile

Watch ==
    /\ event /\ event' = FALSE
    /\ IF Passes THEN Restarted ELSE UNCHANGED <<job, toggle, worker, starts, hidden>>
    /\ UNCHANGED <<dir, router, status, changed, lock, lockFile, overrun, answered, raced>>

\* get_plugins, once for each process; a directory that is being written may
\* not have its __init__.py.
List(w) ==
    /\ worker[w].pc = "list"
    /\ \E missing \in SUBSET {p \in Present : dir[p] = "part"} :
           worker' = [worker EXCEPT ![w].pc = "clean", ![w].listed = Present \ missing]
    /\ UNCHANGED <<status, changed, starts, hidden, answered, raced>> /\ UNCHANGED jobVars

\* PluginStatusChecker: what a request to a plugin that is loaded meets.
Answer(p) == CASE status[p] = "none" -> "lost" [] status[p] = "0" -> "disabled" [] OTHER -> "served"

\* Whether taking the flag down now hides a change from someone.
Stale == \E w \in Workers : worker[w].pc # "list" /\ worker[w].listed \cap Plugins # Present

\* delete_prefix: all keys but those of the plugins it listed, the flag too.
Clean(w) ==
    /\ worker[w].pc = "clean"
    /\ status' = [p \in Plugins |-> IF p \in worker[w].listed THEN status[p] ELSE "none"]
    /\ answered' = [p \in Plugins |-> IF p \in worker[w].listed THEN answered[p] ELSE 0]
    /\ changed' = FALSE /\ hidden' = (hidden \/ Stale)
    /\ worker' = [worker EXCEPT ![w].pc = "get", ![w].todo = worker[w].listed]
    /\ UNCHANGED <<starts, raced>> /\ UNCHANGED jobVars

Get(w) ==
    /\ worker[w].pc = "get"
    /\ \E p \in worker[w].todo :
           /\ dir[p] # "none"
           /\ worker' = [worker EXCEPT ![w].pc = "set", ![w].todo = {p} \cup (@ \ {p}), ![w].read = <<p, status[p]>>]
    /\ UNCHANGED <<status, changed, starts, hidden, answered, raced>> /\ UNCHANGED jobVars

Set(w) ==
    LET p == worker[w].read[1]  read == worker[w].read[2] IN
    /\ worker[w].pc = "set"
    /\ status' = [status EXCEPT ![p] = IF read = "none" THEN "1" ELSE read]
    /\ raced' = IF status[p] = read THEN raced ELSE raced \cup {p}
    /\ worker' = [worker EXCEPT ![w].pc = "get", ![w].todo = @ \ {p}, ![w].read = "none"]
    /\ UNCHANGED <<changed, starts, hidden, answered>> /\ UNCHANGED jobVars

Reset(w) ==
    /\ worker[w].pc = "get" /\ worker[w].todo = {}
    /\ changed' = FALSE
    /\ hidden' = (hidden \/ Stale \/ \E p \in worker[w].listed : Answer(p) = "lost")
    /\ worker' = [worker EXCEPT ![w].pc = "load"]
    /\ UNCHANGED <<status, starts, answered, raced>> /\ UNCHANGED jobVars

\* build_final_router: the plugins' routers and the applications'.
Load(w) ==
    /\ worker[w].pc = "load"
    /\ worker' = [worker EXCEPT ![w].pc = "up", ![w].listed = @ \cup Generated]
    /\ UNCHANGED <<status, changed, starts, hidden, answered, raced>> /\ UNCHANGED jobVars

\* The start ends where a plugin's requirements cannot be installed, where it
\* has no or a wrong plugin.toml, and where its routers cannot be included.
StartFails(w, at) ==
    /\ worker[w].pc = at
    /\ worker' = [worker EXCEPT ![w].pc = "down", ![w].todo = {}]
    /\ UNCHANGED <<status, changed, starts, hidden, answered, raced>> /\ UNCHANGED jobVars

RequirementsFail(w) == StartFails(w, "clean")
ConfigFails(w) == worker[w].todo # {} /\ StartFails(w, "get")
InjectFails(w) == StartFails(w, "load")

Next ==
    \/ \E j \in Jobs :
           \/ \E item \in Items : Request(j, item) \/ Command(j, item)
           \/ Acquire(j) \/ Unpack(j) \/ Refuse(j) \/ Copy(j) \/ Written(j)
           \/ UnpackFails(j) \/ SetUpFails(j) \/ Report(j) \/ InjectAppRouter(j) \/ Release(j)
           \/ Move(j) \/ RemovalFails(j) \/ Forget(j) \/ Flag(j)
    \/ Lapse \/ Restart \/ Watch
    \/ \E t \in Toggles : (\E p \in Plugins : ReadStatus(t, p)) \/ WriteStatus(t)
    \/ \E w \in Workers : List(w) \/ Clean(w) \/ Get(w) \/ Set(w) \/ Reset(w)
                            \/ Load(w) \/ RequirementsFail(w) \/ ConfigFails(w)
                            \/ InjectFails(w)

Spec == Init /\ [][Next]_vars

-----------------------------------------------------------------------------
(* Properties.                                                             *)

\* The flag that asks for a restart stands, a job is about to set it, or one
\* failed or was ended before it did, or a start took it down that had looked
\* at the directories, or given the plugin its status, before the change.
Flagged == changed \/ hidden \/ \E j \in Jobs : Unflagged(j)

\* A worker that serves other plugins than are installed has the flag beside
\* it; so has one whose requests to a plugin fail because its status is lost,
\* once every worker's start is over (plugin_service.py:61, core.py:140, core.py:266).
ChangesAreFlagged ==
    \A w \in Workers : worker[w].pc = "up" =>
        LET served == worker[w].listed \cap Plugins IN
        /\ served = Present \/ Flagged
        /\ (\E p \in served : Answer(p) = "lost") =>
               Flagged \/ \E v \in Workers : worker[v].pc # "up"

\* A plugin is disabled just if an odd number of status changes has been
\* answered since it has a status, unless one or a start wrote over what
\* another had written since it read (plugin_service.py:80, core.py:128).
TogglesCount ==
    \A p \in Plugins :
        status[p] # "none" /\ p \notin raced => ((status[p] = "0") <=> (answered[p] % 2 = 1))

\* The watcher restarts no worker while a directory is half written, unless
\* a job ran on after its lock was gone or without getting it (locks.py:19,
\* cli.py:59).
WritersAreSpared ==
    [][Watch /\ starts' # starts =>
           overrun \/ \A j \in Jobs : job[j].pc # "written"]_vars

=============================================================================
