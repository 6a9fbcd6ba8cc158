----------------------------- MODULE JobControl -----------------------------
(***************************************************************************)
(* Which jobs run: `jobs.yaml`, the reloads that compare it with the       *)
(* running jobs, the commands that enable, disable and remove a job, the   *)
(* jobs' tasks and their handlers on the bus.  Reloads and commands are    *)
(* coroutines that meet at their awaits: reading the file in a thread, a   *)
(* job's task that is being cancelled, an account that has to connect.     *)
(*                                                                         *)
(* A run of a job is one Gateway object.  The account's scheduler is only  *)
(* the jobs that have something queued in it.                              *)
(***************************************************************************)
EXTENDS Integers, FiniteSets

CONSTANTS
    Job,          \* names in jobs.yaml
    Reload,       \* reload_jobs calls: the one at boot, and clients' requests
    Run,          \* bound: Gateway objects that may be created
    None,         \* no object
    MaxEdits      \* bound: changes of jobs.yaml by commands and by hand

ASSUME JobAssumption == None \notin Run /\ None \notin Job /\ MaxEdits \in Nat

VARIABLES
    file,         \* jobs.yaml: "on", "off", "rejected" (fails validation) or "absent"
    runner,       \* JobRunner._jobs: the object under a name, or None
    jobOf,        \* the job of each object, None while it is not created
    enabled,      \* BaseJob.enabled
    task,         \* its task: "none", "setup", "running", "cancelled", "done"
    bus,          \* objects whose handler is on the bus
    calls,        \* objects whose on_event awaits on a lane
    queued,       \* the jobs with pending actions
    reload,       \* where each reload is and what it found
    command,      \* per job: the object `disable` or `remove` waits for, or None
    what,         \* per job: "none", "disable", "remove"
    overlapped,   \* history: two reloads were under way at once
    off,          \* history: the jobs turned off by a command no reload came across
    edits         \* bound: changes so far

objects == <<runner, jobOf, enabled, task, bus>>
vars == <<file, objects, calls, queued, reload, command, what, overlapped, off, edits>>

NotLoading == [at |-> "idle", conf |-> [j \in Job |-> "absent"], removed |-> {}, updated |-> {},
               todo |-> {}, job |-> None, awaits |-> None]

Alive(g) == task[g] \in {"setup", "running", "cancelled"}

\* Mutant of Ended: a task that is cancelled is taken for one that ended.
EndedCancelled(g) == g \notin {h \in Run : task[h] \in {"setup", "running"}}

\* What a stop awaits: there is no object, or its task is done.
Ended(g) == g \notin {h \in Run : Alive(h)}

Loading == {r \in Reload : reload[r].at # "idle"}

Init ==
    /\ file \in [Job -> {"on", "off", "rejected", "absent"}]
    /\ runner = [j \in Job |-> None] /\ jobOf = [g \in Run |-> None]
    /\ enabled = [g \in Run |-> FALSE] /\ task = [g \in Run |-> "none"] /\ bus = {}
    /\ calls = {} /\ queued = {}
    /\ reload = [r \in Reload |-> NotLoading]
    /\ command = [j \in Job |-> None] /\ what = [j \in Job |-> "none"]
    /\ overlapped = FALSE /\ off = {} /\ edits = 0

-----------------------------------------------------------------------------
(* A job's task and its handler *)

\* BaseJob.stop cancels the task unless it is done; who called it awaits its end.
Cancelled(g) == IF g # None /\ Alive(g) THEN [task EXCEPT ![g] = "cancelled"] ELSE task

\* setup is over and the handler is on the bus.
SetUp(g) ==
    /\ task[g] = "setup" /\ task' = [task EXCEPT ![g] = "running"] /\ bus' = bus \cup {g}
    /\ UNCHANGED <<file, runner, jobOf, enabled, calls, queued, reload, command, what, overlapped, off, edits>>

\* Mutant of TearDown: the handler stays on the bus.
TearDownLeft(g) ==
    /\ task[g] = "cancelled" /\ task' = [task EXCEPT ![g] = "done"]
    /\ UNCHANGED <<file, runner, jobOf, enabled, bus, calls, queued, reload, command, what, overlapped, off, edits>>

\* The cancelled task ends: teardown takes the handler off the bus.
TearDown(g) ==
    /\ task[g] = "cancelled" /\ task' = [task EXCEPT ![g] = "done"] /\ bus' = bus \ {g}
    /\ UNCHANGED <<file, runner, jobOf, enabled, calls, queued, reload, command, what, overlapped, off, edits>>

\* A lane calls the handler, which awaits the message and the filters.
Call(g) ==
    /\ g \in bus /\ g \notin calls /\ calls' = calls \cup {g}
    /\ UNCHANGED <<file, objects, queued, reload, command, what, overlapped, off, edits>>

\* The handler goes on: the event is not the job's, or _schedule submits an action for it.
\* It does not look whether its job still runs.
Handled(g, submits) ==
    /\ g \in calls /\ calls' = calls \ {g}
    /\ queued' = IF submits THEN queued \cup {jobOf[g]} ELSE queued
    /\ UNCHANGED <<file, objects, reload, command, what, overlapped, off, edits>>

\* The scheduler carries out what it has of a job.
Acted(j) ==
    /\ j \in queued /\ queued' = queued \ {j}
    /\ UNCHANGED <<file, objects, calls, reload, command, what, overlapped, off, edits>>

-----------------------------------------------------------------------------
(* Commands *)

\* History: a reload under way may have read the file before.
TurnedOff(j) == IF Loading = {} /\ ~overlapped THEN off \cup {j} ELSE off

Edited == edits < MaxEdits /\ edits' = edits + 1

\* `job add`, `job edit` or an editor: only the file changes.
Edit(j, entry) ==
    /\ Edited /\ file[j] # entry
    /\ file' = [file EXCEPT ![j] = entry]
    /\ UNCHANGED <<objects, calls, queued, reload, command, what, overlapped, off>>

\* `job enable`: an object that is disabled starts again; a job without one does not.
Enable(j) ==
    /\ Edited /\ file[j] = "off" /\ what[j] = "none"
    /\ file' = [file EXCEPT ![j] = "on"]
    /\ LET g == runner[j] IN
         IF g # None /\ ~enabled[g]
           THEN /\ enabled' = [enabled EXCEPT ![g] = TRUE]
                /\ task' = [task EXCEPT ![g] = "setup"]
           ELSE UNCHANGED <<enabled, task>>
    /\ off' = off \ {j}
    /\ UNCHANGED <<runner, jobOf, bus, calls, queued, reload, command, what, overlapped>>

\* `job disable`: what is queued is dropped first, then the task is stopped.
Disable(j) ==
    /\ Edited /\ file[j] = "on" /\ what[j] = "none"
    /\ file' = [file EXCEPT ![j] = "off"]
    /\ queued' = queued \ {j}
    /\ task' = Cancelled(runner[j])
    /\ enabled' = [g \in Run |-> enabled[g] /\ g # runner[j]]
    /\ command' = [command EXCEPT ![j] = runner[j]] /\ what' = [what EXCEPT ![j] = "disable"]
    /\ UNCHANGED <<runner, jobOf, bus, calls, reload, overlapped>> /\ off' = TurnedOff(j)

\* `job remove`: the object is taken out, then its task is stopped.
Remove(j) ==
    /\ Edited /\ file[j] # "absent" /\ what[j] = "none"
    /\ file' = [file EXCEPT ![j] = "absent"]
    /\ runner' = [runner EXCEPT ![j] = None]
    /\ task' = Cancelled(runner[j])
    /\ command' = [command EXCEPT ![j] = runner[j]] /\ what' = [what EXCEPT ![j] = "remove"]
    /\ UNCHANGED <<jobOf, enabled, bus, calls, queued, reload, overlapped>> /\ off' = TurnedOff(j)

\* Mutant of Return: what the removed job had queued stays.
ReturnKept(j) ==
    /\ what[j] # "none" /\ Ended(command[j])
    /\ command' = [command EXCEPT ![j] = None] /\ what' = [what EXCEPT ![j] = "none"]
    /\ UNCHANGED <<file, objects, calls, queued, reload, overlapped, off, edits>>

\* The task has ended and the command returns; `remove` forgets what is queued only now.
Return(j) ==
    /\ what[j] # "none" /\ Ended(command[j])
    /\ queued' = IF what[j] = "remove" THEN queued \ {j} ELSE queued
    /\ command' = [command EXCEPT ![j] = None] /\ what' = [what EXCEPT ![j] = "none"]
    /\ UNCHANGED <<file, objects, calls, reload, overlapped, off, edits>>

-----------------------------------------------------------------------------
(* Reloads *)

\* A thread reads the file.
Load(r) ==
    /\ reload[r].at = "idle"
    /\ reload' = [reload EXCEPT ![r].at = "loaded", ![r].conf = file]
    /\ overlapped' = (overlapped \/ Loading # {}) /\ off' = {}
    /\ UNCHANGED <<file, objects, calls, queued, command, what, edits>>

\* Mutant of Compare: a rejected job is one that is not in the file.
CompareStrictly(r) ==
    /\ reload[r].at = "loaded"
    /\ LET old == {j \in Job : runner[j] # None}
           new == {j \in Job : reload[r].conf[j] \in {"on", "off"}}
       IN reload' = [reload EXCEPT ![r].at = "remove", ![r].removed = old \ new,
                                   ![r].updated = old \cap new, ![r].todo = new]
    /\ UNCHANGED <<file, objects, calls, queued, command, what, overlapped, off, edits>>

\* What was read is compared with the running jobs, once; a rejected job is not removed.
Compare(r) ==
    /\ reload[r].at = "loaded"
    /\ LET old == {j \in Job : runner[j] # None}
           new == {j \in Job : reload[r].conf[j] \in {"on", "off"}}
           rejected == {j \in Job : reload[r].conf[j] = "rejected"}
       IN reload' = [reload EXCEPT ![r].at = "remove", ![r].removed = (old \ new) \ rejected,
                                   ![r].updated = old \cap new, ![r].todo = new]
    /\ UNCHANGED <<file, objects, calls, queued, command, what, overlapped, off, edits>>

\* Mutant of TakeOut: the object is forgotten and its task goes on.
TakeOutRunning(r, j) ==
    /\ reload[r].at = "remove" /\ j \in reload[r].removed
    /\ runner' = [runner EXCEPT ![j] = None]
    /\ reload' = [reload EXCEPT ![r].at = "removing", ![r].job = j, ![r].removed = @ \ {j}]
    /\ UNCHANGED <<file, jobOf, enabled, task, bus, calls, queued, command, what, overlapped, off, edits>>

\* remove_job of a job that is in the file no more ...
TakeOut(r, j) ==
    /\ reload[r].at = "remove" /\ j \in reload[r].removed
    /\ runner' = [runner EXCEPT ![j] = None] /\ task' = Cancelled(runner[j])
    /\ reload' = [reload EXCEPT ![r].at = "removing", ![r].job = j, ![r].awaits = runner[j],
                                ![r].removed = @ \ {j}]
    /\ UNCHANGED <<file, jobOf, enabled, bus, calls, queued, command, what, overlapped, off, edits>>

\* ... and what it had queued.
TakenOut(r) ==
    /\ reload[r].at = "removing" /\ Ended(reload[r].awaits)
    /\ queued' = queued \ {reload[r].job}
    /\ reload' = [reload EXCEPT ![r].at = "remove", ![r].job = None, ![r].awaits = None]
    /\ UNCHANGED <<file, objects, calls, command, what, overlapped, off, edits>>

\* The next job of the file; one that was running before is taken out and stopped.
Replace(r, j) ==
    /\ reload[r].at = "remove" /\ reload[r].removed = {} /\ j \in reload[r].todo
    /\ IF j \in reload[r].updated
         THEN /\ runner' = [runner EXCEPT ![j] = None] /\ task' = Cancelled(runner[j])
              /\ reload' = [reload EXCEPT ![r].at = "stopping", ![r].job = j, ![r].awaits = runner[j],
                                          ![r].todo = @ \ {j}]
         ELSE /\ UNCHANGED <<runner, task>>
              /\ reload' = [reload EXCEPT ![r].at = "stopping", ![r].job = j, ![r].todo = @ \ {j}]
    /\ UNCHANGED <<file, jobOf, enabled, bus, calls, queued, command, what, overlapped, off, edits>>

\* Its task has ended; a disabled job is passed over, another one needs its account.
Stopped(r) ==
    /\ reload[r].at = "stopping" /\ Ended(reload[r].awaits)
    /\ reload' = IF reload[r].conf[reload[r].job] = "on"
                   THEN [reload EXCEPT ![r].at = "client", ![r].awaits = None]
                   ELSE [reload EXCEPT ![r].at = "remove", ![r].awaits = None, ![r].job = None]
    /\ UNCHANGED <<file, objects, calls, queued, command, what, overlapped, off, edits>>

\* ensure_client came back with nothing: the job is left out.
NoClient(r) ==
    /\ reload[r].at = "client"
    /\ reload' = [reload EXCEPT ![r].at = "remove", ![r].job = None]
    /\ UNCHANGED <<file, objects, calls, queued, command, what, overlapped, off, edits>>

\* create_job enters a new object under the name, whatever is there, and starts it.
Create(r, g) ==
    /\ reload[r].at = "client" /\ jobOf[g] = None
    /\ runner' = [runner EXCEPT ![reload[r].job] = g]
    /\ jobOf' = [jobOf EXCEPT ![g] = reload[r].job]
    /\ enabled' = [enabled EXCEPT ![g] = TRUE]
    /\ task' = [task EXCEPT ![g] = "setup"]
    /\ reload' = [reload EXCEPT ![r].at = "remove", ![r].job = None]
    /\ UNCHANGED <<file, bus, calls, queued, command, what, overlapped, off, edits>>

\* The last job is done: resume, and the call returns.
Loaded(r) ==
    /\ reload[r].at = "remove" /\ reload[r].removed = {} /\ reload[r].todo = {}
    /\ reload' = [reload EXCEPT ![r] = NotLoading]
    /\ UNCHANGED <<file, objects, calls, queued, command, what, overlapped, off, edits>>

Removal(r) == TakenOut(r) \/ \E j \in Job : TakeOut(r, j)
ReloadStep(r) ==
    \/ Compare(r) \/ Removal(r) \/ Stopped(r) \/ NoClient(r) \/ Loaded(r)
    \/ \E j \in Job : Replace(r, j)
    \/ \E g \in Run : Create(r, g)

Next ==
    \/ \E g \in Run : SetUp(g) \/ TearDown(g) \/ Call(g)
    \/ \E g \in Run, submits \in BOOLEAN : Handled(g, submits)
    \/ \E j \in Job : Acted(j) \/ Enable(j) \/ Disable(j) \/ Remove(j) \/ Return(j)
    \/ \E j \in Job, entry \in {"on", "off", "rejected"} : Edit(j, entry)
    \/ \E r \in Reload : Load(r) \/ ReloadStep(r)

Spec == Init /\ [][Next]_vars

-----------------------------------------------------------------------------
(* Properties *)

\* The variables have their types; a task that is under way belongs to a created
\* object, a task that ended or has not set up has no handler, and what a reload
\* or a command waits for is an object of the job it is at.
JobTypeOK ==
    /\ file \in [Job -> {"on", "off", "rejected", "absent"}]
    /\ runner \in [Job -> Run \cup {None}] /\ jobOf \in [Run -> Job \cup {None}]
    /\ \A j \in Job : runner[j] # None => jobOf[runner[j]] = j
    /\ enabled \in [Run -> BOOLEAN]
    /\ task \in [Run -> {"none", "setup", "running", "cancelled", "done"}]
    /\ \A g \in Run : jobOf[g] = None <=> task[g] = "none"
    /\ bus \subseteq {g \in Run : task[g] \in {"running", "cancelled"}}
    /\ calls \subseteq {g \in Run : jobOf[g] # None} /\ queued \subseteq Job
    /\ \A j \in Job :
         /\ command[j] # None => command[j] \in Run /\ jobOf[command[j]] = j /\ what[j] # "none"
         /\ what[j] \in {"none", "disable", "remove"}
    /\ \A r \in Reload :
         /\ reload[r].at \in {"idle", "loaded", "remove", "removing", "stopping", "client"}
         /\ reload[r].job \in Job <=> reload[r].at \in {"removing", "stopping", "client"}
         /\ reload[r].awaits # None => reload[r].awaits \in Run /\ jobOf[reload[r].awaits] = reload[r].job
         /\ reload[r].removed \cap reload[r].todo = {}
    /\ off \subseteq Job /\ edits \in 0..MaxEdits

\* A handler that is on the bus is the handler of the job the runner lists, or its
\* task is being cancelled: an object nobody can reach would go on acting on
\* events, and no command could stop it.  Two reloads that overlap break this:
\* both enter an object for the job after waiting for its account.
NoOrphan ==
    ~overlapped => \A g \in Run : task[g] \in {"setup", "running"} => runner[jobOf[g]] = g

\* Once `job disable` or `job remove` has returned, issued while no reload was under
\* way, and until the job is enabled or a reload begins, no handler of any object of the job is on the bus, however the
\* object was created and wherever its setup was.
OffMeansOff ==
    \A j \in off : what[j] = "none" => \A g \in Run : jobOf[g] = j => g \notin bus /\ task[g] # "setup"

\* A typo in an edit does not take a working job down: a reload that read an entry
\* as rejected takes nothing from the job and stops none of its tasks.
TypoTakesNothingDown ==
    [][\A r \in Reload, j \in Job :
         /\ reload[r].conf[j] = "rejected" /\ reload'[r].conf[j] = "rejected"
         /\ reload'[r] # reload[r]
         => /\ runner'[j] = runner[j]
            /\ \A g \in Run : jobOf[g] = j => task'[g] = task[g]]_vars

\* What `job disable` and `job remove` drop stays dropped: once no handler of the job
\* is between its event and its submission, nothing is queued for it again until it is
\* enabled or a reload begins; and `job remove` leaves nothing that was queued while
\* its task was ending.
DroppedStaysDropped ==
    [][\A j \in Job :
         /\ (j \in off /\ j \in off' /\ what[j] = "none" /\ j \notin queued
              /\ \A g \in calls : jobOf[g] # j)
            => j \notin queued' /\ \A g \in calls' : jobOf[g] # j
         /\ (what[j] = "remove" /\ what'[j] = "none") => j \notin queued']_vars
=============================================================================
