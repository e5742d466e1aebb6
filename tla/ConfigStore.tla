----------------------------- MODULE ConfigStore -----------------------------
(***************************************************************************)
(* The settings of the remediation, config/remediation.yaml: the routes of *)
(* the settings page change it, every job and request reads it, and the    *)
(* cron jobs that stop and start instances are built from it.              *)
(*                                                                         *)
(* A route runs in a thread of the one uvicorn process. It loads the file, *)
(* changes the dictionary and saves it; the load and the save each take    *)
(* the lock _config_lock (the flock below it only matters between          *)
(* processes). A save empties the file and the new text reaches it when it *)
(* is closed, all at once: a policy is smaller than Python's buffer.       *)
(*                                                                         *)
(* Three sections stand for the file: dry_run for every setting that is    *)
(* overwritten by its setter, whitelist for the one that is edited, and    *)
(* instance_schedule for the one that is merged and has effects in memory. *)
(***************************************************************************)
EXTENDS Naturals

CONSTANTS
    Threads,      \* threads that serve the settings page
    Ids,          \* instances
    Times,        \* pairs of a stop and a start time
    DefaultTimes, \* 19:00 and 08:00
    Absent,       \* a section, or a field of a request, that is not there
    Empty,        \* the file, or its backup, has no content
    Missing,      \* there is no file, or no backup
    NoJobs,       \* the stop and start jobs are not scheduled
    Nobody,       \* the lock is free, a thread serves no request
    Requests,     \* the requests of this installation
    MaxFaults     \* bound: failed writes and deaths of the process

Schedules == [enabled : BOOLEAN, times : Times]

Policies ==
    [dry_run           : BOOLEAN \cup {Absent},
     whitelist         : {Absent} \cup SUBSET Ids,
     instance_schedule : Schedules \cup {Absent}]

\* An import has only known sections, and instance_schedule is not one.
Documents == {p \in Policies : p.instance_schedule = Absent}

WhitelistRequests == [op : {"add", "remove"}, id : Ids]

Imports == [op : {"import"}, document : Documents]

AllRequests ==
    [op : {"dry_run"}, value : BOOLEAN]
      \cup [op : {"schedule"}, enabled : BOOLEAN \cup {Absent},
            times : Times \cup {Absent}]
      \cup WhitelistRequests \cup Imports

ASSUME ConfigAssumption ==
    /\ Requests \subseteq AllRequests
    /\ DefaultTimes \in Times
    /\ Absent \notin BOOLEAN
    /\ \A S \in SUBSET Ids : S # Absent
    /\ Absent \notin Schedules
    /\ Absent \notin Times
    /\ {Empty, Missing} \cap Policies = {}
    /\ Empty # Missing
    /\ NoJobs \notin Times
    /\ Nobody \notin Threads
    /\ Nobody \notin AllRequests
    /\ MaxFaults \in Nat

VARIABLES
    file,       \* config/remediation.yaml
    backup,     \* config/remediation.yaml.backup
    lock,       \* the thread that holds _config_lock for a save
    up,         \* the application has started
    pc, req,    \* where each thread is, and the request it serves
    copy,       \* the policy each thread holds
    cron,       \* the times of the stop and start jobs in the scheduler
    faults,     \* history: failed writes and deaths
    asked,      \* history: the policy the answered requests add up to
    stale,      \* history: what a thread holds was overtaken by another save
    disturbed,  \* history: something overtaken was used
    torn,       \* history: the disk was full, or a death emptied the file
    unannounced \* history: a save did not reach the scheduler

store   == <<file, backup, lock>>
threads == <<pc, req, copy>>
history == <<asked, stale, disturbed, torn, unannounced>>
vars    == <<store, up, threads, cron, faults, history>>

Waiting == {"load", "reload", "save", "reread"}
Locked  == {"truncate", "write"}
Mending == {"restore", "refill"}

TypeOK ==
    /\ file \in Policies \cup {Empty, Missing}
    /\ backup \in Policies \cup {Empty, Missing}
    /\ lock \in Threads \cup {Nobody}
    /\ up \in BOOLEAN
    /\ pc \in [Threads -> {"idle", "rebuild"} \cup Waiting \cup Locked \cup Mending]
    /\ req \in [Threads -> Requests \cup {Nobody}]
    /\ copy \in [Threads -> Policies \cup {Empty}]
    /\ cron \in Times \cup {NoJobs}
    /\ faults \in Nat
    /\ asked \in Policies
    /\ stale \in [Threads -> BOOLEAN]
    /\ disturbed \in BOOLEAN
    /\ torn \in BOOLEAN
    /\ unannounced \in BOOLEAN

Template == [dry_run |-> TRUE, whitelist |-> {}, instance_schedule |-> Absent]

Init ==
    /\ file \in {Missing, Template}
    /\ backup = Missing
    /\ lock = Nobody
    /\ up = FALSE
    /\ pc = [t \in Threads |-> "idle"]
    /\ req = [t \in Threads |-> Nobody]
    /\ copy = [t \in Threads |-> Empty]
    /\ cron = NoJobs
    /\ faults = 0
    /\ asked = Template
    /\ stale = [t \in Threads |-> FALSE]
    /\ disturbed = FALSE
    /\ torn = FALSE
    /\ unannounced = FALSE

-----------------------------------------------------------------------------
(* The getters and the setters, on a policy that was loaded.               *)

WhitelistOf(p) == IF p.whitelist = Absent THEN {} ELSE p.whitelist

ScheduleOf(p) ==
    IF p.instance_schedule = Absent
    THEN [enabled |-> FALSE, times |-> DefaultTimes]
    ELSE p.instance_schedule

Given(field, current) == IF field = Absent THEN current ELSE field

Merged(r, schedule) ==
    [enabled |-> Given(r.enabled, schedule.enabled),
     times   |-> Given(r.times, schedule.times)]

\* Adding what is there and removing what is not are answered without a save.
Changes(r, p) ==
    /\ r.op = "add" => r.id \notin WhitelistOf(p)
    /\ r.op = "remove" => r.id \in WhitelistOf(p)

Updated(r, p) ==
    CASE r.op = "dry_run"  -> [p EXCEPT !.dry_run = r.value]
      [] r.op = "add"      -> [p EXCEPT !.whitelist = WhitelistOf(p) \cup {r.id}]
      [] r.op = "remove"   -> [p EXCEPT !.whitelist = WhitelistOf(p) \ {r.id}]
      [] r.op = "schedule" -> [p EXCEPT !.instance_schedule =
                                  Merged(r, ScheduleOf(p))]
      [] r.op = "import"   -> r.document

JobsOf(p) == IF ScheduleOf(p).enabled THEN ScheduleOf(p).times ELSE NoJobs

-----------------------------------------------------------------------------
(* The steps of a request.                                                 *)

\* held is the policy the thread holds from now on; it ends with the request.
Goto(t, l, held) ==
    /\ pc' = [pc EXCEPT ![t] = l]
    /\ req' = [req EXCEPT ![t] = IF l = "idle" THEN Nobody ELSE @]
    /\ copy' = [copy EXCEPT ![t] = IF l = "idle" THEN Empty ELSE held]

Begin(t, r) ==
    /\ up
    /\ pc[t] = "idle"
    /\ pc' = [pc EXCEPT ![t] = IF r.op = "import" THEN "save" ELSE "load"]
    /\ req' = [req EXCEPT ![t] = r]
    /\ copy' = [copy EXCEPT ![t] = IF r.op = "import" THEN r.document ELSE Empty]
    /\ stale' = [stale EXCEPT ![t] = FALSE]
    /\ UNCHANGED <<store, up, cron, faults, asked, disturbed, torn, unannounced>>

\* An empty file loads as None, which no setter can use: the request fails.
LoadNothing(t) ==
    /\ pc[t] \in {"load", "reload", "reread"}
    /\ lock = Nobody
    /\ file = Empty
    /\ Goto(t, "idle", copy[t])
    /\ unannounced' = (unannounced \/ pc[t] = "reread")
    /\ UNCHANGED <<store, up, cron, faults, asked, stale, disturbed, torn>>

\* set_instance_schedule merges into what the first of its two loads read.
AfterLoad(t) ==
    IF req[t].op = "schedule" THEN "reload"
    ELSE IF Changes(req[t], file) THEN "save" ELSE "idle"

\* Variant: a policy that another request has loaded is not loaded again.
LoadCached(t) ==
    /\ pc[t] = "load"
    /\ lock = Nobody
    /\ file \in Policies
    /\ \E p \in ({copy[q] : q \in Threads} \ {Empty}) \cup {file} :
          Goto(t, AfterLoad(t), Updated(req[t], p))
    /\ stale' = [stale EXCEPT ![t] = FALSE]
    /\ UNCHANGED <<store, up, cron, faults, asked, disturbed, torn, unannounced>>

Load(t) ==
    /\ pc[t] = "load"
    /\ lock = Nobody
    /\ file \in Policies
    /\ Goto(t, AfterLoad(t), Updated(req[t], file))
    /\ stale' = [stale EXCEPT ![t] = FALSE]
    /\ UNCHANGED <<store, up, cron, faults, asked, disturbed, torn, unannounced>>

Reload(t) ==
    /\ pc[t] = "reload"
    /\ lock = Nobody
    /\ file \in Policies
    /\ Goto(t, "save",
            [file EXCEPT !.instance_schedule = copy[t].instance_schedule])
    /\ UNCHANGED <<store, up, cron, faults, history>>

\* Variant: the backup is made when the file has been emptied.
OpenLate(t) ==
    /\ pc[t] = "save"
    /\ lock = Nobody
    /\ lock' = t
    /\ backup' = Empty
    /\ Goto(t, "truncate", copy[t])
    /\ stale' = [q \in Threads |-> stale[q] \/ pc[q] \in Mending]
    /\ UNCHANGED <<file, up, cron, faults, asked, disturbed, torn, unannounced>>

\* save_config opens the file and copies it to the backup, over what another
\* request may still have to restore.
Open(t) ==
    /\ pc[t] = "save"
    /\ lock = Nobody
    /\ lock' = t
    /\ backup' = file
    /\ Goto(t, "truncate", copy[t])
    /\ stale' = [q \in Threads |-> stale[q] \/ pc[q] \in Mending]
    /\ UNCHANGED <<file, up, cron, faults, asked, disturbed, torn, unannounced>>

\* The backup could not be written: a warning, and the save goes on.
OpenWithoutBackup(t) ==
    /\ pc[t] = "save"
    /\ lock = Nobody
    /\ faults < MaxFaults
    /\ faults' = faults + 1
    /\ lock' = t
    /\ backup' = Empty
    /\ torn' = TRUE
    /\ Goto(t, "truncate", copy[t])
    /\ stale' = [q \in Threads |-> stale[q] \/ pc[q] \in Mending]
    /\ UNCHANGED <<file, up, cron, asked, disturbed, unannounced>>

Truncate(t) ==
    /\ pc[t] = "truncate"
    /\ file' = Empty
    /\ Goto(t, "write", copy[t])
    /\ UNCHANGED <<backup, lock, up, cron, faults, history>>

\* The file is closed, the lock given back and the request answered "success".
\* The text reaches the disk in close, whose errors are suppressed: content is
\* the policy, or Empty when the disk is full.
Close(t, content) ==
    /\ pc[t] = "write"
    /\ file' = content
    /\ lock' = Nobody
    /\ Goto(t, IF req[t].op = "schedule" THEN "reread" ELSE "idle", copy[t])
    /\ asked' = Updated(req[t], asked)
    /\ stale' = [q \in Threads |-> q # t /\ pc[q] # "idle"]
    /\ disturbed' = (disturbed \/ (stale[t] /\ req[t].op # "import"))
    /\ unannounced' = (unannounced \/ req[t].op = "import")
    /\ UNCHANGED <<backup, up, cron>>

Write(t) ==
    /\ Close(t, copy[t])
    /\ UNCHANGED <<faults, torn>>

DiskFull(t) ==
    /\ faults < MaxFaults
    /\ faults' = faults + 1
    /\ Close(t, Empty)
    /\ torn' = TRUE

\* An exception while the lock is held: it is released, then the handler
\* restores the backup. Text that is cut counts as no content.
Fail(t) ==
    /\ pc[t] \in Locked
    /\ faults < MaxFaults
    /\ faults' = faults + 1
    /\ lock' = Nobody
    /\ Goto(t, "restore", copy[t])
    /\ stale' = [stale EXCEPT ![t] = FALSE]
    /\ UNCHANGED <<file, backup, up, cron, asked, disturbed, torn, unannounced>>

\* Without the lock: open for writing, then copy.
Restore(t) ==
    /\ pc[t] = "restore"
    /\ file' = Empty
    /\ Goto(t, "refill", copy[t])
    /\ UNCHANGED <<backup, lock, up, cron, faults, history>>

Refill(t) ==
    /\ pc[t] = "refill"
    /\ file' = backup
    /\ Goto(t, "idle", copy[t])
    /\ disturbed' = (disturbed \/ stale[t])
    /\ UNCHANGED <<backup, lock, up, cron, faults, asked, stale, torn, unannounced>>

\* Ten seconds without the lock: the load raises, the save answers False; when
\* it is the scheduler that was waiting, the route answers with a warning.
GiveUp(t) ==
    /\ pc[t] \in Waiting
    /\ lock # Nobody
    /\ Goto(t, "idle", copy[t])
    /\ unannounced' = (unannounced \/ pc[t] = "reread")
    /\ UNCHANGED <<store, up, cron, faults, asked, stale, disturbed, torn>>

\* reschedule_instance_jobs reads the saved schedule, then replaces the jobs.
Reread(t) ==
    /\ pc[t] = "reread"
    /\ lock = Nobody
    /\ file \in Policies
    /\ Goto(t, "rebuild", file)
    /\ stale' = [stale EXCEPT ![t] = FALSE]
    /\ UNCHANGED <<store, up, cron, faults, asked, disturbed, torn, unannounced>>

\* Variant: the jobs are added, never removed.
RebuildAddOnly(t) ==
    /\ pc[t] = "rebuild"
    /\ cron' = IF JobsOf(copy[t]) = NoJobs THEN cron ELSE JobsOf(copy[t])
    /\ Goto(t, "idle", copy[t])
    /\ disturbed' = (disturbed \/ stale[t])
    /\ unannounced' = FALSE
    /\ UNCHANGED <<store, up, faults, asked, stale, torn>>

Rebuild(t) ==
    /\ pc[t] = "rebuild"
    /\ cron' = JobsOf(copy[t])
    /\ Goto(t, "idle", copy[t])
    /\ disturbed' = (disturbed \/ stale[t])
    /\ unannounced' = FALSE
    /\ UNCHANGED <<store, up, faults, asked, stale, torn>>

-----------------------------------------------------------------------------
(* The process.                                                            *)

\* Startup builds the jobs from the file, made from the template if there is
\* none. It does not survive an empty file.
Start ==
    /\ ~up
    /\ file # Empty
    /\ up' = TRUE
    /\ file' = IF file = Missing THEN Template ELSE file
    /\ cron' = JobsOf(file')
    /\ unannounced' = FALSE
    /\ UNCHANGED <<backup, lock, threads, faults, asked, stale, disturbed, torn>>

Die ==
    /\ up
    /\ faults < MaxFaults
    /\ faults' = faults + 1
    /\ up' = FALSE
    /\ lock' = Nobody
    /\ pc' = [t \in Threads |-> "idle"]
    /\ req' = [t \in Threads |-> Nobody]
    /\ copy' = [t \in Threads |-> Empty]
    /\ cron' = NoJobs
    /\ torn' = (torn \/ file = Empty)
    /\ UNCHANGED <<file, backup, asked, stale, disturbed, unannounced>>

-----------------------------------------------------------------------------
Serve(t) ==
    \/ \E r \in Requests : Begin(t, r)
    \/ LoadNothing(t)
    \/ Load(t)
    \/ Reload(t)
    \/ Open(t)
    \/ OpenWithoutBackup(t)
    \/ Truncate(t)
    \/ Write(t)
    \/ DiskFull(t)
    \/ Fail(t)
    \/ Restore(t)
    \/ Refill(t)
    \/ GiveUp(t)
    \/ Reread(t)
    \/ Rebuild(t)

Next ==
    \/ \E t \in Threads : Serve(t)
    \/ Start
    \/ Die

Spec == Init /\ [][Next]_vars

-----------------------------------------------------------------------------
Quiet == \A t \in Threads : pc[t] \notin {"write"} \cup Mending

\* What the store does give: as long as no request used what another save had
\* overtaken, a file that has content is the sum of the requests that were
\* answered "success", whatever failed, was restored or died in between.
UpdatesKept == ~disturbed => file \in {Empty, Missing, asked}

\* And when nobody is writing it has content: only a full disk, or a death
\* while it was being rewritten, leaves a file that stops every setter and the
\* next start. A save that fails in any other way leaves a policy.
PolicyReadable == ~disturbed /\ ~torn /\ Quiet => file # Empty

\* The stop and start jobs follow the saved schedule: once the routes that
\* save it have rebuilt them, and but for an import, which does not, and for a
\* rebuild that was answered with a warning.
JobsFollowSchedule ==
    /\ up /\ ~disturbed /\ ~unannounced /\ file # Empty
    /\ \A t \in Threads : pc[t] \notin {"reread", "rebuild"}
    => cron = JobsOf(file)

\* config_manager.py: "Thread-safe file operations with file locking to
\* prevent race conditions." Nothing fails, nobody dies: what the answered
\* requests asked for is in the file.
NoUpdateLost == faults = 0 /\ file \in Policies => file = asked
=============================================================================
