----------------------------- MODULE CollectLock -----------------------------
(***************************************************************************)
(* The collect lock: the directory ~/.wasteless-collect.lock.d that keeps  *)
(* two collections of waste from running together. wasteless.sh collect    *)
(* and its Windows counterpart run_collection.py follow the same protocol; *)
(* the scheduler starts one every five minutes and the interface starts    *)
(* others on demand.                                                       *)
(*                                                                         *)
(* A step is one file-system call. rm -rf and rmtree are two: the pid file *)
(* is unlinked, then the directory is removed if it is empty; both ignore  *)
(* their errors.                                                           *)
(***************************************************************************)
EXTENDS Naturals

CONSTANTS
    Procs,       \* collections; each may run many times
    NoPid,       \* there is no pid file
    DeadPid,     \* the pid file names a process that no longer runs
    Launcher,    \* "shell" (wasteless.sh) or "python" (run_collection.py)
    MaxCrashes,  \* bound: collections that die without cleaning up
    MaxStops     \* bound: stops of the application, signals to a collection

ASSUME LockAssumption ==
    /\ NoPid \notin Procs
    /\ DeadPid \notin Procs
    /\ NoPid # DeadPid
    /\ Launcher \in {"shell", "python"}
    /\ MaxCrashes \in Nat
    /\ MaxStops \in Nat

VARIABLES
    dir,        \* the lock directory exists
    pid,        \* the content of its pid file
    pc,         \* where each collection is
    disturbed,  \* history: two collections were taking or giving back the
                \* lock at once, or the lock was removed from outside
    crashes,    \* history: collections that died
    stops       \* history: removals from outside

vars == <<dir, pid, pc, disturbed, crashes, stops>>

Acquiring == {"check", "unlink", "rmdir", "retry", "write"}
Releasing == {"release", "leave"}
Handling  == Acquiring \cup Releasing

TypeOK ==
    /\ dir \in BOOLEAN
    /\ pid \in Procs \cup {NoPid, DeadPid}
    /\ pc \in [Procs -> {"idle", "collect"} \cup Handling]
    /\ disturbed \in BOOLEAN
    /\ crashes \in Nat
    /\ stops \in Nat

Init ==
    /\ dir = FALSE
    /\ pid = NoPid
    /\ pc = [p \in Procs |-> "idle"]
    /\ disturbed = FALSE
    /\ crashes = 0
    /\ stops = 0

Goto(p, l) ==
    /\ pc' = [pc EXCEPT ![p] = l]
    /\ disturbed' = (disturbed \/ /\ l \in Handling
                                  /\ \E q \in Procs \ {p} : pc[q] \in Handling)

\* The pid of p names no process once p has ended.
PidAfter(p) == IF pid = p THEN DeadPid ELSE pid

-----------------------------------------------------------------------------
(* Taking the lock.                                                        *)

\* mkdir is atomic: it makes the directory or fails because it exists.
Start(p) ==
    /\ pc[p] = "idle"
    /\ dir' = TRUE
    /\ Goto(p, IF dir THEN "check" ELSE "write")
    /\ UNCHANGED <<pid, crashes, stops>>

\* Variant: any pid file is trusted.
CheckTrustsFile(p) ==
    /\ pc[p] = "check"
    /\ Goto(p, IF pid # NoPid THEN "idle" ELSE "unlink")
    /\ UNCHANGED <<dir, pid, crashes, stops>>

\* A pid file that is missing or unreadable names no live process.
Check(p) ==
    /\ pc[p] = "check"
    /\ Goto(p, IF pid \in Procs THEN "idle" ELSE "unlink")
    /\ UNCHANGED <<dir, pid, crashes, stops>>

\* The stale lock is removed.
Unlink(p) ==
    /\ pc[p] = "unlink"
    /\ pid' = NoPid
    /\ Goto(p, "rmdir")
    /\ UNCHANGED <<dir, crashes, stops>>

Rmdir(p) ==
    /\ pc[p] = "rmdir"
    /\ dir' = (dir /\ pid # NoPid)
    /\ Goto(p, "retry")
    /\ UNCHANGED <<pid, crashes, stops>>

\* The second mkdir: the loser yields.
Retry(p) ==
    /\ pc[p] = "retry"
    /\ dir' = TRUE
    /\ Goto(p, IF dir THEN "idle" ELSE "write")
    /\ UNCHANGED <<pid, crashes, stops>>

\* Variant: the pid file is not written.
WriteNothing(p) ==
    /\ pc[p] = "write"
    /\ Goto(p, "collect")
    /\ UNCHANGED <<dir, pid, crashes, stops>>

\* When the directory has been removed meanwhile, the write fails: the shell
\* goes on, Python ends with the exception.
Write(p) ==
    /\ pc[p] = "write"
    /\ pid' = IF dir THEN p ELSE pid
    /\ Goto(p, IF dir \/ Launcher = "shell" THEN "collect" ELSE "idle")
    /\ UNCHANGED <<dir, crashes, stops>>

-----------------------------------------------------------------------------
(* Giving it back, at the end of the collection or when it fails. Nothing  *)
(* checks whose lock it is.                                                *)

Finish(p) ==
    /\ pc[p] = "collect"
    /\ Goto(p, "release")
    /\ UNCHANGED <<dir, pid, crashes, stops>>

Release(p) ==
    /\ pc[p] = "release"
    /\ pid' = NoPid
    /\ Goto(p, "leave")
    /\ UNCHANGED <<dir, crashes, stops>>

Leave(p) ==
    /\ pc[p] = "leave"
    /\ dir' = (dir /\ pid # NoPid)
    /\ pid' = PidAfter(p)
    /\ Goto(p, "idle")
    /\ UNCHANGED <<crashes, stops>>

-----------------------------------------------------------------------------
(* What happens from outside.                                              *)

\* kill -9, or the machine goes down.
Crash(p) ==
    /\ pc[p] # "idle"
    /\ crashes < MaxCrashes
    /\ crashes' = crashes + 1
    /\ pid' = PidAfter(p)
    /\ Goto(p, "idle")
    /\ UNCHANGED <<dir, stops>>

\* "wasteless stop" removes the lock of the collection that runs and does not
\* end it; so does the trap of a shell collection that is interrupted, which
\* goes on with its next step.
Stop ==
    /\ dir
    /\ stops < MaxStops
    /\ stops' = stops + 1
    /\ dir' = FALSE
    /\ pid' = NoPid
    /\ disturbed' = TRUE
    /\ UNCHANGED <<pc, crashes>>

-----------------------------------------------------------------------------
Acquire(p) ==
    \/ Check(p)
    \/ Unlink(p)
    \/ Rmdir(p)
    \/ Retry(p)
    \/ Write(p)

GiveBack(p) ==
    \/ Finish(p)
    \/ Release(p)
    \/ Leave(p)

Next ==
    \/ \E p \in Procs : Start(p) \/ Acquire(p) \/ GiveBack(p) \/ Crash(p)
    \/ Stop

Spec == Init /\ [][Next]_vars

\* The scheduler starts a collection every five minutes and one that runs
\* ends.
Fairness == \A p \in Procs : WF_vars(Start(p) \/ Acquire(p) \/ GiveBack(p))

FairSpec == Spec /\ Fairness

-----------------------------------------------------------------------------
Exclusive ==
    \A p, q \in Procs : pc[p] = "collect" /\ pc[q] = "collect" => p = q

\* What the protocol does give: as long as no two collections take or give
\* back the lock at the same time and nothing else removes it, two
\* collections never run together, whatever died and left its lock behind,
\* between any two of its calls.
SpacedRunsExclude == ~disturbed => Exclusive

\* A collection runs again and again: a lock whose holder died, at any point,
\* never stops the collections for good.
StillCollects == []<>(\E p \in Procs : pc[p] = "collect")

=============================================================================
