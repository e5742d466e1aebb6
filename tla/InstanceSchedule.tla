-------------------------- MODULE InstanceSchedule --------------------------
(***************************************************************************)
(* The cron jobs that stop and start tagged instances, at work on the      *)
(* settings store.  A run (_run_instance_schedule) loads the file three    *)
(* times, for the schedule, for the dry-run switch and for the whitelist,  *)
(* while the threads of the settings page replace it; then it acts on one  *)
(* instance after the other.  The jobs run under the scheduler of the      *)
(* application and die with it.                                            *)
(*                                                                         *)
(* The schedule's own dry_run is off here: on, it keeps every run dry.     *)
(***************************************************************************)
EXTENDS ConfigStore

CONSTANT Tagged     \* instances with the tag, in the state the job looks for,
                    \* and in no Auto Scaling group

ASSUME ScheduleAssumption == Tagged \subseteq Ids

VARIABLE
    job     \* the run: its place, whether it is dry, the instances to do, those
            \* changed in AWS, its rows of actions_log; and, as history, whether
            \* dry-run was off in earnest (live), and which instances were not
            \* protected (free), at some moment since the run began

scheduled == <<vars, job>>

RunSteps == {"idle", "schedule", "dryRun", "targets", "act"}

NoRun == [pc |-> "idle", dry |-> TRUE, todo |-> {}, acted |-> {}, rows |-> {},
          live |-> FALSE, free |-> {}]

InitRun == Init /\ job = NoRun

\* get_dry_run: a file that does not say is in dry-run.
DryRunOf(p) == p.dry_run # FALSE

Watched(j, policy) ==
    [j EXCEPT !.live = @ \/ policy.dry_run = FALSE,
              !.free = @ \cup (Ids \ WhitelistOf(policy))]

Goes(step) == job' = [job EXCEPT !.pc = step]

-----------------------------------------------------------------------------
(* A run.                                                                  *)

\* The time of the stop or of the start has come.
Fire ==
    /\ up /\ cron # NoJobs /\ job.pc = "idle"
    /\ job' = Watched([NoRun EXCEPT !.pc = "schedule"], asked)
    /\ UNCHANGED vars

Readable == lock = Nobody /\ file \in Policies

\* A schedule switched off since the jobs were built ends the run.
ReadSchedule ==
    /\ job.pc = "schedule" /\ Readable
    /\ IF ScheduleOf(file).enabled THEN Goes("dryRun") ELSE job' = NoRun
    /\ UNCHANGED vars

\* Mutant: in an empty file the switch is off.
ReadDryRunOfNothing ==
    /\ job.pc = "dryRun" /\ lock = Nobody
    /\ LET dry == file \in Policies /\ DryRunOf(file)
       IN  job' = [job EXCEPT !.pc = "targets", !.dry = dry]
    /\ UNCHANGED vars

\* The switch of the whole product; then the client of EC2, or an error.
ReadDryRun ==
    /\ job.pc = "dryRun" /\ Readable
    /\ \/ job' = [job EXCEPT !.pc = "targets", !.dry = DryRunOf(file)]
       \/ job' = NoRun
    /\ UNCHANGED vars

\* Mutant: a file that is empty protects nothing.
TargetsOfNothing ==
    /\ job.pc = "targets" /\ lock = Nobody
    /\ LET listed == IF file \in Policies THEN WhitelistOf(file) ELSE {}
       IN  job' = [job EXCEPT !.pc = "act", !.todo = Tagged \ listed]
    /\ UNCHANGED vars

\* _instance_schedule_targets: the whitelist, then the instances of AWS.
Targets ==
    /\ job.pc = "targets" /\ Readable
    /\ \/ job' = [job EXCEPT !.pc = "act", !.todo = Tagged \ WhitelistOf(file)]
       \/ job' = NoRun
    /\ UNCHANGED vars

\* The file is empty, or its lock is not free for ten seconds: the load raises
\* and the run ends.
Unreadable ==
    /\ job.pc \in {"schedule", "dryRun", "targets"} /\ ~Readable
    /\ job' = NoRun
    /\ UNCHANGED vars

\* stop_instances or start_instances, and a row that says so; a call that fails
\* may have taken effect, and the row may be lost.
Act(i) ==
    /\ job.pc = "act" /\ i \in job.todo
    /\ \E status \in IF job.dry THEN {"dry_run"} ELSE {"success", "failed"},
          done \in {{}, {i}}, told \in BOOLEAN :
          /\ status = "dry_run" => done = {}
          /\ status = "success" => done = {i}
          /\ job' = [job EXCEPT !.todo = @ \ {i}, !.acted = @ \cup done,
                       !.rows = IF told THEN @ \cup {[id |-> i, status |-> status]}
                                ELSE @]
    /\ UNCHANGED vars

RunEnds ==
    /\ job.pc = "act" /\ job.todo = {}
    /\ job' = NoRun
    /\ UNCHANGED vars

Run == Fire \/ ReadSchedule \/ ReadDryRun \/ Targets \/ Unreadable
       \/ (\E i \in Tagged : Act(i)) \/ RunEnds

\* A step of the store, which the run goes through, or dies of.
StoreStep ==
    /\ Next
    /\ job' = IF job.pc = "idle" \/ ~up' THEN NoRun ELSE Watched(job, asked')

NextRun == Run \/ StoreStep

SpecRun == InitRun /\ [][NextRun]_scheduled

-----------------------------------------------------------------------------
(* Properties.                                                             *)

\* A run changes an instance only if the requests answered with success had the
\* product out of dry-run at some moment since the run began: a switch to dry-run
\* that was answered before holds, whatever failed, was restored or is half
\* written when the run reads it (_run_instance_schedule, "the master switch").
LiveWasAsked == ~disturbed /\ job.acted # {} => job.live

\* An instance whose protection was answered before the run began, and stays, is
\* not stopped, although the whitelist is read last and the file is empty for a
\* moment in every save (_instance_schedule_targets).
ProtectedLeftAlone == ~disturbed => job.acted \subseteq job.free
=============================================================================
