----------------------- MODULE RecommendationLifecycle -----------------------
(***************************************************************************)
(* The life of a recommendation in the running application: the rows of    *)
(* the tables recommendations and actions_log, the AWS resource behind     *)
(* each recommendation, and every thread that moves them:                  *)
(*                                                                         *)
(*   - HTTP requests (POST /api/actions): reject, dismiss, cancel,         *)
(*     restore, approve;                                                   *)
(*   - the grace-period executor, a scheduler job that executes approvals  *)
(*     whose grace period is over;                                         *)
(*   - the AWS synchronisation (a scheduler job, and the Sync AWS button,  *)
(*     which runs the same code in a request thread);                      *)
(*   - the Terraform pull-request reconciliation job;                      *)
(*   - the detectors, which run in another process;                        *)
(*   - the owner of the AWS account, who changes resources directly.       *)
(*                                                                         *)
(* A step is what a thread does between two points where another thread    *)
(* can act: a statement of the database (PostgreSQL, READ COMMITTED), a    *)
(* call to AWS or GitHub, a read of the settings file. The row effects of  *)
(* a transaction happen at its statement; the row lock it then holds until *)
(* its commit only delays the other writers of that row. Rows of           *)
(* actions_log flagged dry_run (simulations and manual decisions) are not  *)
(* counted.                                                                *)
(***************************************************************************)
EXTENDS Naturals, FiniteSets

CONSTANTS
    Recs,          \* the recommendations, one per wasteful resource
    TypeOf,        \* recommendation_type of each recommendation
    PrRouted,      \* those whose approval terraform_pr.requires_pr routes
    Requests,      \* request threads that may run an approval
    Syncs,         \* threads that may run the AWS synchronisation
    Executor,      \* the thread of grace_executor_job (max_instances = 1)
    NoRec,         \* no recommendation
    Settings,      \* the settings the user may choose
    DueLimit,      \* LIMIT of the executor's query (20 in the code)
    MaxApprovals,  \* bound: approvals of one recommendation
    MaxFaults      \* bound: threads that die or lose their database

-----------------------------------------------------------------------------
(* Vocabulary *)

Statuses == {"pending", "rejected", "dismissed", "scheduled", "pr_open",
             "approved_manual", "approved", "applied", "obsolete"}

\* Variant: what was skipped is no longer looked at.
SyncableWithoutRejected == {"pending", "scheduled", "pr_open",
                            "approved_manual"}

SyncableStatuses == {"pending", "rejected", "scheduled", "pr_open",
                     "approved_manual"}

Boto3Types == {"stop_instance", "terminate_instance"}

RemediatorTypes == {"migrate_gp2_to_gp3", "delete_volume",
                    "delete_nat_gateway", "delete_load_balancer",
                    "release_ip", "delete_snapshot", "deregister_ami"}

ManualTypes == {"downsize_instance", "delete_vpc", "delete_rds_instance",
                "downsize_rds_instance", "delete_rds_snapshot"}

RecTypes == Boto3Types \cup RemediatorTypes \cup ManualTypes

\* How an approval of this type is executed; manual is the default.
ExecutionMode(r) ==
    IF TypeOf[r] \in Boto3Types THEN "boto3"
    ELSE IF TypeOf[r] \in RemediatorTypes THEN "remediator"
    ELSE "manual"

Ec2Types == {"stop_instance", "terminate_instance", "downsize_instance"}

\* The resource types find_vanished_resources has no checker for.
UncheckedTypes == {"delete_rds_instance", "downsize_rds_instance",
                   "delete_rds_snapshot", "deregister_ami"}

\* The sweep over the regions that answers for a recommendation's resource.
SweepOf(r) ==
    CASE TypeOf[r] \in Ec2Types                                -> "ec2_instance"
      [] TypeOf[r] \in {"migrate_gp2_to_gp3", "delete_volume"} -> "ebs_volume"
      [] OTHER                                                 -> TypeOf[r]

\* Types whose remediator reads any AWS client error as "the resource is gone".
SwallowsClientErrors == RemediatorTypes \ {"delete_load_balancer"}

\* live: the waste is there; used: the resource is there, no longer waste.
ResourceStates == {"live", "used", "stopped", "terminated", "gone"}

\* States of the instance in which the synchronisation resolves its
\* recommendation although the instance is still visible.
SettledInstance(r) ==
    CASE TypeOf[r] = "stop_instance"      -> {"stopped", "terminated"}
      [] TypeOf[r] = "terminate_instance" -> {"terminated"}
      [] OTHER                            -> {}

\* States of the resource in which nothing is left to recommend.
SettledStates(r) ==
    SettledInstance(r) \cup {"gone"}
        \cup (IF TypeOf[r] \in {"migrate_gp2_to_gp3", "delete_snapshot"}
              THEN {"used"} ELSE {})

LogStatuses == {"pending", "cancelled", "success", "failed"}

Workers == Requests \cup {Executor}

ASSUME ConstantsAssumption ==
    /\ TypeOf \in [Recs -> RecTypes]
    /\ PrRouted \subseteq Recs
    /\ Executor \notin Requests
    /\ NoRec \notin Recs
    /\ Settings \subseteq [dryRun : BOOLEAN, enabled : BOOLEAN, grace : BOOLEAN]
    /\ Settings # {}
    /\ DueLimit \in Nat \ {0}
    /\ MaxApprovals \in Nat
    /\ MaxFaults \in Nat
    /\ IsFiniteSet(Recs)
    /\ IsFiniteSet(Requests)

-----------------------------------------------------------------------------
VARIABLES
    status,       \* recommendations.status
    executeAfter, \* recommendations.execute_after: none, waiting or elapsed
    log,          \* rows of actions_log per recommendation and action_status
    resource,     \* the AWS resource behind each recommendation
    settings,     \* dry_run, the action switches, grace_period_days > 0
    worker,       \* the threads that execute approvals
    due,          \* the rows the executor selected and has still to handle
    sync,         \* the threads that synchronise with AWS
    approvals,    \* history: approvals received
    calls,        \* history: AWS write calls issued
    settled,      \* history: resources that have been in a settled state
    faults        \* history: interrupted threads

tables  == <<status, executeAfter, log>>
history == <<approvals, calls, settled, faults>>
vars    == <<tables, resource, settings, worker, due, sync, history>>

Pcs      == {"idle", "routing", "next", "execute", "remediating", "finalize",
             "record"}
Outcomes == {"none", "success", "failed", "notFound", "simulated"}

\* row: the remediator's own actions_log row while it is still open.
WorkerRecord == [pc : Pcs, rec : Recs \cup {NoRec}, dry : BOOLEAN,
                 outcome : Outcomes, row : {"none", "pending", "cancelled"}]

\* gone, done: rows still to resolve; row: the row read and not yet updated.
SyncRecord == [gone : SUBSET Recs, done : SUBSET Recs, row : Recs \cup {NoRec}]

IdleWorker == [pc |-> "idle", rec |-> NoRec, dry |-> TRUE,
               outcome |-> "none", row |-> "none"]
IdleSync   == [gone |-> {}, done |-> {}, row |-> NoRec]

TypeOK ==
    /\ status \in [Recs -> Statuses]
    /\ executeAfter \in [Recs -> {"none", "waiting", "elapsed"}]
    /\ log \in [Recs -> [LogStatuses -> Nat]]
    /\ resource \in [Recs -> ResourceStates]
    /\ settings \in Settings
    /\ worker \in [Workers -> WorkerRecord]
    /\ due \in SUBSET Recs
    /\ sync \in [Syncs -> SyncRecord]
    /\ approvals \in [Recs -> Nat]
    /\ calls \in [Recs -> Nat]
    /\ settled \in SUBSET Recs
    /\ faults \in Nat

\* terminate_instance is recommended for instances that are already stopped.
Init ==
    /\ status = [r \in Recs |-> "pending"]
    /\ executeAfter = [r \in Recs |-> "none"]
    /\ log = [r \in Recs |-> [s \in LogStatuses |-> 0]]
    /\ resource = [r \in Recs |->
          IF TypeOf[r] = "terminate_instance" THEN "stopped" ELSE "live"]
    /\ settings \in Settings
    /\ worker = [w \in Workers |-> IdleWorker]
    /\ due = {}
    /\ sync = [s \in Syncs |-> IdleSync]
    /\ approvals = [r \in Recs |-> 0]
    /\ calls = [r \in Recs |-> 0]
    /\ settled = {}
    /\ faults = 0

SetStatus(r, s) == status' = [status EXCEPT ![r] = s]

AddRow(r, s) == log' = [log EXCEPT ![r][s] = @ + 1]

SetResource(r, s) ==
    /\ resource' = [resource EXCEPT ![r] = s]
    /\ settled' = IF s \in SettledStates(r) THEN settled \cup {r} ELSE settled

-----------------------------------------------------------------------------
(* Requests that are one guarded UPDATE. A request whose guard is false    *)
(* changes nothing.                                                        *)

Reject(r) ==
    /\ status[r] \in {"pending", "approved_manual"}
    /\ SetStatus(r, "rejected")
    /\ UNCHANGED <<executeAfter, log, resource, settings, worker, due, sync,
                   history>>

Dismiss(r) ==
    /\ status[r] \in {"pending", "approved_manual"}
    /\ SetStatus(r, "dismissed")
    /\ UNCHANGED <<executeAfter, log, resource, settings, worker, due, sync,
                   history>>

Restore(r) ==
    /\ status[r] = "rejected"
    /\ SetStatus(r, "pending")
    /\ UNCHANGED <<executeAfter, log, resource, settings, worker, due, sync,
                   history>>

\* The second UPDATE closes every pending row of the recommendation, the one
\* a running remediator has open included.
Cancel(r) ==
    /\ status[r] = "scheduled"
    /\ SetStatus(r, "pending")
    /\ executeAfter' = [executeAfter EXCEPT ![r] = "none"]
    /\ log' = [log EXCEPT ![r] =
          [log[r] EXCEPT !.cancelled = @ + log[r].pending, !.pending = 0]]
    /\ worker' = [w \in Workers |->
          IF worker[w].rec = r /\ worker[w].row = "pending"
          THEN [worker[w] EXCEPT !.row = "cancelled"] ELSE worker[w]]
    /\ UNCHANGED <<resource, settings, due, sync, history>>

-----------------------------------------------------------------------------
(* Approval. The row is selected whatever its status, and dry_run is read  *)
(* before anything else.                                                   *)

ApproveBegin(q, r) ==
    /\ worker[q].pc = "idle"
    /\ approvals[r] < MaxApprovals
    /\ approvals' = [approvals EXCEPT ![r] = @ + 1]
    /\ worker' = [worker EXCEPT ![q] =
          [IdleWorker EXCEPT !.pc = "routing", !.rec = r,
                             !.dry = settings.dryRun]]
    /\ UNCHANGED <<tables, resource, settings, due, sync, calls, settled,
                   faults>>

\* maybe_open_pr ended the request: the pull request is open, or was refused
\* (dangling references, validation), or dry-run only proposed it.
ApproveByPr(q) ==
    LET r == worker[q].rec IN
    /\ worker[q].pc = "routing"
    /\ r \in PrRouted
    /\ \/ /\ ~worker[q].dry
          /\ SetStatus(r, "pr_open")
          /\ AddRow(r, "success")
       \/ UNCHANGED <<status, log>>
    /\ worker' = [worker EXCEPT ![q] = IdleWorker]
    /\ UNCHANGED <<executeAfter, resource, settings, due, sync, history>>

\* The execution mode at this moment: a disabled action degrades to manual.
CurrentMode(r) == IF settings.enabled THEN ExecutionMode(r) ELSE "manual"

MarkToDo(q) ==
    LET r == worker[q].rec IN
    /\ worker[q].pc = "routing"
    /\ CurrentMode(r) = "manual"
    /\ SetStatus(r, "approved_manual")
    /\ worker' = [worker EXCEPT ![q] = IdleWorker]
    /\ UNCHANGED <<executeAfter, log, resource, settings, due, sync, history>>

\* A dry-run approval of an automated action simulates: no status, no AWS.
Simulate(q) ==
    /\ worker[q].pc = "routing"
    /\ CurrentMode(worker[q].rec) # "manual"
    /\ worker[q].dry
    /\ worker' = [worker EXCEPT ![q] = IdleWorker]
    /\ UNCHANGED <<tables, resource, settings, due, sync, history>>

ScheduledRow(r) ==
    /\ SetStatus(r, "scheduled")
    /\ executeAfter' = [executeAfter EXCEPT ![r] = "waiting"]
    /\ AddRow(r, "pending")

Schedule(q) ==
    LET r == worker[q].rec IN
    /\ worker[q].pc = "routing"
    /\ CurrentMode(r) # "manual"
    /\ ~worker[q].dry
    /\ settings.grace
    /\ IF status[r] = "pending" THEN ScheduledRow(r) ELSE UNCHANGED tables
    /\ worker' = [worker EXCEPT ![q] = IdleWorker]
    /\ UNCHANGED <<resource, settings, due, sync, history>>

ApproveNow(q) ==
    /\ worker[q].pc = "routing"
    /\ CurrentMode(worker[q].rec) # "manual"
    /\ ~worker[q].dry
    /\ ~settings.grace
    /\ worker' = [worker EXCEPT ![q].pc = "execute"]
    /\ UNCHANGED <<tables, resource, settings, due, sync, history>>

\* Variant: only a success is logged.
ApproveRecordSuccessOnly(q) ==
    LET r == worker[q].rec
        ok == worker[q].outcome = "success"
    IN
    /\ worker[q].pc = "record"
    /\ IF ExecutionMode(r) = "boto3"
       THEN /\ IF ok THEN AddRow(r, "success") ELSE UNCHANGED log
            /\ SetStatus(r, IF ok THEN "approved" ELSE "pending")
       ELSE UNCHANGED <<status, log>>
    /\ worker' = [worker EXCEPT ![q] = IdleWorker]
    /\ UNCHANGED <<executeAfter, resource, settings, due, sync, history>>

\* After a direct EC2 execution the request logs the attempt and sets the
\* status, without a condition on the status it has now. A remediator has
\* already recorded everything itself.
ApproveRecord(q) ==
    LET r == worker[q].rec
        ok == worker[q].outcome = "success"
    IN
    /\ worker[q].pc = "record"
    /\ IF ExecutionMode(r) = "boto3"
       THEN /\ AddRow(r, IF ok THEN "success" ELSE "failed")
            /\ SetStatus(r, IF ok THEN "approved" ELSE "pending")
       ELSE UNCHANGED <<status, log>>
    /\ worker' = [worker EXCEPT ![q] = IdleWorker]
    /\ UNCHANGED <<executeAfter, resource, settings, due, sync, history>>

-----------------------------------------------------------------------------
(* Execution, by a request or by the executor.                             *)

Ended(w, o) == [worker EXCEPT ![w].pc = "record", ![w].outcome = o]

Issue(r) == calls' = [calls EXCEPT ![r] = @ + 1]

\* The state an AWS write leaves the resource in.
AfterWrite(r) ==
    CASE TypeOf[r] = "stop_instance"      -> "stopped"
      [] TypeOf[r] = "terminate_instance" -> "terminated"
      [] TypeOf[r] = "migrate_gp2_to_gp3" -> "used"
      [] OTHER                            -> "gone"

\* _execute_ec2_boto3: no region has the instance, a region could not answer,
\* the instance is already terminated, or the write is issued; its answer may
\* be lost after it took effect.
ExecuteEc2(w) ==
    LET r == worker[w].rec IN
    /\ worker[w].pc = "execute"
    /\ ExecutionMode(r) = "boto3"
    /\ \/ /\ resource[r] = "gone"
          /\ worker' = Ended(w, "notFound")
          /\ UNCHANGED <<resource, calls, settled>>
       \/ /\ worker' = Ended(w, "failed")
          /\ UNCHANGED <<resource, calls, settled>>
       \/ /\ resource[r] = "terminated"
          /\ worker' = Ended(w, "success")
          /\ UNCHANGED <<resource, calls, settled>>
       \/ /\ resource[r] \in {"live", "stopped"}
          /\ Issue(r)
          /\ \/ SetResource(r, AfterWrite(r)) /\ worker' = Ended(w, "success")
             \/ SetResource(r, AfterWrite(r)) /\ worker' = Ended(w, "failed")
             \/ UNCHANGED <<resource, settled>> /\ worker' = Ended(w, "failed")
    /\ UNCHANGED <<tables, settings, due, sync, approvals, faults>>

\* What a remediator's checks can end in, before it logs anything: the live
\* state cannot be read, the waste is gone, a policy refuses.
Refusals(r) ==
    (IF resource[r] = "gone" \/ TypeOf[r] \in SwallowsClientErrors
     THEN {"notFound"} ELSE {}) \cup {"failed"}

Refuse(w) ==
    LET r == worker[w].rec IN
    /\ worker[w].pc = "execute"
    /\ ExecutionMode(r) = "remediator"
    /\ \E o \in Refusals(r) : worker' = Ended(w, o)
    /\ UNCHANGED <<tables, resource, settings, due, sync, history>>

\* States the remediator acts on; the NAT gateway's does not check for waste.
VerifiedStates(r) ==
    IF TypeOf[r] = "delete_nat_gateway" THEN {"live", "used"} ELSE {"live"}

\* The live state is verified and every policy agrees: the attempt is logged.
Remediate(w) ==
    LET r == worker[w].rec IN
    /\ worker[w].pc = "execute"
    /\ ExecutionMode(r) = "remediator"
    /\ resource[r] \in VerifiedStates(r)
    /\ worker' = [worker EXCEPT ![w].pc = "remediating", ![w].row = "pending"]
    /\ UNCHANGED <<tables, resource, settings, due, sync, history>>

RemediatorCall(w) ==
    LET r == worker[w].rec
        Answer(o) == worker' = [worker EXCEPT ![w].pc = "finalize",
                                              ![w].outcome = o]
    IN
    /\ worker[w].pc = "remediating"
    /\ Issue(r)
    /\ \/ SetResource(r, AfterWrite(r)) /\ Answer("success")
       \/ SetResource(r, AfterWrite(r)) /\ Answer("failed")
       \/ UNCHANGED <<resource, settled>> /\ Answer("failed")
    /\ UNCHANGED <<tables, settings, due, sync, approvals, faults>>

\* Variant: the row of a failed attempt is left open.
RemediatorFinalizeSuccessOnly(w) ==
    LET r == worker[w].rec
        o == worker[w].outcome
    IN
    /\ worker[w].pc = "finalize"
    /\ IF o = "success" THEN AddRow(r, o) /\ SetStatus(r, "applied")
       ELSE UNCHANGED <<status, log>>
    /\ worker' = [worker EXCEPT ![w].pc = "record", ![w].row = "none"]
    /\ UNCHANGED <<executeAfter, resource, settings, due, sync, history>>

\* The remediator closes its row and, on success, marks the recommendation.
RemediatorFinalize(w) ==
    LET r == worker[w].rec
        o == worker[w].outcome
    IN
    /\ worker[w].pc = "finalize"
    /\ AddRow(r, o)
    /\ IF o = "success" THEN SetStatus(r, "applied") ELSE UNCHANGED status
    /\ worker' = [worker EXCEPT ![w].pc = "record", ![w].row = "none"]
    /\ UNCHANGED <<executeAfter, resource, settings, due, sync, history>>

\* The remediator loses its own connection after the call: its row stays open
\* and its caller is told of a failure.
RemediatorUnrecorded(w) ==
    /\ worker[w].pc = "finalize"
    /\ faults < MaxFaults
    /\ faults' = faults + 1
    /\ AddRow(worker[w].rec, worker[w].row)
    /\ worker' = [worker EXCEPT ![w].pc = "record", ![w].row = "none",
                                ![w].outcome = "failed"]
    /\ UNCHANGED <<status, executeAfter, resource, settings, due, sync,
                   approvals, calls, settled>>

-----------------------------------------------------------------------------
(* The grace-period executor.                                              *)

\* Time reaches execute_after.
GraceElapses(r) ==
    /\ executeAfter[r] = "waiting"
    /\ executeAfter' = [executeAfter EXCEPT ![r] = "elapsed"]
    /\ UNCHANGED <<status, log, resource, settings, worker, due, sync, history>>

\* Variant: the comparison of execute_after with the clock is reversed.
DueRowsTooEarly ==
    {r \in Recs : status[r] = "scheduled" /\ executeAfter[r] = "waiting"}

\* Variant: the query looks at the time only.
DueRowsAnyStatus == {r \in Recs : executeAfter[r] = "elapsed"}

DueRows == {r \in Recs : status[r] = "scheduled" /\ executeAfter[r] = "elapsed"}

\* One query and one read of dry_run for the whole run of the job. When the
\* limit truncates, the oldest rows are kept; here, any that many.
ExecutorSelect ==
    /\ worker[Executor].pc = "idle"
    /\ \E rows \in SUBSET DueRows :
          /\ rows # {}
          /\ Cardinality(rows) <= DueLimit
          /\ rows # DueRows => Cardinality(rows) = DueLimit
          /\ due' = rows
    /\ worker' = [worker EXCEPT ![Executor] =
          [IdleWorker EXCEPT !.pc = "next", !.dry = settings.dryRun]]
    /\ UNCHANGED <<tables, resource, settings, sync, history>>

\* What a row ends in when nothing real is to be done: recorded only, except
\* that a remediator in dry-run still runs its checks.
SimulatedOutcomes(r) ==
    IF CurrentMode(r) = "remediator"
    THEN Refusals(r)
            \cup (IF resource[r] \in VerifiedStates(r) THEN {"simulated"} ELSE {})
    ELSE {"simulated"}

ExecutorRow(r) ==
    /\ worker[Executor].pc = "next"
    /\ r \in due
    /\ due' = due \ {r}
    /\ IF CurrentMode(r) # "manual" /\ ~worker[Executor].dry
       THEN worker' = [worker EXCEPT ![Executor].pc = "execute",
                                     ![Executor].rec = r]
       ELSE \E o \in SimulatedOutcomes(r) :
               worker' = [worker EXCEPT ![Executor].pc = "record",
                                        ![Executor].rec = r,
                                        ![Executor].outcome = o]
    /\ UNCHANGED <<tables, resource, settings, sync, history>>

\* Variant: a failed execution is left scheduled, to be tried again.
GraceExecutionStatusRetry(o) ==
    CASE o = "success"  -> "approved"
      [] o = "notFound" -> "obsolete"
      [] OTHER          -> "scheduled"

\* _grace_execution_status.
GraceExecutionStatus(o) ==
    CASE o = "success"  -> "approved"
      [] o = "notFound" -> "obsolete"
      [] OTHER          -> "pending"

\* Variant: a failed execution stays scheduled and due.
ExecutorRecordRetry ==
    LET r == worker[Executor].rec
        o == worker[Executor].outcome
    IN
    /\ worker[Executor].pc = "record"
    /\ IF worker[Executor].dry \/ o = "simulated"
       THEN UNCHANGED log
       ELSE AddRow(r, IF o = "success" THEN "success" ELSE "failed")
    /\ IF o = "failed" THEN UNCHANGED <<status, executeAfter>>
       ELSE /\ SetStatus(r, GraceExecutionStatus(o))
            /\ executeAfter' = [executeAfter EXCEPT ![r] = "none"]
    /\ worker' = [worker EXCEPT ![Executor].pc = "next",
                                ![Executor].rec = NoRec,
                                ![Executor].outcome = "none"]
    /\ UNCHANGED <<resource, settings, due, sync, history>>

\* One commit per row: the attempt is logged (as a dry run when nothing real
\* was attempted) and the status set, whatever it has become meanwhile.
ExecutorRecord ==
    LET r == worker[Executor].rec
        o == worker[Executor].outcome
    IN
    /\ worker[Executor].pc = "record"
    /\ IF worker[Executor].dry \/ o = "simulated"
       THEN UNCHANGED log
       ELSE AddRow(r, IF o = "success" THEN "success" ELSE "failed")
    /\ SetStatus(r, GraceExecutionStatus(o))
    /\ executeAfter' = [executeAfter EXCEPT ![r] = "none"]
    /\ worker' = [worker EXCEPT ![Executor].pc = "next",
                                ![Executor].rec = NoRec,
                                ![Executor].outcome = "none"]
    /\ UNCHANGED <<resource, settings, due, sync, history>>

ExecutorDone ==
    /\ worker[Executor].pc = "next"
    /\ due = {}
    /\ worker' = [worker EXCEPT ![Executor] = IdleWorker]
    /\ UNCHANGED <<tables, resource, settings, due, sync, history>>

-----------------------------------------------------------------------------
(* The AWS synchronisation. The list of open recommendations and the sweep *)
(* of the regions are one step: a row that opens between the two is only   *)
(* left to the next pass, and every update looks at the row again.         *)

\* Sweeps that lost a region conclude nothing about what they did not find.
\* F: the rows a failing region leaves without an answer.
Unanswered(ids, F) ==
    \A r, s \in ids :
       r \in F /\ SweepOf(r) = SweepOf(s) /\ resource[s] = "gone" => s \in F

\* Variant: a region that does not answer counts as one without the resource.
FoundGoneOrUnanswered(ids, F) ==
    {r \in ids : (resource[r] = "gone" \/ r \in F) /\ TypeOf[r] \notin UncheckedTypes}

FoundGone(ids, F) ==
    {r \in ids \ F : resource[r] = "gone" /\ TypeOf[r] \notin UncheckedTypes}

FoundDone(ids, F) == {r \in ids \ F : resource[r] \in SettledInstance(r)}

SyncPass(s, F) ==
    LET ids == {r \in Recs : status[r] \in SyncableStatuses} IN
    /\ sync[s] = IdleSync
    /\ F \subseteq ids
    /\ Unanswered(ids, F)
    /\ sync' = [sync EXCEPT ![s].gone = FoundGone(ids, F),
                            ![s].done = FoundDone(ids, F)]
    /\ UNCHANGED <<tables, resource, settings, worker, due, history>>

SyncBegin(s) == \E F \in SUBSET Recs : SyncPass(s, F)

\* The human decided and the resource is gone: that is the execution.
ResolvedStatus(r) ==
    IF status[r] = "approved_manual" THEN "applied" ELSE "obsolete"

\* _resolve_vanished, and its EC2 twin: one UPDATE that checks the status.
SyncResolveGone(s, r) ==
    /\ sync[s].row = NoRec
    /\ r \in sync[s].gone
    /\ sync' = [sync EXCEPT ![s].gone = @ \ {r}]
    /\ IF status[r] \in SyncableStatuses
       THEN SetStatus(r, ResolvedStatus(r)) ELSE UNCHANGED status
    /\ UNCHANGED <<executeAfter, log, resource, settings, worker, due, history>>

\* An instance that is stopped or terminated: the row is read if it is still
\* open, then updated by its id alone.
SyncReadRow(s, r) ==
    /\ sync[s].row = NoRec
    /\ r \in sync[s].done
    /\ sync' = [sync EXCEPT ![s].done = @ \ {r},
                            ![s].row = IF status[r] \in SyncableStatuses
                                       THEN r ELSE NoRec]
    /\ UNCHANGED <<tables, resource, settings, worker, due, history>>

SyncUpdateRow(s) ==
    LET r == sync[s].row IN
    /\ r # NoRec
    /\ SetStatus(r, ResolvedStatus(r))
    /\ sync' = [sync EXCEPT ![s].row = NoRec]
    /\ UNCHANGED <<executeAfter, log, resource, settings, worker, due, history>>

-----------------------------------------------------------------------------
(* The other writers of the rows.                                          *)

\* Variant: the update does not check the status.
PrSyncUnguarded(r) ==
    /\ \E s \in {"approved", "rejected"} : SetStatus(r, s)
    /\ UNCHANGED <<executeAfter, log, resource, settings, worker, due, sync,
                   history>>

\* sync_open_prs: a merged pull request approves, a closed one rejects.
PrSync(r) ==
    /\ status[r] = "pr_open"
    /\ \E s \in {"approved", "rejected"} : SetStatus(r, s)
    /\ UNCHANGED <<executeAfter, log, resource, settings, worker, due, sync,
                   history>>

\* The idle-instance detector revives an obsolete recommendation as long as
\* the metrics of the last week say idle, whatever the instance is now; every
\* other upsert leaves the status alone. (It may also turn a stop into a
\* downsize or back; types are fixed here, Detection follows them.)
DetectorRevives(r) ==
    /\ TypeOf[r] \in {"stop_instance", "downsize_instance"}
    /\ status[r] = "obsolete"
    /\ SetStatus(r, "pending")
    /\ UNCHANGED <<executeAfter, log, resource, settings, worker, due, sync,
                   history>>

\* mark_ami_backed_obsolete: a snapshot that backs an image is not waste.
DetectorRetires(r) ==
    /\ TypeOf[r] = "delete_snapshot"
    /\ resource[r] = "used"
    /\ status[r] = "pending"
    /\ SetStatus(r, "obsolete")
    /\ UNCHANGED <<executeAfter, log, resource, settings, worker, due, sync,
                   history>>

\* What the account owner, or AWS itself, does to a resource.
OwnerMoves(r) ==
    IF TypeOf[r] \in Ec2Types
    THEN {<<"live", "stopped">>, <<"stopped", "live">>, <<"live", "terminated">>,
          <<"stopped", "terminated">>, <<"terminated", "gone">>}
    ELSE {<<"live", "used">>, <<"used", "live">>, <<"live", "gone">>,
          <<"used", "gone">>}

OwnerActs(r) ==
    /\ \E s \in ResourceStates :
          <<resource[r], s>> \in OwnerMoves(r) /\ SetResource(r, s)
    /\ UNCHANGED <<tables, settings, worker, due, sync, approvals, calls,
                   faults>>

SaveSettings ==
    /\ settings' \in Settings
    /\ settings' # settings
    /\ UNCHANGED <<tables, resource, worker, due, sync, history>>

\* The thread dies with the process, or its database connection breaks: what
\* it had not committed is lost, the AWS calls it made are not.
Interrupt(w) ==
    /\ worker[w].pc # "idle"
    /\ faults < MaxFaults
    /\ faults' = faults + 1
    /\ IF worker[w].row = "none"
       THEN UNCHANGED log ELSE AddRow(worker[w].rec, worker[w].row)
    /\ worker' = [worker EXCEPT ![w] = IdleWorker]
    /\ due' = IF w = Executor THEN {} ELSE due
    /\ UNCHANGED <<status, executeAfter, resource, settings, sync, approvals,
                   calls, settled>>

-----------------------------------------------------------------------------
Click(r) == Reject(r) \/ Dismiss(r) \/ Cancel(r) \/ Restore(r)

Execute(w) ==
    \/ ExecuteEc2(w)
    \/ Refuse(w)
    \/ Remediate(w)
    \/ RemediatorCall(w)
    \/ RemediatorFinalize(w)

ApproveStep(q) ==
    \/ ApproveByPr(q)
    \/ MarkToDo(q)
    \/ Simulate(q)
    \/ Schedule(q)
    \/ ApproveNow(q)
    \/ ApproveRecord(q)

ExecutorStep ==
    \/ ExecutorSelect
    \/ \E r \in Recs : ExecutorRow(r)
    \/ ExecutorRecord
    \/ ExecutorDone

SyncStep(s) ==
    \/ \E r \in Recs : SyncResolveGone(s, r) \/ SyncReadRow(s, r)
    \/ SyncUpdateRow(s)

Elsewhere(r) ==
    \/ PrSync(r)
    \/ DetectorRevives(r)
    \/ DetectorRetires(r)
    \/ OwnerActs(r)

Next ==
    \/ \E r \in Recs : Click(r) \/ GraceElapses(r) \/ Elsewhere(r)
    \/ \E q \in Requests : ApproveStep(q) \/ \E r \in Recs : ApproveBegin(q, r)
    \/ \E w \in Workers : Execute(w) \/ RemediatorUnrecorded(w) \/ Interrupt(w)
    \/ ExecutorStep
    \/ \E s \in Syncs : SyncBegin(s) \/ SyncStep(s)
    \/ SaveSettings

Spec == Init /\ [][Next]_vars

\* The scheduler runs each job every five minutes and a thread that runs
\* finishes its work; a sweep of the regions in which every region answers
\* comes back again and again, whatever fails in between.
Fairness ==
    /\ \A r \in Recs : WF_vars(GraceElapses(r))
    /\ WF_vars(ExecutorStep)
    /\ \A w \in Workers : WF_vars(Execute(w))
    /\ \A q \in Requests : WF_vars(ApproveStep(q))
    /\ \A s \in Syncs : WF_vars(SyncStep(s)) /\ SF_vars(SyncPass(s, {}))

FairSpec == Spec /\ Fairness

-----------------------------------------------------------------------------
(* Safety                                                                  *)

\* Requests that still may write to AWS, or schedule, for r.
InFlight(r) ==
    {q \in Requests : /\ worker[q].rec = r
                      /\ worker[q].pc \in {"routing", "execute", "remediating"}}

\* The executor has r in hand and will not write for it any more.
ExecutorSpent(r) ==
    worker[Executor].rec = r /\ worker[Executor].pc \in {"finalize", "record"}

\* The executor still may write for r, in this run or in a later one.
ExecutorOwes(r) ==
    /\ ~ExecutorSpent(r)
    /\ \/ status[r] = "scheduled"
       \/ r \in due
       \/ worker[Executor].rec = r

Owed(r) == Cardinality(InFlight(r)) + (IF ExecutorOwes(r) THEN 1 ELSE 0)

\* Every AWS write has an approval of its own: the writes issued and those
\* still to come never outnumber the approvals, but for one repetition per
\* interrupted thread. A scheduled row selected, cancelled, approved again
\* and executed late, or two approvals racing, must not write twice.
CallsWithinApprovals ==
    \A r \in Recs : calls[r] + Owed(r) <= approvals[r] + faults

\* The writes of r whose rows are still to be written.
Unlogged(r) ==
    {w \in Workers : /\ worker[w].rec = r
                     /\ \/ worker[w].pc = "finalize"
                        \/ worker[w].pc = "record" /\ ExecutionMode(r) = "boto3"}

\* An AWS write leaves a row in actions_log: each one is recorded as a success
\* or a failure, is about to be, or was cut off by an interruption. A direct
\* EC2 write has no row before the call, only after it.
AuditTrail ==
    \A r \in Recs :
       calls[r] <= log[r].success + log[r].failed
                      + Cardinality(Unlogged(r)) + faults

\* A scheduled row can fire and can be seen: it has the time at which the
\* executor takes it and an open row in the history. Both are written by
\* several statements of several threads.
ScheduledCanFire ==
    \A r \in Recs :
       status[r] = "scheduled" => executeAfter[r] # "none" /\ log[r].pending > 0

\* A recommendation leaves the waste because its resource did: obsolete and
\* applied say that the resource really was seen gone, stopped or migrated.
\* A region that does not answer, or a list read long ago, must not do it.
ResolvedOnEvidence ==
    \A r \in Recs : status[r] \in {"obsolete", "applied"} => r \in settled

\* Nothing is decided without a human: a recommendation that was never
\* approved is never scheduled, proposed, on the to-do list, approved or
\* applied, whatever the jobs do with it.
ExplicitDecision ==
    \A r \in Recs :
       approvals[r] = 0 =>
          /\ status[r] \notin {"scheduled", "pr_open", "approved_manual",
                               "approved", "applied"}
          /\ calls[r] = 0

\* While dry-run is never switched off, no path writes to AWS, schedules,
\* opens a pull request or records a real action.
DryRunTouchesNothing ==
    (\A s \in Settings : s.dryRun) =>
       \A r \in Recs :
          /\ calls[r] = 0
          /\ \A s \in LogStatuses : log[r][s] = 0
          /\ status[r] \notin {"scheduled", "pr_open", "approved"}

-----------------------------------------------------------------------------
(* Liveness                                                                *)

\* A grace period ends: the approval is executed, cancelled or overtaken, but
\* no recommendation stays scheduled for ever.
ScheduledResolves ==
    \A r \in Recs : status[r] = "scheduled" ~> status[r] # "scheduled"

\* What is open: still counted as waste, or about to be acted upon.
OpenStatuses == {"pending", "rejected", "scheduled", "pr_open",
                 "approved_manual"}

\* A resource that disappeared does not stay on the list of open waste,
\* whatever the users click meanwhile.
GoneIsResolved ==
    \A r \in Recs : resource[r] = "gone" ~> status[r] \notin OpenStatuses

=============================================================================
