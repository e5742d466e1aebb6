# A TLA+ model of wasteless

wasteless finds waste in an AWS account, recommends what to do about it, and
executes what a human approves. This directory holds the verification project
kept beside its code: TLA+ modules, the TLC configurations that check them on
small instances, and theorems that TLAPS proves for every instance.

## Inventory

| Component | State it keeps | Operations | What makes it correct | Modules |
|---|---|---|---|---|
| Recommendation actions (`ui/routes/recommendations.py`) | `recommendations.status`, `execute_after`, `actions_log` | reject, dismiss, cancel, restore, approve; a batch commits once | no AWS write without an approval of its own; every write leaves a record; the status a guarded UPDATE met holds until its commit | `RecommendationLifecycle`, `ActionBatch` |
| Grace-period executor (`ui/jobs.py`) | the rows it selected | select due rows, execute, record, one commit per row | a grace period ends; one approval is one write | `RecommendationLifecycle` |
| AWS synchronisation (`ui/jobs.py`, `ui/utils/aws_sync.py`, `ui/routes/sync.py`) | none between passes | sweep the regions, resolve what is gone, stopped or terminated | only on evidence; whatever is gone is resolved | `RecommendationLifecycle`, `Detection` |
| Terraform pull requests (`ui/utils/terraform_pr.py`, `src/remediators/terraform_*.py`) | status `pr_open`, branches and pull requests | route, locate, edit, push, open, reconcile | one open pull request per resource; merged means approved; nothing under Terraform is removed behind its back | `PullRequests` |
| Resource remediators (`src/remediators/resource_remediator.py`, `ui/utils/remediator.py`) | `actions_log`, `rollback_snapshots` | re-read, re-verify, refuse, log, write, record | checked on live data; the record matches the write; a deleted volume can be restored | `Remediation` |
| Safeguards (`src/core/safeguards.py`) | none | the checks of the policy | what the policy protects is left alone | `Remediation` |
| Collection (`wasteless.sh`, `src/run_collection.py`, `ui/utils/collect.py`) | the lock directory and its pid, `collection_runs` | take the lock, run the steps, record, release | one collection at a time; a stale lock does not block for ever; a healthy run lost nothing | `CollectLock`, `Detection` |
| Detectors (`src/detectors`), metrics collectors (`src/collectors`), insights (`src/core/llm.py`), orphan cleanup | `ec2_metrics`, `waste_detected`, `recommendations` | upsert, revive, retire, explain | a decided row is left alone; waste surfaces; an insight speaks of the action proposed | `Detectors`, `Detection` |
| Savings verifier, pools (`src/trackers`, `src/core/database.py`) | `savings_realized`, pool slots | list, verify, record | an action is verified once; no saving is invented; every slot is accounted for | `SavingsVerification` |
| Settings store (`ui/utils/config_manager.py`) | `config/remediation.yaml` and its backup | load, save, 20 setters | no setting is lost; a damaged file does not arm anything | `ConfigStore` |
| Instance scheduler (`ui/jobs.py`) | cron jobs | stop, start, reschedule | never acts in dry-run or on what is protected, although it reads a file others replace | `InstanceSchedule` |
| EC2 remediator script, cost collection, dashboards, reports, setup | upserted rows | read and write data | see "What is not modelled" | |

The application is one process. Routes are plain functions run by a pool of
threads, jobs are run by APScheduler with one instance of each at a time. They
share no lock: they meet in PostgreSQL (READ COMMITTED), in the settings file,
in AWS and on GitHub. Detection runs in other processes, started every five
minutes and on demand. What is hard is what happens between two statements, or
between a statement and an AWS call: every writer of a status looks at it at one
moment and writes it at another, AWS writes cannot be rolled back, regions fail,
and processes die. `PROJECT.json` lists each such place under "hazards".

The modules divide the system where the code does. `RecommendationLifecycle` is
the core: every writer of a recommendation against every other, with the other
components reduced to their outcomes. `ActionBatch`, `Remediation` and
`PullRequests` open up three of its steps: the transaction of a request, the
attempt of a remediator, the route to a pull request. `Detection` is what
happens to the rows before anybody decides, `SavingsVerification` what happens
after. `InstanceSchedule` runs on top of `ConfigStore` (it EXTENDS it and adds a
variable): the two share the file and its lock. `RecommendationLifecycle` is
shown to implement `ApprovalLedger`.

## Modules

### RecommendationLifecycle, ApprovalLedger, LifecycleLedger

The rows of `recommendations` and `actions_log`, the resource behind each
recommendation, and all that moves them. A step is one statement, one AWS or
GitHub call, or one read of the settings.

| Variable | Code |
|---|---|
| `status`, `executeAfter` | the columns of `recommendations`; `executeAfter` says whether the time is ahead or reached |
| `log` | for each recommendation, how many rows of `actions_log` that are not dry-run have each `action_status` |
| `resource` | what AWS would answer about the resource |
| `settings` | `dry_run`, the switch of the action, `grace_period_days > 0` |
| `worker` | the local variables of a thread that executes an approval: request threads and the executor |
| `due` | the rows `grace_executor_job` fetched and has still to handle |
| `sync` | the lists a synchronisation holds after its sweep, and the row it read and will update by id |
| `approvals`, `calls`, `settled`, `faults` | history |

| Action | Code |
|---|---|
| `Reject`, `Dismiss`, `Cancel`, `Restore` | the guarded UPDATEs of `/api/actions`; a false guard changes nothing |
| `ApproveBegin`, then `ApproveByPr`, `MarkToDo`, `Simulate`, `Schedule` or `ApproveNow` | an approval: the row is read whatever its status and `dry_run` is read first; the pull request, the mode and the grace period decide the rest |
| `ExecuteEc2`, `ApproveRecord` | `_execute_ec2_boto3` and the record of the request, unconditioned |
| `Refuse`, `Remediate`, `RemediatorCall`, `RemediatorFinalize`, `RemediatorUnrecorded` | `ResourceRemediator.remediate` on its own connection |
| `GraceElapses`, `ExecutorSelect`, `ExecutorRow`, `ExecutorRecord`, `ExecutorDone` | `grace_executor_job`, one run |
| `SyncPass`, `SyncResolveGone`, `SyncReadRow`, `SyncUpdateRow` | `sync_aws_job` and the Sync AWS button |
| `PrSync`, `DetectorRevives`, `DetectorRetires`, `OwnerActs`, `SaveSettings` | the other writers, the account owner, the settings page |
| `Interrupt` | a thread dies or loses its database: uncommitted rows are lost, AWS writes are not |

Abstractions. Simulations and manual decisions write rows flagged dry-run and
those are not counted. The type of a recommendation is fixed (the idle detector
may turn a stop into a downsize). Effects on rows happen at their statement;
the row lock held until the commit only delays the other writers (`ActionBatch`
has the locks). The list of open rows and the sweep are one step, since every
later update reads the row again. The policy checks are one nondeterministic
refusal (`Remediation` has them).

`ApprovalLedger` is the abstract specification of the core: an approval opens a
credit for one AWS write, a write spends a credit, a credit may lapse, and only
the death of a thread may open another. `LifecycleLedger` instantiates it with
credit mapped to `Owed`, the writes the threads, the executor and the scheduled
rows still have to come, and `ApprovalsAreCredits` says that every step of the
lifecycle is a step of the ledger or a stutter.

### ActionBatch

`POST /api/actions` as one transaction. `table` holds the committed statuses,
`lock` the holder of each row, `req` the state of each request (place in its
list, answers, uncommitted updates with the status they were made upon,
uncommitted log rows, whether PostgreSQL aborted it), `aws` and `logged` the
writes and their committed records.

| Action | Code |
|---|---|
| `Decide` | a guarded UPDATE: locks the row, or waits for its holder and looks again; the to-do list and the schedule of an approval too |
| `CallAws`, `Record` | an approval executed through boto3: the call, then the log row and the status |
| `Remediate`, `Apply` | an approval executed by a remediator, whose last commit waits for the row on a connection of its own |
| `StatementFails`, `Deadlock`, `FailNext`, `Commit`, `Break` | an error aborts the transaction; the cycles PostgreSQL sees; the entries after an abort fail; the commit of an aborted transaction rolls back and raises nothing; a connection or a process that dies |

Dry runs and pull requests are left out here: they write to no row locked here,
or are `PullRequests`'. The statuses before are given by `Initial`.

### Remediation

One guarded attempt per worker, one database or AWS call a step, for the seven
kinds of remediator. `cloud`, `copies` and `leftover` are what AWS holds (the
resource, the snapshot of a volume, the snapshots behind an image), `log`,
`rollback` and `rec` the tables, `policy` the file, `at` the attempts.

| Action | Code |
|---|---|
| `Begin` | the proxy builds the remediator with the policy of that moment |
| `Describe` | `get_resource_state`, `verify_still_wasteful` |
| `Check` | the safeguards: switch of the action, whitelist by id and by tag, confidence, schedule, master switch |
| `LogAction`, `CreateRollback` | two commits before anything is written to AWS |
| `CopyVolume`, `AttachCopy` | a volume is copied first; the snapshot goes into the newest rollback row of the resource |
| `Act`, `CleanImage` | the write; the snapshots behind an image, one by one |
| `Record`, `Fail` | the last transaction, or the handler |
| `OwnerMoves`, `EditPolicy`, `Crash` | the environment |

The policy is what a built `Safeguards` object can hold (`ValidPolicy`); a file
it refuses builds no remediator. `check_schedule` compares with the local time
of the server, so whether a moment is within the hours is a free choice. The
`'blocked'` status of the log is never reached by the code and is not modelled.

### PullRequests

The Terraform route of an approval and `terraform_pr_sync_job`, with GitHub
and its people as environment: `base` is the branch pull requests are opened
against, `declared` and `refs` say what it and the default branch declare and
refer to, `branches` and `prs` are what wasteless pushed and opened.

| Action | Code |
|---|---|
| `Approve`, `Route` | `maybe_open_pr`: a policy that cannot be read requires no pull request |
| `Prepare` | clone, locate, `find_references`, `remove_block`, `validate`: all on the clone, which is of the default branch (`Cloned`) whatever `base_branch` names; `Unprepared` is a failure of any of them |
| `Push`, `CreatePr`, `Record` | the branch named after the resource, `gh pr create`, the row |
| `Direct` | the route of what Terraform does not manage or the mapper cannot locate |
| `SyncRead`, `SyncAsk`, `SyncUpdate`, `SyncCommit` | `sync_open_prs`, one transaction |
| `Merge`, `Close`, `Reopen`, `DeleteBranch`, `EditCode`, `Skip` | people |

The text of the Terraform files is abstracted to blocks and to whether other
code refers to them. A block with `count` or `for_each` is one block, which is
how the editor removes it. A block leaves a branch through a merge only, people
edit references on either branch, and nobody else brings one branch into the
other. Merging into a branch that is not the default one may also bring along
what the two differ by (`Crossed`).

### Detectors, Detection

`Detectors` has each of the thirteen detectors as a record (what it looks for,
what it writes, whether its upsert revives or renames) and the arithmetic of
`ec2_idle` in whole numbers (averages, confidence with its caps, drift).
`Detection` runs them: `run_pipeline` step after step, one transaction a step of
the model.

| Variable | Code |
|---|---|
| `kind`, `cloud` | the resources and what AWS says of them |
| `samples`, `waste`, `rec` | `ec2_metrics` per day of the window, `waste_detected`, `recommendations` (with the action the insight speaks of) |
| `steps`, `pc`, `items`, `todo` | the running pipeline: steps still to end, phase, findings, rows to explain |
| `failed`, `lost`, `report` | what `record_run` is told, what was really lost, the row it wrote |

| Action | Code |
|---|---|
| `StartRun`, `RecordRun` | `run_pipeline`, `record_run` with its second INSERT |
| `Collect` | the CloudWatch collector: one upsert a day per running instance |
| `Detect`, `SaveWaste`, `Recommend` | a detector's three phases; a skipped region, an exit code |
| `ReadPending`, `WriteInsight`, `EnrichDone` | `enrich_recommendations`: insights are stored by id after a slow call |
| `Decide`, `Restore`, `SyncResolves`, `CleanupOrphans`, `RefreshMetrics`, `CloudChanges`, `DayPasses` | users, the synchronisation, the script, the alternative collector, the cloud, midnight |

Abstractions. A run executes only the steps that look at a resource of the
instance. One sample a day stands for the datapoints of a day. The orphan
cleanup is one step and AWS is asked about one region, as in the script; it
marks decided and applied rows too. The alternative collector is run by hand and
counts as a fault; it inserts days that were missing and rewrites both the CPU and
the state of the others. `MarkAmiBacked` may miss some of the snapshots behind an
image (the images of a skipped region, a failed UPDATE that is only logged). The
limit on the number of insights is dropped (any row may be left without one). Prices are constants of one resource per kind. The fallback
of `record_run`, which any error of the first INSERT takes, is `report.guessed`.

### SavingsVerification

`savings_verifier_job`, `SavingsTracker` and the pool both share with the
remediators. `log` is `actions_log`, `cost` the daily bill of each instance,
`savings` the table `savings_realized`, `job` the run with the rows it listed and
has still to verify, the oldest first (`Oldest`), `out` the slots the pool counts
as taken, `holders` the remediators that have one, `lost` the slots lost to trackers
since the process started, `visits` the number of the run, which goes on counting
across restarts. `Look`, `BuildTracker`,
`List`, `Verify`, `Close` are the run; `LogAction`, `BuildRemediator`,
`DropRemediator`, `DayPasses`, `Restart` the rest. Days are counted as
`get_instance_cost_for_period` counts them: the day of the action belongs to the
period after it, an action younger than the window is measured on the days there
are.

### CollectLock

The lock of `wasteless.sh collect` and `run_collection.py`, one file-system
call per step: `Start` (mkdir), `Check` (read the pid), `Unlink`, `Rmdir`
(remove a stale lock), `Retry` (mkdir again), `Write` (the pid), `Finish`,
`Release`, `Leave` (the removal at the end, whoever's the lock is), `Crash` at
any point, `Stop` (`wasteless stop`, or the trap of an interrupted shell
collection that goes on). The launchers differ in one place: when the directory
has gone, the shell goes on after the failed write of the pid and Python ends.
Process identifiers are not reused, and the detection steps that a killed shell
leaves behind are not followed.

### ConfigStore

`config/remediation.yaml`, the routes that change it and the cron jobs that are
built from it. A route runs in a thread; a step is one critical section of
`_config_lock`, or one write of the save. Three sections stand for the file:
`dry_run` for all that is overwritten, `whitelist` for what is edited,
`instance_schedule` for what is merged and rebuilt into jobs.

| Action | Code |
|---|---|
| `Begin`, `Load`, `LoadNothing`, `Reload` | a route starts; `load_config`; its failure on an empty file; the second load of `set_instance_schedule` |
| `Open`, `OpenWithoutBackup`, `Truncate`, `Write`, `DiskFull` | `save_config`; the text reaches the disk in `close`, after which the lock is released |
| `Fail`, `Restore`, `Refill` | its exception handler, without the lock |
| `GiveUp` | ten seconds without the lock |
| `Reread`, `Rebuild` | `reschedule_instance_jobs` |
| `Start`, `Die` | startup (file from the template, jobs from the file) and the end of the process |

Variables `asked`, `stale`, `disturbed`, `torn` and `unannounced` are history:
the policy the successful answers add up to, who holds something another save
has overtaken, whether it was used, whether a write was lost to a full disk or a
death, and whether a save did not reach the scheduler.

Abstractions. The policy is smaller than Python's text buffer (8 KiB; the
template has 1.4 KiB), so its text is written by one call; text that is cut in
the middle counts as empty. Only threads of one process are modelled: between
processes the flock would be released before the text is written. Nobody
deletes the file while the application runs. Values are valid: a request whose
value is refused changes nothing. Safeguards and `RemediationConfig` read the
file without a lock; an empty file gives them no `auto_remediation.enabled`, or
an exception, so it arms nothing.

### InstanceSchedule

A run of the jobs that stop and start tagged instances, on the settings store:
`Fire`, `ReadSchedule`, `ReadDryRun`, `Targets` (three loads of the file, each
of which meets whatever the threads of the settings page have made of it),
`Unreadable` (an empty file or a lock that is not free: the load raises), `Act`
(one instance and its log row) and `RunEnds`. One run at a time, as the
scheduler runs it; the schedule's own `dry_run` is off, for on it keeps every run
dry. `StoreStep` is a step of the store, of which the run only remembers (`live`,
`free`) what the successful answers said meanwhile.

## Runs

| Run | Instance | What it shows |
|---|---|---|
| LifecycleOne | one `stop_instance` that may be routed to a pull request, two request threads, executor, one sync, four settings, 2 approvals, 1 fault | five safety properties under every writer, and the refinement of the ledger |
| LifecycleLive | one `delete_snapshot` (executed by a remediator), two syncs, with and without a grace period | the audit trail and the ledger for the other way of executing; a grace period ends; what is gone is resolved |
| ActionBatch | two requests on three recommendations, one of each execution mode, their lists in both orders, four initial tables, 1 fault | the status an UPDATE met holds until the commit; a rollback shows in the answers; writes are in the history; requests end |
| Remediation | two attempts on one resource of each of the seven kinds in turn, four policies, 1 fault | rollback, re-verification and history, while the owner and the policy change |
| PullRequests | two threads, two resources (one declared in a child module that is kept elsewhere), a base branch that is the default one or not, the first block there or not yet on each, 3 approvals, 1 fault, 2 moves of people | one open pull request, statuses that follow it, nothing removed behind Terraform |
| Detection | one resource of each of five kinds in turn, nine of the fourteen steps, a window of 2 days, outside `AWS_REGION`, 1 fault | decided rows are left alone; waste surfaces whatever failed before; insights and healthy runs tell the truth |
| Savings | two instances, stops, dry stops and terminations, a pool of 2, a window of 2 days, 5 days, 2 actions, 1 fault | one measurement per action, no invented saving, the slots of the pool |
| CollectLock | three launchers, 2 crashes, 1 stop, shell | spaced collections exclude each other; collections go on for ever |
| ConfigStore | two threads, one instance, one time, four requests, a run of the schedule, 1 fault; search stops at states where something overtaken was used, about which the invariants say nothing | the file is the sum of the successful answers; it stays readable; the jobs follow it; a scheduled run obeys both switches |
| PrRemovesAll, WhitelistTags, LostUpdate | the smallest instance of each | three disagreements between the code and what its documentation or comments say |

Every property of a passing run has a mutant in `PROJECT.json`: a plausible bug,
written beside the definition it replaces, under which TLC finds the property
violated on the same instance.

The bounds. Two approvals of one recommendation are enough for a schedule, a
cancel and a second approval, or two racing requests; a third repeats one of
those. One fault separates a write from its record, and the proofs cover any
number of faults, of rows and of the executor's `LIMIT`. Three collections give
one holder, one that reclaims and one that starts meanwhile. Two threads of the
settings page are symmetric; the run of the schedule reads the file between any
two of their steps, and the proofs cover any number of threads, faults and
requests (the library of requests is cut to the switches a run can see). Lists of
two and three recommendations are what it takes for two batches to wait for each
other, inside the database and through a remediator. Two overlapping attempts
give every interleaving of a check with another's write. In `Detection` a window
of two days has a full and a partial one, a group of each state, and a sample
that leaves; detectors left out of the run (`eip_orphan`, `nat_gateway_unused`,
`vpc_unused`, `ami_orphan`, `rds_snapshot_orphan`) have the record of
`elb_unused` with other names and prices. In `Savings` five days let an action
be measured on a partial and on a full window, and the pool of two be exhausted.
Three approvals and two moves give a pull request that is closed, retried and
reopened; a move more is a repetition.

Deadlock is not checked where the system may stop: requests are finite
(`ActionBatch`), bounds of TLC are reached (`Remediation`, `Savings`,
`PullRequests`), or a fault has emptied the settings file and the application
does not start again (`ConfigStore`).

The properties:

- `CallsWithinApprovals`: writes issued and writes still owed never exceed the
  approvals, but for one repetition per interrupted thread.
  `ApprovalsAreCredits`: no single step makes two writes of one approval.
- `AuditTrail`: a write is recorded, or about to be, or its thread died.
- `ScheduledCanFire`: a scheduled row has a time and an open history row.
- `ResolvedOnEvidence`: obsolete and applied only after the resource really was
  in a settled state. It holds for the types whose execution does not swallow
  errors of AWS, of which `stop_instance` is one (see below).
- `ExplicitDecision`: nothing is decided that no human approved.
- `ScheduledResolves`, `GoneIsResolved`: liveness of the grace period and of the
  synchronisation.
- `DecidedOnCurrent`: the status an UPDATE of a request met is still the one of
  the row at its commit, so what the guards of rejections, dismissals, cancellations
  and restorations looked at holds. An approval executed directly has no guard: it
  replaces what it meets after the call, a decision answered with success included.
  `RolledBackIsFlagged`: a rolled-back batch does not look like a full success.
  `WritesAreLogged`: an AWS write is in the committed history, unless PostgreSQL
  aborted its request or it died. `EveryRequestEnds`: but for a cycle that goes
  through a remediator.
- `RollbackIsReal`, `SeenAsWaste`, `HistoryIsTrue`, `NothingUnlogged`,
  `RowsClose`: the guarantees of a guarded attempt, each against another attempt
  and against the owner.
- `OneOpenPr`, `DanglingIsLate`, `ManagedByPrOnly`, `StatusFollowsPr`,
  `MergedIsApproved`: the Terraform route. `DanglingIsLate` claims something only
  where `base_branch` is the default branch, and `ManagedByPrOnly` speaks of what the
  default branch declares: that is the one that is cloned. Both kinds of base branch
  are in the run.
- `DetectorsKeepDecisions`, `InsightOfAction`, `HealthyLostNothing`,
  `IdleSurfaces`, `WasteIsRecorded`: detection.
- `VerifiedOnce`, `NoInventedSaving`, `SlotsAccounted`, `RunVerifiesAllStops`:
  savings. `SlotsAccounted` counts the slots that trackers lose as lost, whatever
  their number (see below).
- `SpacedRunsExclude`, `StillCollects`: the lock.
- `UpdatesKept`, `PolicyReadable`, `JobsFollowSchedule`, `LiveWasAsked`,
  `ProtectedLeftAlone`: the settings and the runs that read them, as long as no
  request used what another save had overtaken. What they exclude is what the
  code does not give: run LostUpdate shows the lost update.

Each component states a type invariant. They hold on the instances above and are
all proved, so they are kept out of the runs, which say more.

Fairness. The scheduler fires each job every five minutes, so the executor and
a thread in the middle of its work take their next step (weak fairness), and a
grace period elapses. A sweep in which every region answers needs strong
fairness: it is possible again and again but not continuously, because a pass
can only start when the last one ended. No fairness is assumed of users,
detectors, the owner or the settings. For the lock, a collection that runs ends
and the next tick comes. `Detection`: the scheduled task starts runs and a run
goes on (weak), and some run of a day is its last (strong, for there are many a
day); users, the cloud, the cleanup and the failures are free. `Remediation` and
`ActionBatch`: a thread that started goes on, and PostgreSQL looks for deadlocks.
`Savings`: the six-hourly job and the end of an attempt. `PullRequests`: the
reconciliation job and the threads; no person has to do anything.

## What disagrees with the documentation

1. Two settings saved together: the second erases the first (`NoUpdateLost`,
   config_manager.py:5 against 397).
2. The pull request for a gp2 volume to migrate removes its block, and merging it
   deletes the volume (`PrKeepsItsWord`, terraform_editor.py:6-8 against
   ui/utils/terraform_pr.py:80).
3. The tags of the whitelist protect no load balancer (`TagsProtect`,
   safeguards.py:176 and resource_remediator.py:60 against 468 and 491).

Seen while modelling, without a run of their own.

Approvals and executor:
- a cancellation accepted after the executor selected the row does not stop the
  write (jobs.py:461, against docs/REMEDIATION.md:66-67);
- the pending history row of an executed grace-period approval is never closed
  (jobs.py:431, against the comment at recommendations.py:1252-1255);
- an AWS client error while a remediator reads its resource is taken for a
  resource that is gone (jobs.py:310, resource_remediator.py:300, 340, 419, 534,
  582 and 632), so the executor marks live waste obsolete: `ResolvedOnEvidence`
  holds only for the types that do not swallow it;
- a direct execution overwrites a rejection or a dismissal made during the call, and
  answered with success (recommendations.py:1484-1491, `WHERE id =`); the
  synchronisation moves a row out of a status that state.py:119-120 calls
  terminal when it updates by id;
- an aborted transaction rolls back the entries of the batch answered with
  success, their log rows included; approve [manual, remediator] against reject
  of the same two in the other order wait for each other for ever, because the
  wait inside the remediator is invisible to PostgreSQL and neither statement
  has a timeout (`HiddenDeadlock`).

Synchronisation and detection:
- RDS instances, RDS snapshots and images have no checker although
  aws_sync.py:88-92 and jobs.py:218 say every type is covered, and the test that
  guards it (test_aws_sync.py:141-151) has the list written out: such rows stay
  for ever;
- the upserts of all detectors but `ec2_idle` never refresh the action; the drift
  that voids an insight compares with the last savings only, so many small moves
  void nothing; `ec2_idle` revives a row from cached metrics whatever the instance
  is now (ec2_idle.py:505-520); `ec2_stopped` finds nothing while the CloudWatch
  collector, which only stores running instances, is the only one;
- two collections started together both run (run_collection.py:98, against
  docs/AUTOMATION_GUIDE.md:49-50).

Remediators and safeguards:
- of two overlapping deletions of a volume the snapshot goes into the newest
  rollback row, which may be the other's; data written between the copy and the
  deletion is lost;
- a scheduled stop honours `whitelist.instance_ids` and not `whitelist.tags`
  (jobs.py:636, against the comment at 625); `check_schedule` uses the local time
  of the server, the `timezone` of the template's schedule is not read;
- `_backend_context` (ui/utils/remediator.py:86-103) clears and restores
  `os.environ` unsynchronised: a copy taken during another thread's clear is
  restored for good.

Pull requests:
- with a `base_branch` that is not the default branch, what the base branch declares
  and refers to is not looked at: the clone is of the default branch
  (terraform_pr.py:176-185), `base_branch` reaches only `gh pr create`
  (terraform_pr.py:200-201). An old reference on the base branch is left dangling,
  against the docstring of `find_references` (terraform_editor.py:97-131), and a
  block that only the base branch declares is removed through the API;
- the branch has a fixed name: after a `gh pr create` that failed, or a pull
  request that was closed, every retry is rejected until somebody deletes it; a
  timeout is no `TerraformPRError`, so a pull request it left behind is recorded
  nowhere; the job's UPDATE looks at the status and not at the url it asked about;
  a block with `count` or `for_each` is removed whole; what is declared in a child
  module, or whose policy cannot be read, goes the direct way.

Savings:
- a run of the verifier that has something to do costs a slot of the pool, and a
  successful termination stays eligible for ever: after ten such runs, some sixty
  hours, no remediator can be built until the application restarts
  (resource_remediator.py:278-280);
- two stops of one recommendation listed by one run are both counted, a later one
  never; an instance younger than thirty days has an understated "before"; the day
  of the action counts as "after".

Settings:
- an exported policy that has an `instance_schedule` is refused when it is
  imported again, as an unknown section (policies.py:30-42, against its line 8);
  an import drops the schedule without rebuilding the jobs, against jobs.py:731-732;
- with a full disk a save answers success and empties the file
  (config_manager.py:114-115), and an empty file stops the next start
  (main.py:113), the backup unused.

## Proofs

Every safety property of a passing run is a theorem of its module's
specification, for any sets of recommendations, resources, threads and settings
and for any values of the bounds. The hypotheses are the named assumptions on the
constants (`ConstantsAssumption`, `BatchAssumption`, `RemediationAssumption`,
`PullRequestsAssumption`, `DetectionAssumption`, `SavingsAssumption`,
`LockAssumption`, `ConfigAssumption`, `ScheduleAssumption`), which TLC evaluates on
the runs, and for one theorem, `ResolvedIsEvident`, a condition on the types of
the instance that its statement shows. Each inductive invariant below was an
invariant of a TLC run first.

- `RecommendationLifecycleProofs`: `TypeCorrect`. The type invariant is not
  inductive alone: that an action finds a recommendation in the thread's record
  needs `WorkersConsistent`, which says which fields a thread has at each place.
  Their conjunction `LocalInv` is inductive (`InitLocal`, `NextLocal`), by one
  lemma per group of actions.
  `ScheduledAlwaysCanFire` is inductive relative to `LocalInv`: every step that
  leaves a row scheduled keeps its time and its pending row.
  `NothingDecidedAlone` is strengthened by `Undecided` (no thread holds a
  recommendation that was never approved and no synchronisation can apply it);
  `DryRunIsSafe` by `DryInv` (every thread that runs carries dry-run and never gets
  past the routing); `ResolvedIsEvident` by `EvidenceInv`: a resource in a settled
  state was remembered as such, and so was every row a synchronisation holds in its
  findings and every outcome a thread carries to its record. It assumes
  `NoErrorIsGone`: no type of the instance has a remediator that takes each client
  error for a resource that is gone. Without it the property is false of the code
  (see the disagreements above).
  `WritesAreApproved` is its own induction hypothesis because it counts the writes
  still owed, `Owed`: a request in flight owes one and the executor owes one for a
  row that is scheduled, selected or in hand. Every step either leaves the balance,
  spends what was owed, receives an approval or is paid for by a fault.
  `LifecycleKeepsLedger` is the refinement: each step maps to one step of
  `ApprovalLedger` on one recommendation (`LedgerApproves`, `LedgerWrites`,
  `LedgerLapses`, `LedgerDies`) or leaves every credit alone. It needs `RunSelected`
  besides `LocalInv`: an executor that is idle has nothing selected, or its next
  query would drop several debts at once.
  `WritesAreRecorded`: `AuditTrail` is not inductive, for it counts every thread at
  its record, and the executor leaves that place without a row when it only
  simulated. `Unrecorded` counts the threads that do write one, and `RunsAreLive`
  (whoever executes carries dry-run switched off) puts each thread that wrote to AWS
  among them.
- `ActionBatchProofs`: `DecisionsAreCurrent`, `RollbacksAreFlagged`,
  `WritesReachHistory`, `BatchTypeCorrect`. `BatchInv` says that a request holds
  the lock of every row it staged a decision on, so nobody else changes the row
  between its UPDATE and its commit; that an aborted request has an answer with the error; and
  where the record of each write is: committed, staged, or gone with an aborted
  transaction. One request moves in a step (`StepOfOne`), and the others keep
  their part of the invariant.
- `RemediationProofs`: `TypeCorrect`, `RollbackReal`, `OnlyWasteTouched`,
  `HistoryTrue`, `AllLogged`. The steps of an attempt are first described by what
  they do to its place and to the tables (the `...Effect` lemmas), the environment
  by what it leaves alone. Then: each attempt owns the history row it opened
  (`RowsOwned`), so no other attempt closes it; before the write the state is saved
  (`StateSaved`) and a volume is copied (`CopyTaken`); an attempt that got past its
  description saw waste (`Seen`); and an attempt about to record says what AWS did
  (`Done`, `Told`).
- `PullRequestsProofs`: `TypeCorrect`, `OneOpenPrEver`, `NothingOverlooked`,
  `ManagedNeverDirect`, `RowsFollowPrs`. The branch says whose pull request it is
  (`Heads`), and GitHub refuses a second one for an open head; where
  the branch that is cloned is the one it goes to, what other code refers to while its
  removal is under way was referred to late (`CutsAreLate`);
  the direct route has a reason that does not go away (`RouteJustified`), because
  wasteless and people only ever take blocks out of the default branch
  (`DefaultShrinks`); and
  whoever holds the number of a pull request, a thread, a row or the job, knows what
  became of it (`NumbersKnown`, `RunKnows`, `RowFollows`).
- `DetectionProofs`: `ConfidenceIsCapped`, `IdlerIsBolder`, `TypeCorrect`,
  `InsightsTrue`, `DecisionsKept`, `HealthyIsWhole`. The first two are about
  `ec2_idle` alone, for any number of samples: its confidence is a percentage that a
  short window caps, and less CPU never makes it less sure or its action weaker; they
  rest on bounds and order of integer quotients (`QuotientBounds`, `QuotientOrder`).
  `TypeCorrect` needs them (a finding has a price and a percentage), and that the sum
  of a group and the steps of a run, both recursive functions, are what their
  equations say (`CpuSumIs`, `WatchingType`, by `LeastNat` as below). The type
  invariant is inductive with `StepKnown`: a run in a step has a step to run, one
  that saves runs a detector, and what it is to explain has a row. An insight
  is stored by id after its row was read, so `InsightInv` adds that an insight fits
  its row whatever the status (a restore or a revival brings it back) and that no
  action changes while the model is asked (`Asked`). `LostIsFailed`: what is not
  committed belongs to a step that failed or still runs.
- `SavingsVerificationProofs`: `TypeCorrect`, `EveryActionOnce`, `SavingsAreReal`,
  `PoolAccounted`. What a bill adds up to is a recursive function. `SumIs` shows, by
  the least day at which it could fail (`LeastNat`), that it is the one its equation
  describes, `SumBounds` bounds it by the cheapest and the dearest day, and
  `NoCheaperDayNoSaving` compares two averages: without a day after the action
  cheaper than a day before it there is no saving. `EveryActionOnce` needs `ListIsFresh`,
  that a row about the recommendation of a listed action was written by this very
  run about another action; `RowsStand`, that a row is about an executed
  stop and days after it that are over; and `NoTwice`, that two rows about one recommendation are of one run and of
  two actions.
- `CollectLockProofs`: `LockTypeCorrect`, `SpacedRunsAreExclusive`. `SpacedInv` holds until the lock
  is disturbed: at most one collection handles the lock, a collection that runs
  has it in place with its own pid, and nobody runs while another is past its
  check.
- `ConfigStoreProofs`: `UpdatesAreKept`, `PolicyStaysReadable`, `JobsFollow`,
  `StoreTypeCorrect`. The invariant says what a thread that was not overtaken holds:
  a copy derived from `asked`, or a backup that is `asked` or empty. A thread that
  restores an empty backup is never alone: the one whose failed save emptied the
  file is still restoring, and is overtaken. Then, about `InstanceSchedule`,
  `RunsObeyDryRun`, `RunsSpareProtected`, on top of that invariant, which the
  composition keeps because a run changes nothing of the store. The strengthening
  ties what the run has read to what it remembers: a run that is not dry was `live`,
  what it still has to do or has done is `free`. The lemma that carries both is that
  a readable file, with nothing overtaken in use, is `asked` at the moment it is
  read.

Model-checked only: what is beyond the prover, liveness under fairness
(`ScheduledResolves`, `GoneIsResolved`, `StillCollects`, `EveryRequestEnds`,
`RowsClose`, `MergedIsApproved`, `IdleSurfaces`, `WasteIsRecorded`,
`RunVerifiesAllStops`).

## Plan

1. `Remediation` and `ActionBatch` shown to implement the coarse steps of
   `RecommendationLifecycle`, by TLC first and then by proof.
2. An abstract specification of what the savings verifier promises (each applied
   action is measured at most once), and `SavingsVerification` shown to implement it.
3. `BackendContext`: the swap of `os.environ` around the construction of a
   remediator, in several threads.

## What is not modelled

Dashboards, reports and digests only read. The cost collector upserts idempotent
billing data; the one component that decides on it, the savings verifier, takes
it as an input. The daily snapshot of the active waste is a derived total. The
metadata refresh of instances and the pricing warning of the synchronisation, the
network figures and tags of the collectors, and the questions to the language
model decide nothing. Setup and installation run before the system does. The EC2
remediator script is not reached by the application, its `main()` is a dry run,
and its `stop_instance` cannot get past a query PostgreSQL refuses; the three
safeguards only it calls (age, idle days, actions per run) are left with it. The
swap of `os.environ` around the construction of a remediator is planned.
