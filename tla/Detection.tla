------------------------------ MODULE Detection ------------------------------
(***************************************************************************)
(* The collection pipeline (src/run_collection.py): the metrics collector, *)
(* the detectors in their order, the insights they end with, the row of    *)
(* collection_runs the UI calls a healthy run by; and what moves meanwhile *)
(* (the cloud, the decisions of the users, the synchronisation, the        *)
(* stand-alone cleanup of orphans, the alternative metrics collector).     *)
(* One pipeline runs at a time: that is what CollectLock is about.         *)
(***************************************************************************)
EXTENDS Detectors, Sequences, FiniteSets

CONSTANTS
    Resources,
    None,             \* no sample, no row, no figure
    WatchedKinds,     \* the kinds of the resources of an instance
    Boto3Steps,       \* steps of the pipeline, subsequences of BOTO3_STEPS
    SteampipeSteps,   \* and of STEAMPIPE_STEPS, empty without the binary
    Abroad,           \* resources outside AWS_REGION, in a scanned region
    Window,           \* days of samples in its window: today and 7 before, in the code
    MaxFaults         \* bound on failures and on RefreshMetrics, for TLC

ASSUME DetectionAssumption ==
    /\ WatchedKinds \subseteq Kinds
    /\ Boto3Steps \in Seq(StepNames) /\ SteampipeSteps \in Seq(StepNames)
    /\ Abroad \subseteq Resources
    /\ Window \in Nat \ {0}
    /\ MaxFaults \in Nat

VARIABLES
    kind,       \* kind of each resource
    cloud,      \* what AWS says of each resource
    samples,    \* ec2_metrics: [state, cpu] per day of the window last
    waste,      \* waste_detected: [type, cost, conf] or None
    rec,        \* recommendations
    pc,         \* phase of the running step, "idle" or "night" between runs
    steps,      \* the steps of the run still to end, the running one first
    items,      \* findings of the running detector
    todo,       \* rows read by enrich_recommendations, with their figures
    failed,     \* steps that exited nonzero, kept for record_run
    lost,       \* detectors of this run whose findings are not committed
    report,     \* row of collection_runs of the run that ended, if any
    faults

vars == <<kind, cloud, samples, waste, rec, pc, steps, items, todo, failed, lost,
          report, faults>>

database == <<samples, waste, rec>>
world == <<kind, cloud>>
run == <<pc, steps, items, todo, failed, lost, report>>

Watches(kinds, name) ==
    \E r \in Resources : kinds[r] = IF name = "aws_cloudwatch" THEN "instance"
                                    ELSE DetectorNamed[name].kind

\* A step that looks at none of the resources is left out.
Watching(kinds, all) ==
    LET upTo[n \in 0..Len(all)] ==
            IF n = 0 THEN <<>>
            ELSE IF Watches(kinds, all[n]) THEN Append(upTo[n - 1], all[n])
            ELSE upTo[n - 1]
    IN  upTo[Len(all)]

\* Mutant: the detectors of steampipe are never run.
StepsBoto3 == Watching(kind, Boto3Steps)

Steps == Watching(kind, Boto3Steps \o SteampipeSteps)

Phases == {"idle", "night", "start", "save", "recommend", "enrich", "insight", "record"}

NoRec == [status |-> "absent", action |-> None, savings |-> None,
          insight |-> None]

\* decided: approved, scheduled, applied, dismissed or rejected by someone.
Statuses == {"absent", "pending", "obsolete", "decided"}

Rows(status) == {r \in Resources : rec[r].status = status}

OfKind(k) == {r \in Resources : kind[r] = k}

Fault == faults < MaxFaults /\ faults' = faults + 1

Init ==
    /\ kind \in [Resources -> WatchedKinds]
    /\ cloud \in {c \in [Resources -> UNION {CloudStates[k] : k \in Kinds}] :
                    \A r \in Resources : c[r] \in CloudStates[kind[r]]}
    /\ samples = [r \in Resources |-> [d \in 1..Window |-> None]]
    /\ waste = [r \in Resources |-> None]
    /\ rec = [r \in Resources |-> NoRec]
    /\ pc = "idle" /\ steps = <<>>
    /\ items = <<>> /\ todo = <<>>
    /\ failed = {} /\ lost = {}
    /\ report = None
    /\ faults = 0

-----------------------------------------------------------------------------
(* One run: run_pipeline.                                                  *)

\* The database answers and the lock is taken: see CollectLock.
StartRun ==
    /\ pc = "idle"
    /\ pc' = IF Steps = <<>> THEN "record" ELSE "start"
    /\ steps' = Steps /\ report' = None
    /\ UNCHANGED <<world, database, items, todo, failed, lost, faults>>

\* The process of the step exits; the pipeline goes on whatever the code.
Exit(exitFailed) ==
    /\ failed' = exitFailed
    /\ steps' = Tail(steps)
    /\ pc' = IF Len(steps) = 1 THEN "record" ELSE "start"
    /\ items' = <<>> /\ todo' = <<>>

ExitZero == Exit(failed)

\* Mutant: the exit code is not looked at.
ExitNonzeroUnseen == Fault /\ Exit(failed)

ExitNonzero == Fault /\ Exit(failed \cup {Head(steps)})

\* record_run.  Any error of the first INSERT is taken for a missing column:
\* the second leaves failed_steps to its default, the empty array.  The run may
\* be the last one of its day.
RecordRun ==
    /\ pc = "record"
    /\ pc' \in {"idle", "night"}
    /\ failed' = {} /\ lost' = {}
    /\ \/ /\ report' = [healthy |-> failed = {}, guessed |-> FALSE,
                        lost |-> lost]
          /\ UNCHANGED faults
       \/ /\ Fault
          /\ report' = [healthy |-> TRUE, guessed |-> TRUE, lost |-> lost]
       \/ /\ Fault
          /\ UNCHANGED report
    /\ UNCHANGED <<world, database, steps, items, todo>>

-----------------------------------------------------------------------------
(* The metrics collector: one row a day per running instance.              *)

Sample(state, cpu) == [state |-> state, cpu |-> cpu]

\* The upsert leaves the state of today's row as it was inserted.
Upserted(r, cpu) ==
    [samples[r] EXCEPT ![Window] =
        IF @ = None THEN Sample("running", cpu) ELSE Sample(@.state, cpu)]

RunningInstances == {r \in OfKind("instance") : cloud[r] \in Running}

\* get_cpu_utilization: an error and a metric without datapoints look the same.
CpuUtilization(r, unmeasured) == IF r \in unmeasured THEN None ELSE Cpu[cloud[r]]

\* A region that fails, or a save that fails, is logged and passed over: the
\* step exits nonzero only when every region failed.
Collect ==
    /\ pc = "start" /\ Head(steps) = "aws_cloudwatch"
    /\ \/ \E unmeasured \in SUBSET RunningInstances :
            /\ samples' = [r \in Resources |->
                    IF r \in RunningInstances
                    THEN Upserted(r, CpuUtilization(r, unmeasured))
                    ELSE samples[r]]
            /\ IF unmeasured = {} THEN UNCHANGED faults ELSE Fault
            /\ ExitZero
       \/ Fault /\ ExitZero /\ UNCHANGED samples
       \/ ExitNonzero /\ UNCHANGED samples
    /\ UNCHANGED <<world, waste, rec, lost, report>>

-----------------------------------------------------------------------------
(* The detectors: detect, save, recommend, enrich.                         *)

Name == Head(steps)
Detector == DetectorNamed[Name]

\* The rows of one instance and one state with a CPU, GROUP BY instance_state.
Group(r, state) ==
    {d \in 1..Window : samples[r][d] # None /\ samples[r][d].state = state
                       /\ samples[r][d].cpu # None}

CpuSum(r, days) ==
    LET total[n \in 0..Window] ==
            IF n = 0 THEN 0
            ELSE total[n - 1] + IF n \in days THEN samples[r][n].cpu ELSE 0
    IN  total[Window]

IdleFinding(sum, n) ==
    LET conf == IdleConfidence(sum, n, Window - 1)
    IN  [cost |-> (EC2IdleDetector.cost.zero * (100 * n - sum)) \div (100 * n),
         conf |-> conf, action |-> IdleAction(conf)]

IdleStates(r) ==
    {s \in {"running", "stopped"} :
        LET days == Group(r, s) IN IsIdle(CpuSum(r, days), Cardinality(days))}

\* A resource with two idle groups has two rows: the higher average is saved
\* last.
LastIdleState(r) ==
    LET n(s) == Cardinality(Group(r, s))
        sum(s) == CpuSum(r, Group(r, s))
    IN  CHOOSE s \in IdleStates(r) :
            \A t \in IdleStates(r) : sum(t) * n(s) <= sum(s) * n(t)

Idle(r) ==
    LET days == Group(r, LastIdleState(r))
    IN  IdleFinding(CpuSum(r, days), Cardinality(days))

\* Every row of the window says stopped, and AWS still knows the instance.
SeenStopped(r) ==
    LET rows == {d \in 1..Window : samples[r][d] # None}
    IN  /\ rows # {}
        /\ \A d \in rows : samples[r][d].state = "stopped"
        /\ cloud[r] # "gone"

\* run_query: the rows of the plugin, one per resource.  No binary, a timeout, an
\* exit code, an output that is not JSON: each raises, and the step exits nonzero.
QueryRows(d) == {r \in OfKind(d.kind) : cloud[r] \in DOMAIN d.cost}

Reported(name) ==
    LET d == DetectorNamed[name]
    IN  CASE name = "ec2_idle"    -> {r \in OfKind(d.kind) : IdleStates(r) # {}}
          [] name = "ec2_stopped" -> {r \in OfKind(d.kind) : SeenStopped(r)}
          [] OTHER -> QueryRows(d)

Finding(name, r) ==
    LET d == DetectorNamed[name]
    IN  CASE name = "ec2_idle"    -> Idle(r)
          [] name = "ec2_stopped" ->
                [cost |-> d.cost.stopped, conf |-> 95, action |-> d.action]
          [] OTHER ->
                [cost |-> d.cost[cloud[r]], conf |-> 95, action |-> d.action]

AmiBacked == {r \in Rows("pending") : kind[r] = "snapshot" /\ cloud[r] = "backing"}

\* mark_ami_backed_obsolete, before the findings of the snapshots are saved.  The
\* images of a region that could not be scanned are unknown, and an UPDATE that
\* fails is only logged: what they miss stays pending.
MarkAmiBacked(missed) ==
    rec' = [r \in Resources |-> IF r \in AmiBacked \ missed
                               THEN [rec[r] EXCEPT !.status = "obsolete"] ELSE rec[r]]

\* A resource whose region could not be scanned is passed over (skipped);
\* a detector that reads the database alone has no such case.
Detect ==
    /\ pc = "start" /\ Name # "aws_cloudwatch"
    /\ \/ \E skipped \in SUBSET Reported(Name), missed \in SUBSET AmiBacked :
            LET found == Reported(Name) \ skipped
            IN  /\ IF skipped \cup missed = {} THEN UNCHANGED faults
                                              ELSE Fault /\ Name # "ec2_idle"
                /\ IF Name = "snapshot_orphan" THEN MarkAmiBacked(missed)
                                               ELSE missed = {} /\ UNCHANGED rec
                /\ IF found = {}
                   THEN ExitZero /\ UNCHANGED lost
                   ELSE /\ items' = [r \in found |-> Finding(Name, r)]
                        /\ pc' = "save" /\ lost' = lost \cup {Name}
                        /\ UNCHANGED <<steps, failed, todo>>
       \/ ExitNonzero /\ UNCHANGED <<rec, lost>>
    /\ UNCHANGED <<world, samples, waste, report>>

\* One transaction for the findings of the detector.
SaveWaste ==
    /\ pc = "save"
    /\ \/ /\ waste' = [r \in Resources |->
                IF r \notin DOMAIN items THEN waste[r]
                ELSE [type |-> IF waste[r] = None \/ Detector.renames
                               THEN Detector.waste ELSE waste[r].type,
                      cost |-> items[r].cost, conf |-> items[r].conf]]
          /\ pc' = "recommend"
          /\ UNCHANGED <<steps, items, todo, failed, faults>>
       \/ ExitNonzero /\ UNCHANGED waste
    /\ UNCHANGED <<world, samples, rec, lost, report>>

NewRec(item) == [status |-> "pending", action |-> item.action,
                 savings |-> item.cost, insight |-> None]

\* Mutant: every detector refreshes pending rows alone.
RecommendedPending(r, item) ==
    LET old == rec[r]
    IN  CASE old.status = "absent"  -> NewRec(item)
          [] old.status = "pending" -> [old EXCEPT !.savings = item.cost]
          [] OTHER -> old

\* Mutant: the action is refreshed, the insight looks at the savings only.
RecommendedInsight(r, item) ==
    LET old == rec[r]
    IN  CASE old.status = "absent" -> NewRec(item)
          [] Detector.revives /\ old.status \in {"pending", "obsolete"} ->
                [NewRec(item) EXCEPT !.insight =
                    IF Drifted(old.savings, item.cost) THEN None ELSE old.insight]
          [] OTHER -> old

\* Mutant: no condition on the status.
RecommendedAny(r, item) == NewRec(item)

\* The upsert of one recommendation.
Recommended(r, item) ==
    LET old == rec[r]
    IN  CASE old.status = "absent" -> NewRec(item)
          [] Detector.revives /\ old.status \in {"pending", "obsolete"} ->
                [NewRec(item) EXCEPT !.insight =
                    IF \/ old.status = "obsolete"
                       \/ old.action # item.action
                       \/ Drifted(old.savings, item.cost)
                    THEN None ELSE old.insight]
          [] ~Detector.revives /\ old.status = "pending" ->
                [old EXCEPT !.savings = item.cost,
                            !.insight = IF Drifted(old.savings, item.cost)
                                        THEN None ELSE @]
          [] OTHER -> old

Recommend ==
    /\ pc = "recommend"
    /\ \/ /\ rec' = [r \in Resources |->
                IF r \in DOMAIN items THEN Recommended(r, items[r]) ELSE rec[r]]
          /\ lost' = lost \ {Name}
          /\ IF Detector.insights
             THEN pc' = "enrich" /\ items' = <<>> /\ UNCHANGED <<steps, todo, failed>>
             ELSE ExitZero
          /\ UNCHANGED faults
       \/ ExitNonzero /\ UNCHANGED <<rec, lost>>
    /\ UNCHANGED <<world, samples, waste, report>>

\* enrich_recommendations reads every pending row without an insight.
ReadPending ==
    /\ pc = "enrich"
    /\ LET bare == {r \in Rows("pending") : rec[r].insight = None}
       IN  todo' = [r \in bare |-> rec[r].action]
    /\ pc' = "insight"
    /\ UNCHANGED <<world, database, steps, items, failed, lost, report, faults>>

\* generate_insight never raises: a text on the action it was given, or none.
GenerateInsight(action) == {action, None}

\* The model answers for one row: the insight is stored by id, whatever the row
\* has become; or it does not answer and the row keeps none.
WriteInsight(r) ==
    /\ pc = "insight" /\ r \in DOMAIN todo
    /\ \E insight \in GenerateInsight(todo[r]) :
          rec' = IF insight = None THEN rec ELSE [rec EXCEPT ![r].insight = insight]
    /\ todo' = [s \in DOMAIN todo \ {r} |-> todo[s]]
    /\ UNCHANGED <<world, samples, waste, pc, steps, items, failed, lost, report,
                   faults>>

\* All answered, or an error stopped the loop: the step is a success anyway.
EnrichDone ==
    /\ pc = "insight"
    /\ IF DOMAIN todo = {} THEN UNCHANGED faults ELSE Fault
    /\ ExitZero
    /\ UNCHANGED <<world, database, lost, report>>

-----------------------------------------------------------------------------
(* Meanwhile.                                                              *)

CloudChanges(r) ==
    /\ cloud[r] # "gone"
    /\ \E s \in CloudStates[kind[r]] \ {cloud[r]} : cloud' = [cloud EXCEPT ![r] = s]
    /\ UNCHANGED <<kind, database, run, faults>>

\* Midnight; the pipeline runs many times a day.
DayPasses ==
    /\ pc = "night"
    /\ pc' = "idle"
    /\ samples' = [r \in Resources |-> [d \in 1..Window |->
                      IF d = Window THEN None ELSE samples[r][d + 1]]]
    /\ UNCHANGED <<world, waste, rec, steps, items, todo, failed, lost, report,
                   faults>>

\* A user approves, dismisses or rejects the row; and restores it.
Decide(r) ==
    /\ rec[r].status = "pending"
    /\ rec' = [rec EXCEPT ![r].status = "decided"]
    /\ UNCHANGED <<world, samples, waste, run, faults>>

Restore(r) ==
    /\ rec[r].status = "decided"
    /\ rec' = [rec EXCEPT ![r].status = "pending"]
    /\ UNCHANGED <<world, samples, waste, run, faults>>

\* find_vanished_resources has no checker for the databases (nor for the images
\* and the snapshots of databases, among the others).
Vanished(r) == kind[r] # "database" /\ cloud[r] = "gone"

\* The synchronisation of a pending row; see RecommendationLifecycle.
SyncResolves(r) ==
    /\ rec[r].status = "pending"
    /\ Vanished(r) \/ (kind[r] = "instance" /\ cloud[r] = "stopped")
    /\ rec' = [rec EXCEPT ![r].status = "obsolete"]
    /\ UNCHANGED <<world, samples, waste, run, faults>>

\* The alternative collector, run by hand (rarely: it counts as a fault).  Every day
\* CloudWatch has a CPU for gets that CPU and the state of now, whether there was a
\* row or not; of the past any CPU is possible.
RefreshMetrics(r) ==
    /\ kind[r] = "instance" /\ cloud[r] # "gone"
    /\ \E cpu \in [1..Window -> {None} \cup {Cpu[s] : s \in Running}] :
          samples' = [samples EXCEPT ![r] = [d \in 1..Window |->
              IF cpu[d] = None THEN @[d]
              ELSE Sample(IF cloud[r] \in Running THEN "running" ELSE "stopped", cpu[d])]]
    /\ samples' # samples
    /\ Fault
    /\ UNCHANGED <<world, waste, rec, run>>

\* The instances with a row of any status that AWS does not know, asked about
\* one region.
Orphaned ==
    {r \in OfKind("instance") : rec[r].status # "absent"
                                /\ (cloud[r] = "gone" \/ r \in Abroad)}

\* cleanup_orphaned_recommendations, run by hand, marks rows by id.  Its two reads
\* and its UPDATE are one step: it takes rows of every status, so what happens in
\* between might as well have happened before.
CleanupOrphans ==
    /\ \E r \in Orphaned : rec[r].status # "obsolete"
    /\ rec' = [r \in Resources |->
                  IF r \in Orphaned THEN [rec[r] EXCEPT !.status = "obsolete"]
                  ELSE rec[r]]
    /\ UNCHANGED <<world, samples, waste, run, faults>>

Pipeline ==
    \/ StartRun \/ Collect \/ Detect \/ SaveWaste \/ Recommend
    \/ ReadPending \/ EnrichDone \/ RecordRun \/ DayPasses
    \/ \E r \in Resources : WriteInsight(r)

Meanwhile ==
    \/ CleanupOrphans
    \/ \E r \in Resources :
          CloudChanges(r) \/ Decide(r) \/ Restore(r) \/ SyncResolves(r)
          \/ RefreshMetrics(r)

Next == Pipeline \/ Meanwhile

Spec == Init /\ [][Next]_vars

\* The scheduled task starts runs, a run goes on, and some run is the last of
\* its day.
LastRun == RecordRun /\ pc' = "night"

FairSpec == Spec /\ WF_vars(Pipeline) /\ SF_vars(LastRun)

-----------------------------------------------------------------------------
(* Properties.                                                             *)

Actions == {DetectorNamed[n].action : n \in Names} \cup {"downsize_instance"}

Amounts == 0..10000
Percents == 0..100

Samples == [state : {"running", "stopped"}, cpu : {None} \cup Percents]

Findings == [cost : Amounts, conf : Percents, action : Actions]

WasteRows == [type : {DetectorNamed[n].waste : n \in Names},
              cost : Amounts, conf : Percents]

\* The rows of recommendations, and what stands for none.
Proposals == [status : Statuses \ {"absent"}, action : Actions,
              savings : Amounts, insight : {None} \cup Actions]

Recommendations == {NoRec} \cup Proposals

\* Every variable has its type.
TypeOK ==
    /\ kind \in [Resources -> WatchedKinds]
    /\ \A r \in Resources : cloud[r] \in CloudStates[kind[r]]
    /\ samples \in [Resources -> [1..Window -> {None} \cup Samples]]
    /\ waste \in [Resources -> {None} \cup WasteRows]
    /\ rec \in [Resources -> Recommendations]
    /\ pc \in Phases /\ steps \in Seq(StepNames)
    /\ \A r \in DOMAIN items : r \in Resources /\ items[r] \in Findings
    /\ \A r \in DOMAIN todo : r \in Resources /\ todo[r] \in Actions
    /\ failed \cup lost \subseteq StepNames
    /\ faults \in 0..MaxFaults

\* The insight of a row still to be decided speaks of the action the row
\* proposes now: enrich_recommendations stores it by id, after a call of the
\* model, while ec2_idle changes the actions of the rows it refreshes or revives.
InsightOfAction ==
    \A r \in Resources :
        (rec[r].status \in {"pending", "decided"} /\ rec[r].insight # None)
            => rec[r].insight = rec[r].action

\* A run whose row was stored with its failed steps and is healthy committed
\* everything its detectors found: an exit code hides no lost finding.
HealthyLostNothing ==
    (report # None /\ report.healthy /\ ~report.guessed) => report.lost = {}

\* Whatever a detector does, the row someone decided keeps its status, its
\* action and its savings.
DetectorsKeepDecisions ==
    [][ (pc # "idle" /\ run' # run)
          => \A r \in Rows("decided") :
                /\ rec'[r].status = "decided"
                /\ <<rec'[r].action, rec'[r].savings>>
                     = <<rec[r].action, rec[r].savings>> ]_vars

\* An instance that is idle for ever is proposed (or someone decided it) again
\* and again, whatever failed, was marked obsolete or was measured before.
IdleSurfaces ==
    \A r \in Resources :
        <>[](kind[r] = "instance" /\ cloud[r] = "zero")
            => []<>(rec[r].status \in {"pending", "decided"})

ReadingAWS ==
    (LET all == Boto3Steps \o SteampipeSteps IN {all[i] : i \in DOMAIN all})
        \ {"aws_cloudwatch", "ec2_idle", "ec2_stopped"}

\* Once the cloud has stopped changing, what a detector of the pipeline looks
\* for gets a row, whatever steps failed before.
WasteIsRecorded ==
    \A r \in Resources :
        (/\ <>[][FALSE]_cloud
         /\ <>[](\E n \in ReadingAWS :
                   /\ kind[r] = DetectorNamed[n].kind
                   /\ cloud[r] \in DOMAIN DetectorNamed[n].cost))
            => <>(rec[r].status # "absent")
==============================================================================
