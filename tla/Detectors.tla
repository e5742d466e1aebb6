------------------------------ MODULE Detectors ------------------------------
(***************************************************************************)
(* The detectors of wasteless, each as the record of what it looks for and *)
(* what it writes.  Amounts are cents (USD) a month for one resource of    *)
(* each kind: a t3.large, an instance with 80 GiB behind it, a volume of   *)
(* 100 GiB, a small database, an old snapshot.                             *)
(***************************************************************************)
EXTENDS Integers

-----------------------------------------------------------------------------
(* What the cloud can say about a resource of each kind.                   *)

\* Running instances, by the CPU they use (per cent).
Cpu == [zero |-> 0, busy |-> 8]
Running == DOMAIN Cpu

CloudStates ==
    [instance |-> Running \cup {"stopped", "gone"},
     volume   |-> {"gp2", "loose", "gp3", "gone"},
     snapshot |-> {"old", "backing", "gone"},
     database |-> {"unused", "stopped", "busy", "gone"},
     other    |-> {"waste", "used", "gone"}]

Kinds == DOMAIN CloudStates

-----------------------------------------------------------------------------
(* One record per detector.  cost: the states of the cloud it reports,     *)
(* with their price; ec2_idle and ec2_stopped look at the metrics in the   *)
(* database instead.  revives: its upsert of recommendations also takes    *)
(* obsolete rows, with a new action.  renames: its upsert of               *)
(* waste_detected refreshes the type of waste.  insights: it ends with     *)
(* enrich_recommendations.                                                 *)

Of(kind, cost, waste, action) ==
    [kind |-> kind, cost |-> cost, waste |-> waste, action |-> action,
     revives |-> FALSE, renames |-> FALSE, insights |-> TRUE]

Boto3(kind, cost, waste, action) == Of(kind, cost, waste, action)

Steampipe(kind, cost, waste, action) ==
    [Of(kind, cost, waste, action) EXCEPT !.renames = TRUE]

\* The cost and the action of ec2_idle depend on the CPU, see IdleFinding.
EC2IdleDetector ==
    [Boto3("instance", [s \in Running |-> 6205], "idle_compute",
           "stop_instance") EXCEPT !.revives = TRUE]

EC2StoppedDetector ==
    [Boto3("instance", [stopped |-> 800], "stopped_instance",
           "terminate_instance") EXCEPT !.insights = FALSE]

EBSOrphanDetector ==
    Boto3("volume", [loose |-> 1000], "orphaned_volume", "delete_volume")

EIPOrphanDetector ==
    Boto3("other", [waste |-> 365], "unassociated_ip", "release_ip")

SnapshotOrphanDetector ==
    Boto3("snapshot", [old |-> 500], "old_snapshot", "delete_snapshot")

ELBUnusedDetector ==
    Steampipe("other", [waste |-> 1825], "unused_load_balancer",
              "delete_load_balancer")

NATGatewayUnusedDetector ==
    Steampipe("other", [waste |-> 3504], "unused_nat_gateway",
              "delete_nat_gateway")

\* A hygiene finding: it costs nothing.
VPCUnusedDetector ==
    Steampipe("other", [waste |-> 0], "unused_vpc", "delete_vpc")

EBSGp2MigrationDetector ==
    Steampipe("volume", [gp2 |-> 200], "gp2_volume", "migrate_gp2_to_gp3")

AMIOrphanDetector ==
    Steampipe("other", [waste |-> 500], "orphaned_ami", "deregister_ami")

RDSStoppedDetector ==
    Steampipe("database", [stopped |-> 1150], "stopped_rds",
              "delete_rds_instance")

RDSIdleDetector ==
    Steampipe("database", [unused |-> 2511], "idle_rds",
              "downsize_rds_instance")

RDSSnapshotOrphanDetector ==
    Steampipe("other", [waste |-> 950], "old_rds_snapshot",
              "delete_rds_snapshot")

DetectorNamed ==
    [ec2_idle |-> EC2IdleDetector, ec2_stopped |-> EC2StoppedDetector,
     ebs_orphan |-> EBSOrphanDetector, eip_orphan |-> EIPOrphanDetector,
     snapshot_orphan |-> SnapshotOrphanDetector,
     elb_unused |-> ELBUnusedDetector,
     nat_gateway_unused |-> NATGatewayUnusedDetector,
     vpc_unused |-> VPCUnusedDetector,
     ebs_gp2_migration |-> EBSGp2MigrationDetector,
     ami_orphan |-> AMIOrphanDetector, rds_stopped |-> RDSStoppedDetector,
     rds_idle |-> RDSIdleDetector,
     rds_snapshot_orphan |-> RDSSnapshotOrphanDetector]

Names == DOMAIN DetectorNamed

BOTO3_STEPS == <<"aws_cloudwatch", "ec2_idle", "ec2_stopped", "ebs_orphan",
                 "eip_orphan", "snapshot_orphan">>

STEAMPIPE_STEPS == <<"elb_unused", "nat_gateway_unused", "vpc_unused",
                     "ebs_gp2_migration", "ami_orphan", "rds_stopped",
                     "rds_idle", "rds_snapshot_orphan">>

StepNames == Names \cup {"aws_cloudwatch"}

-----------------------------------------------------------------------------
(* The verdict of ec2_idle on n samples that add up to sum (per cent), in  *)
(* a window of the given number of days, against a threshold of 5 %.       *)

CpuThreshold == 5

IsIdle(sum, n) == n > 0 /\ sum < CpuThreshold * n

Least(a, b) == IF a < b THEN a ELSE b

\* round(1 - avg / threshold, 2), in hundredths.
RawConfidence(sum, n) ==
    (200 * (CpuThreshold * n - sum) + CpuThreshold * n) \div (2 * CpuThreshold * n)

\* Capped while the window is not full: few samples prove little.
IdleConfidence(sum, n, days) ==
    LET raw == RawConfidence(sum, n)
    IN  CASE n < 3    -> Least(raw, 70)
          [] n < days /\ n >= 3 -> Least(raw, 85)
          [] OTHER    -> raw

\* Stop first, never terminate as a first move.
IdleAction(confidence) ==
    IF confidence >= 60 THEN "stop_instance" ELSE "downsize_instance"

\* The figures an insight quotes have moved by more than a tenth and 0.50 USD.
Drifted(old, new) ==
    LET moved == IF old > new THEN old - new ELSE new - old
    IN  10 * moved > old /\ moved > 50
==============================================================================
