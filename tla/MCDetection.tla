----------------------------- MODULE MCDetection -----------------------------
(* Detection on one resource of each kind in turn, with the steps that     *)
(* look at it; the eip, nat, vpc, ami and rds snapshot detectors have the  *)
(* shape of the load balancers'.                                           *)
EXTENDS Detection

MCWatchedKinds == Kinds

MCBoto3Steps ==
    <<"aws_cloudwatch", "ec2_idle", "ec2_stopped", "ebs_orphan",
      "snapshot_orphan">>

MCSteampipeSteps ==
    <<"elb_unused", "ebs_gp2_migration", "rds_stopped", "rds_idle">>
==============================================================================
