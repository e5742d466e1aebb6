----------------------------- MODULE Remediation -----------------------------
(***************************************************************************)
(* The guarded remediation of one resource (ResourceRemediator.remediate   *)
(* and its seven subclasses), step by step: the live state is read, the    *)
(* policy is applied, the attempt and the state before it are committed,   *)
(* AWS is called, the outcome is committed.  Several attempts run at once, *)
(* from the threads of POST /api/actions and from the grace executor; the  *)
(* owner of the account uses, releases and deletes the resources, and the  *)
(* owner of wasteless edits the policy meanwhile.  What the caller then    *)
(* does with the recommendation is RecommendationLifecycle's.              *)
(***************************************************************************)
EXTENDS Integers, Sequences

CONSTANTS
    Workers,        \* threads that run attempts
    Resources,
    WatchedKinds,   \* the kinds of the resources of an instance
    Policies,       \* what remediation.yaml may say
    None,
    MaxAttempts,    \* bound on the attempts begun, for TLC
    MaxFaults       \* bound on the database and AWS errors, for TLC

Kinds == {"gp2", "volume", "nat", "balancer", "ip", "snapshot", "image"}

\* A policy Safeguards can be built from, in what an attempt reads of it.  A file
\* that is missing, is not YAML, or has a threshold, a list or a schedule of the
\* wrong type or out of bounds raises, and no remediator is built.
ValidPolicy ==
    [enabled  : BOOLEAN,            \* auto_remediation.enabled
     disabled : SUBSET Kinds,       \* actions switched off one by one
     ids      : SUBSET Resources,   \* whitelist.instance_ids
     tagged   : SUBSET Resources,   \* resources with a tag of whitelist.tags
     sure     : SUBSET Resources,   \* confidence reaches min_confidence_score
     hours    : BOOLEAN]            \* a schedule restricts the days and hours

ASSUME RemediationAssumption ==
    /\ WatchedKinds \subseteq Kinds
    /\ None \notin Resources \cup Workers
    /\ MaxAttempts \in Nat /\ MaxFaults \in Nat
    /\ Policies \subseteq ValidPolicy

VARIABLES
    kind,       \* kind of each resource
    cloud,      \* what AWS holds of each resource
    copies,     \* volumes of which a rollback snapshot was taken in EBS
    leftover,   \* images deregistered whose snapshots are not all deleted
    policy,     \* remediation.yaml
    rec,        \* status of each recommendation
    log,        \* actions_log
    rollback,   \* rollback_snapshots, in the order of their ids
    at,         \* the attempt of each worker
    begun, faults

vars == <<kind, cloud, copies, leftover, policy, rec, log, rollback, at, begun,
          faults>>

world == <<kind, cloud, copies, leftover>>
tables == <<rec, log, rollback>>
bounds == <<begun, faults>>

-----------------------------------------------------------------------------
(* Resources.  "waste": as detected, unattached, unassociated, without     *)
(* targets, old and behind no image, of type gp2.  "used": no longer, or   *)
(* of type gp3 already.  "removed": deleted, released, deregistered or     *)
(* migrated by wasteless; "gone": by its owner.                            *)

CloudStates == {"waste", "used", "removed", "gone"}

\* The migrated volume is still there to be described, as gp3.
Described(r) == cloud[r] \in {"waste", "used"}
                \/ (kind[r] = "gp2" /\ cloud[r] = "removed")

\* Mutant: the live state is not looked at again.
StillWastefulOnce(r) == TRUE

\* verify_still_wasteful; a NAT gateway is taken at the word of its detector.
StillWasteful(r) == cloud[r] = "waste" \/ kind[r] = "nat"

\* AWS refuses to delete a volume in use, an associated address and a snapshot
\* behind an image; it deletes balancers, gateways and images that are used.
Refused(r) == \/ cloud[r] \in {"gone", "removed"}
              \/ cloud[r] = "used" /\ kind[r] \in {"volume", "ip", "snapshot"}

-----------------------------------------------------------------------------
(* The safeguards, on the policy an attempt read when it was built.        *)

IsActionEnabled(p, r) == kind[r] \notin p.disabled

\* The state of a load balancer carries no tags: get_resource_state leaves the
\* dictionary empty, for the classic ones and for the others.
TagsRead(r) == kind[r] # "balancer"

IsWhitelisted(p, r) == r \in p.ids \/ (TagsRead(r) /\ r \in p.tagged)

CheckConfidenceScore(p, r) == r \in p.sure

CheckSchedule(p, inHours) == p.hours => inHours

Allowed(p, r, dry, inHours) ==
    /\ IsActionEnabled(p, r)
    /\ ~IsWhitelisted(p, r)
    /\ CheckConfidenceScore(p, r)
    /\ CheckSchedule(p, inHours)
    /\ dry \/ p.enabled

-----------------------------------------------------------------------------
(* Attempts.  policy: remediation.yaml as it was when the attempt began;   *)
(* since: the resource was waste at some moment since then.  What the      *)
(* caller is told in the end is RecommendationLifecycle's.                 *)

Steps == {"idle", "describe", "check", "log", "rollback", "copy", "attach",
          "act", "clean", "record", "fail"}

NoAttempt == [pc |-> "idle", res |-> None, dry |-> TRUE, policy |-> None,
              row |-> 0, since |-> FALSE]

Goes(w, step) == at' = [at EXCEPT ![w].pc = step]

Ends(w) == at' = [at EXCEPT ![w] = NoAttempt]

Fault == faults < MaxFaults /\ faults' = faults + 1 /\ UNCHANGED begun

Init ==
    /\ kind \in [Resources -> WatchedKinds]
    /\ cloud \in [Resources -> {"waste", "used"}]
    /\ copies = {} /\ leftover = {}
    /\ policy \in Policies
    /\ rec = [r \in Resources |-> "pending"]
    /\ log = <<>> /\ rollback = <<>>
    /\ at = [w \in Workers |-> NoAttempt]
    /\ begun = 0 /\ faults = 0

\* A proxy and its remediator are built, with the policy of that moment; one that
\* cannot be built changes nothing.  A request for a resource already dealt with
\* comes too: a double click, a retry.
Begin(w, r, dry) ==
    /\ at[w].pc = "idle" /\ begun < MaxAttempts
    /\ at' = [at EXCEPT ![w] =
                [NoAttempt EXCEPT !.pc = "describe", !.res = r, !.dry = dry,
                                  !.policy = policy, !.since = cloud[r] = "waste"]]
    /\ begun' = begun + 1
    /\ UNCHANGED <<world, policy, tables, faults>>

\* get_resource_state, then verify_still_wasteful on what it returned.
Describe(w) ==
    LET r == at[w].res
    IN  /\ at[w].pc = "describe"
        /\ \/ /\ IF Described(r) /\ StillWasteful(r) THEN Goes(w, "check") ELSE Ends(w)
              /\ UNCHANGED bounds
           \/ Fault /\ Ends(w)
        /\ UNCHANGED <<world, policy, tables>>

\* The safeguards, in one go: they read the policy of the attempt, the clock and
\* one row of the database.
Check(w) ==
    /\ at[w].pc = "check"
    /\ \/ \E inHours \in BOOLEAN :
            /\ IF Allowed(at[w].policy, at[w].res, at[w].dry, inHours)
               THEN Goes(w, "log") ELSE Ends(w)
            /\ UNCHANGED bounds
       \/ Fault /\ Ends(w)
    /\ UNCHANGED <<world, policy, tables>>

Row(w) == [res |-> at[w].res, dry |-> at[w].dry, status |-> "pending"]

\* _log_action, committed at once.
LogAction(w) ==
    /\ at[w].pc = "log"
    /\ \/ /\ log' = Append(log, Row(w))
          /\ at' = [at EXCEPT ![w].pc = "rollback", ![w].row = Len(log) + 1]
          /\ UNCHANGED bounds
       \/ Fault /\ Ends(w) /\ UNCHANGED log
    /\ UNCHANGED <<world, policy, rec, rollback>>

\* Mutant: a volume is deleted like anything else.
AfterRollbackNoCopy(w) == IF at[w].dry THEN "record" ELSE "act"

\* After the state before is saved: the real call, or nothing in a dry run.
AfterRollback(w) ==
    CASE at[w].dry -> "record"
      [] ~at[w].dry /\ kind[at[w].res] = "volume" -> "copy"
      [] OTHER -> "act"

\* Mutant: the state before is saved if it can be.
CreateRollbackBestEffort(w) ==
    /\ at[w].pc = "rollback"
    /\ \/ /\ rollback' = Append(rollback, [res |-> at[w].res, row |-> at[w].row,
                                           copy |-> FALSE])
          /\ UNCHANGED bounds
       \/ Fault /\ UNCHANGED rollback
    /\ Goes(w, AfterRollback(w))
    /\ UNCHANGED <<world, policy, rec, log>>

\* _create_rollback_snapshot, committed at once.  A database error leaves the
\* connection in a failed transaction: the handler of remediate cannot mark the
\* row either, and the row stays pending.
CreateRollback(w) ==
    /\ at[w].pc = "rollback"
    /\ \/ /\ rollback' = Append(rollback, [res |-> at[w].res, row |-> at[w].row,
                                           copy |-> FALSE])
          /\ Goes(w, AfterRollback(w))
          /\ UNCHANGED bounds
       \/ Fault /\ Ends(w) /\ UNCHANGED rollback
    /\ UNCHANGED <<world, policy, rec, log>>

\* execute_action of a volume takes a snapshot of it first.
CopyVolume(w) ==
    LET r == at[w].res
    IN  /\ at[w].pc = "copy"
        /\ \/ /\ cloud[r] \in {"waste", "used"}
              /\ copies' = copies \cup {r}
              /\ Goes(w, "attach") /\ UNCHANGED bounds
           \/ /\ cloud[r] \in {"gone", "removed"}
              /\ Goes(w, "fail") /\ UNCHANGED <<copies, bounds>>
           \/ Fault /\ Goes(w, "fail") /\ copies' \in {copies, copies \cup {r}}
        /\ UNCHANGED <<kind, cloud, leftover, policy, tables>>

LastRollback(r) ==
    CHOOSE i \in DOMAIN rollback :
        /\ rollback[i].res = r
        /\ \A j \in DOMAIN rollback : rollback[j].res = r => j <= i

\* _attach_ebs_snapshot_to_rollback: into the newest row of the resource.
AttachCopy(w) ==
    /\ at[w].pc = "attach"
    /\ \/ /\ rollback' = [rollback EXCEPT ![LastRollback(at[w].res)].copy = TRUE]
          /\ Goes(w, "act") /\ UNCHANGED bounds
       \/ Fault /\ Ends(w) /\ UNCHANGED rollback
    /\ UNCHANGED <<world, policy, rec, log>>

\* The write to AWS.  Its answer may be lost after it took effect: the attempt is
\* then told as failed.  The snapshots behind an image go one by one.
Act(w) ==
    LET r == at[w].res
    IN  /\ at[w].pc = "act"
        /\ \/ /\ ~Refused(r)
              /\ cloud' = [cloud EXCEPT ![r] = "removed"]
              /\ \/ /\ Goes(w, IF kind[r] = "image" THEN "clean" ELSE "record")
                    /\ UNCHANGED bounds
                 \/ Goes(w, "fail") /\ Fault
              /\ leftover' = IF kind[r] = "image" THEN leftover \cup {r}
                             ELSE leftover
           \/ /\ Refused(r) /\ Goes(w, "fail")
              /\ UNCHANGED <<cloud, leftover, bounds>>
           \/ Fault /\ Goes(w, "fail") /\ UNCHANGED <<cloud, leftover>>
        /\ UNCHANGED <<kind, copies, policy, tables>>

\* Mutant: a snapshot that is not deleted is logged, no more.
CleanImageLogged(w) ==
    /\ at[w].pc = "clean" /\ Goes(w, "record")
    /\ \/ leftover' = leftover \ {at[w].res} /\ UNCHANGED bounds
       \/ Fault /\ UNCHANGED leftover
    /\ UNCHANGED <<kind, cloud, copies, policy, tables>>

\* All of the snapshots behind the image are deleted, or the attempt fails.
CleanImage(w) ==
    /\ at[w].pc = "clean"
    /\ \/ /\ leftover' = leftover \ {at[w].res}
          /\ Goes(w, "record") /\ UNCHANGED bounds
       \/ Fault /\ Goes(w, "fail") /\ UNCHANGED leftover
    /\ UNCHANGED <<kind, cloud, copies, policy, tables>>

\* One transaction: the row is a success, the recommendation applied unless the
\* run was dry.
Record(w) ==
    /\ at[w].pc = "record"
    /\ \/ /\ log' = [log EXCEPT ![at[w].row].status = "success"]
          /\ rec' = IF at[w].dry THEN rec ELSE [rec EXCEPT ![at[w].res] = "applied"]
          /\ Ends(w) /\ UNCHANGED bounds
       \/ Fault /\ Ends(w) /\ UNCHANGED <<log, rec>>
    /\ UNCHANGED <<world, policy, rollback>>

\* Nothing looks at the status the row has.
UpdateActionStatus(i, status) == log' = [log EXCEPT ![i].status = status]

\* Mutant: the handler answers, and marks nothing.
FailUnmarked(w) ==
    /\ at[w].pc = "fail" /\ Ends(w)
    /\ UNCHANGED <<world, policy, tables, bounds>>

\* The handler of remediate marks the row.
Fail(w) ==
    /\ at[w].pc = "fail"
    /\ \/ /\ UpdateActionStatus(at[w].row, "failed")
          /\ Ends(w) /\ UNCHANGED bounds
       \/ Fault /\ Ends(w) /\ UNCHANGED log
    /\ UNCHANGED <<world, policy, rec, rollback>>

-----------------------------------------------------------------------------
(* Meanwhile.                                                              *)

\* The owner of the account: an attached volume, a target, an instance of the
\* image; or the end of it; or a deletion outside wasteless.
OwnerMoves(r) ==
    /\ cloud[r] \in {"waste", "used"}
    /\ \E s \in {"waste", "used", "gone"} \ {cloud[r]} :
          /\ cloud' = [cloud EXCEPT ![r] = s]
          /\ at' = [w \in Workers |->
                      IF at[w].res = r /\ s = "waste"
                      THEN [at[w] EXCEPT !.since = TRUE] ELSE at[w]]
    /\ UNCHANGED <<kind, copies, leftover, policy, tables, bounds>>

EditPolicy ==
    /\ \E p \in Policies \ {policy} : policy' = p
    /\ UNCHANGED <<world, tables, at, bounds>>

\* The process of the application dies, with all its threads.
Crash ==
    /\ \E w \in Workers : at[w].pc # "idle"
    /\ at' = [w \in Workers |-> NoAttempt]
    /\ Fault
    /\ UNCHANGED <<world, policy, tables>>

Attempt(w) ==
    \/ Describe(w) \/ Check(w) \/ LogAction(w) \/ CreateRollback(w)
    \/ CopyVolume(w) \/ AttachCopy(w) \/ Act(w) \/ CleanImage(w)
    \/ Record(w) \/ Fail(w)

Next ==
    \/ \E w \in Workers : Attempt(w)
    \/ \E w \in Workers, r \in Resources, dry \in BOOLEAN : Begin(w, r, dry)
    \/ \E r \in Resources : OwnerMoves(r)
    \/ EditPolicy
    \/ Crash

Spec == Init /\ [][Next]_vars

\* A thread that started an attempt goes on with it.
FairSpec == Spec /\ \A w \in Workers : WF_vars(Attempt(w))

-----------------------------------------------------------------------------
(* Properties.                                                             *)

\* Every variable has its type.
TypeOK ==
    /\ kind \in [Resources -> WatchedKinds]
    /\ cloud \in [Resources -> CloudStates]
    /\ copies \subseteq Resources /\ leftover \subseteq Resources
    /\ policy \in Policies
    /\ rec \in [Resources -> {"pending", "applied"}]
    /\ log \in Seq([res : Resources, dry : BOOLEAN,
                    status : {"pending", "success", "failed"}])
    /\ rollback \in Seq([res : Resources, row : Nat \ {0}, copy : BOOLEAN])
    /\ \A w \in Workers :
          /\ at[w].pc \in Steps /\ at[w].row \in Nat
          /\ at[w].dry \in BOOLEAN /\ at[w].since \in BOOLEAN
          /\ at[w].pc # "idle" => at[w].res \in Resources /\ at[w].policy \in Policies
    /\ begun \in 0..MaxAttempts /\ faults \in 0..MaxFaults

\* The tags of the whitelist protect every resource that carries one, whatever
\* its kind: an attempt in earnest never gets to its write.  They do not protect
\* a load balancer.
TagsProtect ==
    \A w \in Workers :
        at[w].pc \in {"copy", "attach", "act", "clean"} =>
            at[w].res \notin at[w].policy.tagged

Volumes == {r \in Resources : kind[r] = "volume"}

\* The rollback of a deleted volume is real: a snapshot of it was taken before,
\* and some row of rollback_snapshots says which (VolumeDeleteRemediator).  Not
\* the row of the attempt that deleted it, when two attempts overlap.
RollbackIsReal ==
    \A r \in Volumes :
        cloud[r] = "removed" =>
            /\ r \in copies
            /\ \E i \in DOMAIN rollback : rollback[i].res = r /\ rollback[i].copy

\* An attempt writes to AWS only if its resource was waste at some moment since
\* it began, or is a NAT gateway: what the detector saw days ago is not enough.
SeenAsWaste ==
    \A w \in Workers :
        at[w].pc \in {"copy", "attach", "act", "clean"} =>
            at[w].since \/ kind[at[w].res] = "nat"

\* A row of the history that says success in earnest tells the truth, snapshots
\* of an image included, and only such a row makes a recommendation applied.
HistoryIsTrue ==
    /\ \A i \in DOMAIN log :
          (log[i].status = "success" /\ ~log[i].dry) =>
             cloud[log[i].res] = "removed" /\ log[i].res \notin leftover
    /\ \A r \in Resources :
          rec[r] = "applied" =>
             \E i \in DOMAIN log :
                log[i].res = r /\ ~log[i].dry /\ log[i].status = "success"

RealRows(r) == {i \in DOMAIN log : log[i].res = r /\ ~log[i].dry}

\* Nothing is changed in AWS without a row committed before that says who and
\* what, with the state before; and short of a failure it ends as a success.
NothingUnlogged ==
    \A r \in Resources :
        (cloud[r] = "removed" \/ r \in copies) =>
            /\ \E i \in RealRows(r) : \E j \in DOMAIN rollback : rollback[j].row = i
            /\ \/ faults > 0 \/ cloud[r] # "removed"
               \/ \E i \in RealRows(r) : log[i].status = "success"
               \/ \E w \in Workers : at[w].res = r /\ at[w].pc \in {"clean", "record"}

Open(i) == i \in DOMAIN log /\ log[i].status = "pending"

\* Every row opened in the history is closed by the attempt that opened it,
\* whatever AWS refuses; only an error of the database or a death leaves it
\* pending.
RowsClose ==
    \A i \in 1..MaxAttempts : Open(i) ~> (~Open(i) \/ faults > 0)
==============================================================================
