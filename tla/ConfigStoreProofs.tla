-------------------------- MODULE ConfigStoreProofs --------------------------
(***************************************************************************)
(* What the settings store guarantees, for every number of threads,        *)
(* instances, requests and faults: the types, that updates are kept, that  *)
(* the policy stays readable and that the jobs follow the schedule.        *)
(*                                                                         *)
(* The inductive invariant says what each thread's copy, the backup and    *)
(* the jobs are, as long as nothing overtaken was used: what the answered  *)
(* requests add up to, or derived from it.                                 *)
(*                                                                         *)
(* The runs of the instance schedule, which read the store while others    *)
(* write it, are proved on top of that invariant: a file with content is   *)
(* what the answered requests add up to, so what a run loads was asked for *)
(* then.                                                                   *)
(***************************************************************************)
EXTENDS InstanceSchedule, TLAPS

Saving == {"save"} \cup Locked

\* A thread that will put the backup in place of the file.
Restores(t) == pc[t] \in Locked \/ (pc[t] \in Mending /\ ~stale[t])

\* A thread at work serves a request and, where it needs one, holds a policy.
ServingInv ==
    \A t \in Threads :
        /\ pc[t] # "idle" => up /\ req[t] \in Requests
        /\ pc[t] \in Saving \cup {"reload", "rebuild"} => copy[t] \in Policies
        /\ pc[t] \in {"load", "reload"} => req[t].op # "import"
        /\ pc[t] = "reload" => req[t].op = "schedule"

LockInv == \A t \in Threads : pc[t] \in Locked <=> lock = t

\* The file is missing until the first start only.
SeedInv ==
    /\ file = Missing => ~up /\ asked = Template
    /\ \A t \in Threads : pc[t] \in Locked \cup Mending => backup # Missing

ImportInv ==
    \A t \in Threads :
        pc[t] \in Saving /\ req[t].op = "import" => copy[t] = req[t].document

\* What is not overtaken is what the answered requests add up to.
CopyInv ==
    \A t \in Threads :
        ~stale[t] =>
          /\ pc[t] = "reload" =>
               copy[t].instance_schedule = Merged(req[t], ScheduleOf(asked))
          /\ pc[t] \in Saving /\ req[t].op # "import" =>
               copy[t] = Updated(req[t], asked)
          /\ pc[t] = "rebuild" => copy[t] = asked

FileInv ==
    /\ file \in {Empty, Missing, asked}
    /\ \A t \in Threads : Restores(t) => backup \in {Empty, asked}

\* Whoever is about to restore nothing was overtaken by none: the one whose
\* failed save emptied the file is there still, and is overtaken.
EmptyInv ==
    /\ file = Empty => \E t \in Threads : pc[t] \in {"write"} \cup Mending
    /\ \A t \in Threads :
          Restores(t) /\ backup = Empty =>
            \E q \in Threads \ {t} : pc[q] \in Mending /\ stale[q]

JobsInv ==
    up /\ ~unannounced =>
      \/ \E t \in Threads : pc[t] \in {"reread", "rebuild"}
      \/ cron = JobsOf(asked)

Inv ==
    /\ TypeOK
    /\ ServingInv
    /\ LockInv
    /\ SeedInv
    /\ ImportInv
    /\ ~disturbed => CopyInv /\ FileInv /\ JobsInv
    /\ ~disturbed /\ ~torn => EmptyInv

-----------------------------------------------------------------------------
(* The getters and setters.                                                *)

\* A setter makes a policy of a policy.
LEMMA UpdatedType ==
    ASSUME NEW r \in Requests, NEW p \in Policies
    PROVE  Updated(r, p) \in Policies
<1>1. r \in AllRequests
  BY ConfigAssumption
<1>2. WhitelistOf(p) \in SUBSET Ids
  BY DEF WhitelistOf, Policies
<1>3. ScheduleOf(p) \in Schedules
  BY ConfigAssumption DEF ScheduleOf, Policies, Schedules
<1>4. CASE r.op = "dry_run"
  BY <1>1, <1>4 DEF Updated, AllRequests, WhitelistRequests, Imports, Policies
<1>5. CASE r.op = "add"
  BY <1>1, <1>2, <1>5 DEF Updated, AllRequests, WhitelistRequests, Imports, Policies
<1>6. CASE r.op = "remove"
  BY <1>1, <1>2, <1>6 DEF Updated, AllRequests, WhitelistRequests, Imports, Policies
<1>7. CASE r.op = "schedule"
  <2>1. Merged(r, ScheduleOf(p)) \in Schedules
    BY <1>1, <1>3, <1>7 DEF Merged, Given, AllRequests, WhitelistRequests, Imports, Schedules
  <2> QED
    BY <2>1, <1>7 DEF Updated, Policies
<1>8. CASE r.op = "import"
  BY <1>1, <1>8 DEF Updated, AllRequests, WhitelistRequests, Imports, Documents
<1> QED
  BY <1>1, <1>4, <1>5, <1>6, <1>7, <1>8 DEF AllRequests, WhitelistRequests, Imports

\* set_instance_schedule: the merge into the first load, put into the second,
\* is the merge into the second when both loaded the same schedule.
LEMMA UpdatedSchedule ==
    ASSUME NEW r \in Requests, NEW p \in Policies, r.op = "schedule"
    PROVE  /\ Updated(r, p).instance_schedule = Merged(r, ScheduleOf(p))
           /\ [p EXCEPT !.instance_schedule = Merged(r, ScheduleOf(p))]
                = Updated(r, p)
BY DEF Updated, Policies

LEMMA UpdatedImport ==
    ASSUME NEW r \in Requests, NEW p \in Policies, r.op = "import"
    PROVE  /\ r.document \in Policies
           /\ Updated(r, p) = r.document
BY ConfigAssumption DEF Updated, AllRequests, WhitelistRequests, Imports, Documents

\* The jobs depend on instance_schedule only.
LEMMA UpdatedJobs ==
    ASSUME NEW r \in Requests, NEW p \in Policies,
           r.op # "schedule", r.op # "import"
    PROVE  JobsOf(Updated(r, p)) = JobsOf(p)
<1>1. r.op \in {"dry_run", "add", "remove"}
  BY ConfigAssumption DEF AllRequests, WhitelistRequests, Imports
<1>2. Updated(r, p).instance_schedule = p.instance_schedule
  BY <1>1 DEF Updated, Policies
<1> QED
  BY <1>2 DEF JobsOf, ScheduleOf

LEMMA JobsType ==
    ASSUME NEW p \in Policies
    PROVE  JobsOf(p) \in Times \cup {NoJobs}
BY ConfigAssumption DEF JobsOf, ScheduleOf, Policies, Schedules

LEMMA ReloadType ==
    ASSUME NEW p \in Policies, NEW q \in Policies
    PROVE  [p EXCEPT !.instance_schedule = q.instance_schedule] \in Policies
BY DEF Policies

LEMMA TemplateType == Template \in Policies
BY DEF Template, Policies

LEMMA NoContent == Empty \notin Policies /\ Missing \notin Policies /\ Empty # Missing
BY ConfigAssumption

-----------------------------------------------------------------------------
(* The first state.                                                        *)

LEMMA InitInv == Init => Inv
<1> SUFFICES ASSUME Init PROVE Inv
  OBVIOUS
<1> USE ConfigAssumption, TemplateType, NoContent DEF Init
<1>1. TypeOK
  BY DEF TypeOK
<1>2. ServingInv /\ LockInv /\ SeedInv /\ ImportInv
  BY DEF ServingInv, LockInv, SeedInv, ImportInv, Saving, Locked, Mending
<1>3. CopyInv /\ FileInv /\ JobsInv /\ EmptyInv
  BY DEF CopyInv, FileInv, JobsInv, EmptyInv, Restores, Saving, Locked, Mending
<1> QED
  BY <1>1, <1>2, <1>3 DEF Inv

-----------------------------------------------------------------------------
(* The parts that hold whatever was overtaken, over each step.             *)

\* The types.
LEMMA TypeStep ==
    ASSUME TypeOK, ServingInv, [Next]_vars
    PROVE  TypeOK'
<1> USE ConfigAssumption, NoContent, UpdatedType, UpdatedImport, ReloadType,
        JobsType, TemplateType DEF TypeOK, ServingInv, Saving, Waiting,
        Locked, Mending, Goto, store, threads, history
<1>1. ASSUME NEW t \in Threads, NEW r \in Requests, Begin(t, r)
      PROVE  TypeOK'
  BY <1>1 DEF Begin
<1>2. ASSUME NEW t \in Threads, LoadNothing(t)
      PROVE  TypeOK'
  BY <1>2 DEF LoadNothing
<1>3. ASSUME NEW t \in Threads, Load(t)
      PROVE  TypeOK'
  BY <1>3 DEF Load, AfterLoad
<1>4. ASSUME NEW t \in Threads, Reload(t)
      PROVE  TypeOK'
  BY <1>4 DEF Reload
<1>5. ASSUME NEW t \in Threads, Open(t)
      PROVE  TypeOK'
  BY <1>5 DEF Open
<1>6. ASSUME NEW t \in Threads, OpenWithoutBackup(t)
      PROVE  TypeOK'
  BY <1>6 DEF OpenWithoutBackup
<1>7. ASSUME NEW t \in Threads, Truncate(t)
      PROVE  TypeOK'
  BY <1>7 DEF Truncate
<1>8. ASSUME NEW t \in Threads, Write(t)
      PROVE  TypeOK'
  BY <1>8 DEF Write, Close
<1>9. ASSUME NEW t \in Threads, DiskFull(t)
      PROVE  TypeOK'
  BY <1>9 DEF DiskFull, Close
<1>10. ASSUME NEW t \in Threads, Fail(t)
      PROVE  TypeOK'
  BY <1>10 DEF Fail
<1>11. ASSUME NEW t \in Threads, Restore(t)
      PROVE  TypeOK'
  BY <1>11 DEF Restore
<1>12. ASSUME NEW t \in Threads, Refill(t)
      PROVE  TypeOK'
  BY <1>12 DEF Refill
<1>13. ASSUME NEW t \in Threads, GiveUp(t)
      PROVE  TypeOK'
  BY <1>13 DEF GiveUp
<1>14. ASSUME NEW t \in Threads, Reread(t)
      PROVE  TypeOK'
  BY <1>14 DEF Reread
<1>15. ASSUME NEW t \in Threads, Rebuild(t)
      PROVE  TypeOK'
  BY <1>15 DEF Rebuild
<1>16. CASE Start
  BY <1>16 DEF Start
<1>17. CASE Die
  <2>1. torn' \in BOOLEAN
    BY <1>17 DEF Die
  <2>2. pc' \in [Threads -> {"idle"}] /\ req' \in [Threads -> {Nobody}]
    BY <1>17 DEF Die
  <2>3. copy' \in [Threads -> {Empty}] /\ cron' = NoJobs /\ up' = FALSE
    BY <1>17 DEF Die
  <2>4. faults' = faults + 1 /\ lock' = Nobody
    BY <1>17 DEF Die
  <2>5. UNCHANGED <<file, backup, asked, stale, disturbed, unannounced>>
    BY <1>17 DEF Die
  <2>6. /\ pc' \in [Threads -> {"idle", "rebuild"} \cup Waiting \cup Locked
                            \cup Mending]
        /\ req' \in [Threads -> Requests \cup {Nobody}]
        /\ copy' \in [Threads -> Policies \cup {Empty}]
    BY <2>2, <2>3
  <2>7. /\ file' \in Policies \cup {Empty, Missing}
        /\ backup' \in Policies \cup {Empty, Missing}
        /\ lock' \in Threads \cup {Nobody}
        /\ cron' \in Times \cup {NoJobs}
        /\ faults' \in Nat
        /\ asked' \in Policies
    BY <2>3, <2>4, <2>5
  <2>8. /\ up' \in BOOLEAN
        /\ stale' \in [Threads -> BOOLEAN]
        /\ disturbed' \in BOOLEAN
        /\ unannounced' \in BOOLEAN
    BY <2>3, <2>5
  <2> QED
    BY <2>1, <2>6, <2>7, <2>8, Zenon
<1>18. CASE UNCHANGED vars
  BY <1>18 DEF vars, store, threads, history
<1> QED
  BY <1>1, <1>2, <1>3, <1>4, <1>5, <1>6, <1>7, <1>8, <1>9,
     <1>10, <1>11, <1>12, <1>13, <1>14, <1>15, <1>16, <1>17, <1>18
  DEF Next, Serve

\* What a thread at work has.
LEMMA ServingStep ==
    ASSUME TypeOK, ServingInv, [Next]_vars
    PROVE  ServingInv'
<1> USE ConfigAssumption, NoContent, UpdatedType, UpdatedImport, ReloadType
        DEF TypeOK, ServingInv, Saving, Waiting, Locked, Mending, Goto,
        store, threads, history
<1>1. ASSUME NEW t \in Threads, NEW r \in Requests, Begin(t, r)
      PROVE  ServingInv'
  BY <1>1 DEF Begin
<1>2. ASSUME NEW t \in Threads, LoadNothing(t)
      PROVE  ServingInv'
  BY <1>2 DEF LoadNothing
<1>3. ASSUME NEW t \in Threads, Load(t)
      PROVE  ServingInv'
  BY <1>3 DEF Load, AfterLoad
<1>4. ASSUME NEW t \in Threads, Reload(t)
      PROVE  ServingInv'
  BY <1>4 DEF Reload
<1>5. ASSUME NEW t \in Threads, Open(t)
      PROVE  ServingInv'
  BY <1>5 DEF Open
<1>6. ASSUME NEW t \in Threads, OpenWithoutBackup(t)
      PROVE  ServingInv'
  BY <1>6 DEF OpenWithoutBackup
<1>7. ASSUME NEW t \in Threads, Truncate(t)
      PROVE  ServingInv'
  BY <1>7 DEF Truncate
<1>8. ASSUME NEW t \in Threads, Write(t)
      PROVE  ServingInv'
  BY <1>8 DEF Write, Close
<1>9. ASSUME NEW t \in Threads, DiskFull(t)
      PROVE  ServingInv'
  BY <1>9 DEF DiskFull, Close
<1>10. ASSUME NEW t \in Threads, Fail(t)
      PROVE  ServingInv'
  BY <1>10 DEF Fail
<1>11. ASSUME NEW t \in Threads, Restore(t)
      PROVE  ServingInv'
  BY <1>11 DEF Restore
<1>12. ASSUME NEW t \in Threads, Refill(t)
      PROVE  ServingInv'
  BY <1>12 DEF Refill
<1>13. ASSUME NEW t \in Threads, GiveUp(t)
      PROVE  ServingInv'
  BY <1>13 DEF GiveUp
<1>14. ASSUME NEW t \in Threads, Reread(t)
      PROVE  ServingInv'
  BY <1>14 DEF Reread
<1>15. ASSUME NEW t \in Threads, Rebuild(t)
      PROVE  ServingInv'
  BY <1>15 DEF Rebuild
<1>16. CASE Start
  BY <1>16 DEF Start
<1>17. CASE Die
  BY <1>17 DEF Die
<1>18. CASE UNCHANGED vars
  BY <1>18 DEF vars, store, threads, history
<1> QED
  BY <1>1, <1>2, <1>3, <1>4, <1>5, <1>6, <1>7, <1>8, <1>9,
     <1>10, <1>11, <1>12, <1>13, <1>14, <1>15, <1>16, <1>17, <1>18
  DEF Next, Serve

\* Who holds the lock.
LEMMA LockStep ==
    ASSUME TypeOK, LockInv, [Next]_vars
    PROVE  LockInv'
<1> USE ConfigAssumption DEF TypeOK, LockInv, Waiting, Locked, Mending,
        Goto, store, threads, history
<1>1. ASSUME NEW t \in Threads, NEW r \in Requests, Begin(t, r)
      PROVE  LockInv'
  BY <1>1 DEF Begin
<1>2. ASSUME NEW t \in Threads, LoadNothing(t)
      PROVE  LockInv'
  BY <1>2 DEF LoadNothing
<1>3. ASSUME NEW t \in Threads, Load(t)
      PROVE  LockInv'
  BY <1>3 DEF Load, AfterLoad
<1>4. ASSUME NEW t \in Threads, Reload(t)
      PROVE  LockInv'
  BY <1>4 DEF Reload
<1>5. ASSUME NEW t \in Threads, Open(t)
      PROVE  LockInv'
  BY <1>5 DEF Open
<1>6. ASSUME NEW t \in Threads, OpenWithoutBackup(t)
      PROVE  LockInv'
  BY <1>6 DEF OpenWithoutBackup
<1>7. ASSUME NEW t \in Threads, Truncate(t)
      PROVE  LockInv'
  BY <1>7 DEF Truncate
<1>8. ASSUME NEW t \in Threads, Write(t)
      PROVE  LockInv'
  BY <1>8 DEF Write, Close
<1>9. ASSUME NEW t \in Threads, DiskFull(t)
      PROVE  LockInv'
  BY <1>9 DEF DiskFull, Close
<1>10. ASSUME NEW t \in Threads, Fail(t)
      PROVE  LockInv'
  BY <1>10 DEF Fail
<1>11. ASSUME NEW t \in Threads, Restore(t)
      PROVE  LockInv'
  BY <1>11 DEF Restore
<1>12. ASSUME NEW t \in Threads, Refill(t)
      PROVE  LockInv'
  BY <1>12 DEF Refill
<1>13. ASSUME NEW t \in Threads, GiveUp(t)
      PROVE  LockInv'
  BY <1>13 DEF GiveUp
<1>14. ASSUME NEW t \in Threads, Reread(t)
      PROVE  LockInv'
  BY <1>14 DEF Reread
<1>15. ASSUME NEW t \in Threads, Rebuild(t)
      PROVE  LockInv'
  BY <1>15 DEF Rebuild
<1>16. CASE Start
  BY <1>16 DEF Start
<1>17. CASE Die
  BY <1>17 DEF Die
<1>18. CASE UNCHANGED vars
  BY <1>18 DEF vars, store, threads, history
<1> QED
  BY <1>1, <1>2, <1>3, <1>4, <1>5, <1>6, <1>7, <1>8, <1>9,
     <1>10, <1>11, <1>12, <1>13, <1>14, <1>15, <1>16, <1>17, <1>18
  DEF Next, Serve

\* When there is no file.
LEMMA SeedStep ==
    ASSUME TypeOK, ServingInv, SeedInv, [Next]_vars
    PROVE  SeedInv'
<1> USE ConfigAssumption, NoContent, TemplateType DEF TypeOK, ServingInv,
        SeedInv, Saving, Waiting, Locked, Mending, Goto, store, threads,
        history
<1>1. ASSUME NEW t \in Threads, NEW r \in Requests, Begin(t, r)
      PROVE  SeedInv'
  BY <1>1 DEF Begin
<1>2. ASSUME NEW t \in Threads, LoadNothing(t)
      PROVE  SeedInv'
  BY <1>2 DEF LoadNothing
<1>3. ASSUME NEW t \in Threads, Load(t)
      PROVE  SeedInv'
  BY <1>3 DEF Load, AfterLoad
<1>4. ASSUME NEW t \in Threads, Reload(t)
      PROVE  SeedInv'
  BY <1>4 DEF Reload
<1>5. ASSUME NEW t \in Threads, Open(t)
      PROVE  SeedInv'
  BY <1>5 DEF Open
<1>6. ASSUME NEW t \in Threads, OpenWithoutBackup(t)
      PROVE  SeedInv'
  BY <1>6 DEF OpenWithoutBackup
<1>7. ASSUME NEW t \in Threads, Truncate(t)
      PROVE  SeedInv'
  BY <1>7 DEF Truncate
<1>8. ASSUME NEW t \in Threads, Write(t)
      PROVE  SeedInv'
  BY <1>8 DEF Write, Close
<1>9. ASSUME NEW t \in Threads, DiskFull(t)
      PROVE  SeedInv'
  BY <1>9 DEF DiskFull, Close
<1>10. ASSUME NEW t \in Threads, Fail(t)
      PROVE  SeedInv'
  BY <1>10 DEF Fail
<1>11. ASSUME NEW t \in Threads, Restore(t)
      PROVE  SeedInv'
  BY <1>11 DEF Restore
<1>12. ASSUME NEW t \in Threads, Refill(t)
      PROVE  SeedInv'
  BY <1>12 DEF Refill
<1>13. ASSUME NEW t \in Threads, GiveUp(t)
      PROVE  SeedInv'
  BY <1>13 DEF GiveUp
<1>14. ASSUME NEW t \in Threads, Reread(t)
      PROVE  SeedInv'
  BY <1>14 DEF Reread
<1>15. ASSUME NEW t \in Threads, Rebuild(t)
      PROVE  SeedInv'
  BY <1>15 DEF Rebuild
<1>16. CASE Start
  BY <1>16 DEF Start
<1>17. CASE Die
  BY <1>17 DEF Die
<1>18. CASE UNCHANGED vars
  BY <1>18 DEF vars, store, threads, history
<1> QED
  BY <1>1, <1>2, <1>3, <1>4, <1>5, <1>6, <1>7, <1>8, <1>9,
     <1>10, <1>11, <1>12, <1>13, <1>14, <1>15, <1>16, <1>17, <1>18
  DEF Next, Serve

\* What an import writes.
LEMMA ImportStep ==
    ASSUME TypeOK, ServingInv, ImportInv, [Next]_vars
    PROVE  ImportInv'
<1> USE ConfigAssumption DEF TypeOK, ServingInv, ImportInv, Saving, Waiting,
        Locked, Mending, Goto, store, threads, history
<1>1. ASSUME NEW t \in Threads, NEW r \in Requests, Begin(t, r)
      PROVE  ImportInv'
  BY <1>1 DEF Begin
<1>2. ASSUME NEW t \in Threads, LoadNothing(t)
      PROVE  ImportInv'
  BY <1>2 DEF LoadNothing
<1>3. ASSUME NEW t \in Threads, Load(t)
      PROVE  ImportInv'
  BY <1>3 DEF Load, AfterLoad
<1>4. ASSUME NEW t \in Threads, Reload(t)
      PROVE  ImportInv'
  BY <1>4 DEF Reload
<1>5. ASSUME NEW t \in Threads, Open(t)
      PROVE  ImportInv'
  BY <1>5 DEF Open
<1>6. ASSUME NEW t \in Threads, OpenWithoutBackup(t)
      PROVE  ImportInv'
  BY <1>6 DEF OpenWithoutBackup
<1>7. ASSUME NEW t \in Threads, Truncate(t)
      PROVE  ImportInv'
  BY <1>7 DEF Truncate
<1>8. ASSUME NEW t \in Threads, Write(t)
      PROVE  ImportInv'
  BY <1>8 DEF Write, Close
<1>9. ASSUME NEW t \in Threads, DiskFull(t)
      PROVE  ImportInv'
  BY <1>9 DEF DiskFull, Close
<1>10. ASSUME NEW t \in Threads, Fail(t)
      PROVE  ImportInv'
  BY <1>10 DEF Fail
<1>11. ASSUME NEW t \in Threads, Restore(t)
      PROVE  ImportInv'
  BY <1>11 DEF Restore
<1>12. ASSUME NEW t \in Threads, Refill(t)
      PROVE  ImportInv'
  BY <1>12 DEF Refill
<1>13. ASSUME NEW t \in Threads, GiveUp(t)
      PROVE  ImportInv'
  BY <1>13 DEF GiveUp
<1>14. ASSUME NEW t \in Threads, Reread(t)
      PROVE  ImportInv'
  BY <1>14 DEF Reread
<1>15. ASSUME NEW t \in Threads, Rebuild(t)
      PROVE  ImportInv'
  BY <1>15 DEF Rebuild
<1>16. CASE Start
  BY <1>16 DEF Start
<1>17. CASE Die
  BY <1>17 DEF Die
<1>18. CASE UNCHANGED vars
  BY <1>18 DEF vars, store, threads, history
<1> QED
  BY <1>1, <1>2, <1>3, <1>4, <1>5, <1>6, <1>7, <1>8, <1>9,
     <1>10, <1>11, <1>12, <1>13, <1>14, <1>15, <1>16, <1>17, <1>18
  DEF Next, Serve

-----------------------------------------------------------------------------
(* The parts that hold as long as nothing overtaken was used. The request  *)
(* that writes may have been overtaken: then disturbed' follows.           *)

\* What the threads hold.
LEMMA CopyStep ==
    ASSUME TypeOK, ServingInv, LockInv, ~disturbed,
           CopyInv, FileInv, [Next]_vars
    PROVE  CopyInv'
<1> USE NoContent, UpdatedSchedule DEF TypeOK, ServingInv, LockInv, CopyInv,
        FileInv, Saving, Waiting, Locked, Mending, Goto, store, threads,
        history
<1>1. ASSUME NEW t \in Threads, NEW r \in Requests, Begin(t, r)
      PROVE  CopyInv'
  BY <1>1 DEF Begin
<1>2. ASSUME NEW t \in Threads, LoadNothing(t)
      PROVE  CopyInv'
  BY <1>2 DEF LoadNothing
<1>3. ASSUME NEW t \in Threads, Load(t)
      PROVE  CopyInv'
  BY <1>3 DEF Load, AfterLoad
<1>4. ASSUME NEW t \in Threads, Reload(t)
      PROVE  CopyInv'
  BY <1>4 DEF Reload
<1>5. ASSUME NEW t \in Threads, Open(t)
      PROVE  CopyInv'
  BY <1>5 DEF Open
<1>6. ASSUME NEW t \in Threads, OpenWithoutBackup(t)
      PROVE  CopyInv'
  BY <1>6 DEF OpenWithoutBackup
<1>7. ASSUME NEW t \in Threads, Truncate(t)
      PROVE  CopyInv'
  BY <1>7 DEF Truncate
<1>8. ASSUME NEW t \in Threads, Write(t)
      PROVE  CopyInv'
  BY <1>8 DEF Write, Close
<1>9. ASSUME NEW t \in Threads, DiskFull(t)
      PROVE  CopyInv'
  BY <1>9 DEF DiskFull, Close
<1>10. ASSUME NEW t \in Threads, Fail(t)
      PROVE  CopyInv'
  BY <1>10 DEF Fail
<1>11. ASSUME NEW t \in Threads, Restore(t)
      PROVE  CopyInv'
  BY <1>11 DEF Restore
<1>12. ASSUME NEW t \in Threads, Refill(t)
      PROVE  CopyInv'
  BY <1>12 DEF Refill
<1>13. ASSUME NEW t \in Threads, GiveUp(t)
      PROVE  CopyInv'
  BY <1>13 DEF GiveUp
<1>14. ASSUME NEW t \in Threads, Reread(t)
      PROVE  CopyInv'
  BY <1>14 DEF Reread
<1>15. ASSUME NEW t \in Threads, Rebuild(t)
      PROVE  CopyInv'
  BY <1>15 DEF Rebuild
<1>16. CASE Start
  BY <1>16 DEF Start
<1>17. CASE Die
  BY <1>17 DEF Die
<1>18. CASE UNCHANGED vars
  BY <1>18 DEF vars, store, threads, history
<1> QED
  BY <1>1, <1>2, <1>3, <1>4, <1>5, <1>6, <1>7, <1>8, <1>9,
     <1>10, <1>11, <1>12, <1>13, <1>14, <1>15, <1>16, <1>17, <1>18
  DEF Next, Serve

\* What the file and the backup are.
LEMMA FileStep ==
    ASSUME TypeOK, ServingInv, LockInv, SeedInv, ImportInv,
           ~disturbed, CopyInv, FileInv, [Next]_vars
    PROVE  ~disturbed' => FileInv'
<1> USE NoContent, UpdatedImport DEF TypeOK, ServingInv, LockInv, SeedInv,
        ImportInv, CopyInv, FileInv, Restores, Saving, Waiting, Locked,
        Mending, Goto, store, threads, history
<1>1. ASSUME NEW t \in Threads, NEW r \in Requests, Begin(t, r)
      PROVE  ~disturbed' => FileInv'
  BY <1>1 DEF Begin
<1>2. ASSUME NEW t \in Threads, LoadNothing(t)
      PROVE  ~disturbed' => FileInv'
  BY <1>2 DEF LoadNothing
<1>3. ASSUME NEW t \in Threads, Load(t)
      PROVE  ~disturbed' => FileInv'
  BY <1>3 DEF Load, AfterLoad
<1>4. ASSUME NEW t \in Threads, Reload(t)
      PROVE  ~disturbed' => FileInv'
  BY <1>4 DEF Reload
<1>5. ASSUME NEW t \in Threads, Open(t)
      PROVE  ~disturbed' => FileInv'
  BY <1>5 DEF Open
<1>6. ASSUME NEW t \in Threads, OpenWithoutBackup(t)
      PROVE  ~disturbed' => FileInv'
  BY <1>6 DEF OpenWithoutBackup
<1>7. ASSUME NEW t \in Threads, Truncate(t)
      PROVE  ~disturbed' => FileInv'
  BY <1>7 DEF Truncate
<1>8. ASSUME NEW t \in Threads, Write(t)
      PROVE  ~disturbed' => FileInv'
  BY <1>8 DEF Write, Close
<1>9. ASSUME NEW t \in Threads, DiskFull(t)
      PROVE  ~disturbed' => FileInv'
  BY <1>9 DEF DiskFull, Close
<1>10. ASSUME NEW t \in Threads, Fail(t)
      PROVE  ~disturbed' => FileInv'
  BY <1>10 DEF Fail
<1>11. ASSUME NEW t \in Threads, Restore(t)
      PROVE  ~disturbed' => FileInv'
  BY <1>11 DEF Restore
<1>12. ASSUME NEW t \in Threads, Refill(t)
      PROVE  ~disturbed' => FileInv'
  BY <1>12 DEF Refill
<1>13. ASSUME NEW t \in Threads, GiveUp(t)
      PROVE  ~disturbed' => FileInv'
  BY <1>13 DEF GiveUp
<1>14. ASSUME NEW t \in Threads, Reread(t)
      PROVE  ~disturbed' => FileInv'
  BY <1>14 DEF Reread
<1>15. ASSUME NEW t \in Threads, Rebuild(t)
      PROVE  ~disturbed' => FileInv'
  BY <1>15 DEF Rebuild
<1>16. CASE Start
  BY <1>16 DEF Start
<1>17. CASE Die
  BY <1>17 DEF Die
<1>18. CASE UNCHANGED vars
  BY <1>18 DEF vars, store, threads, history
<1> QED
  BY <1>1, <1>2, <1>3, <1>4, <1>5, <1>6, <1>7, <1>8, <1>9,
     <1>10, <1>11, <1>12, <1>13, <1>14, <1>15, <1>16, <1>17, <1>18
  DEF Next, Serve

\* What the jobs follow.
LEMMA JobsStep ==
    ASSUME TypeOK, ServingInv, SeedInv, ~disturbed,
           CopyInv, FileInv, JobsInv, [Next]_vars
    PROVE  ~disturbed' => JobsInv'
<1> USE NoContent, UpdatedJobs DEF TypeOK, ServingInv, SeedInv, CopyInv,
        FileInv, JobsInv, Saving, Waiting, Locked, Mending, Goto, store,
        threads, history
<1>1. ASSUME NEW t \in Threads, NEW r \in Requests, Begin(t, r)
      PROVE  ~disturbed' => JobsInv'
  BY <1>1 DEF Begin
<1>2. ASSUME NEW t \in Threads, LoadNothing(t)
      PROVE  ~disturbed' => JobsInv'
  BY <1>2 DEF LoadNothing
<1>3. ASSUME NEW t \in Threads, Load(t)
      PROVE  ~disturbed' => JobsInv'
  BY <1>3 DEF Load, AfterLoad
<1>4. ASSUME NEW t \in Threads, Reload(t)
      PROVE  ~disturbed' => JobsInv'
  BY <1>4 DEF Reload
<1>5. ASSUME NEW t \in Threads, Open(t)
      PROVE  ~disturbed' => JobsInv'
  BY <1>5 DEF Open
<1>6. ASSUME NEW t \in Threads, OpenWithoutBackup(t)
      PROVE  ~disturbed' => JobsInv'
  BY <1>6 DEF OpenWithoutBackup
<1>7. ASSUME NEW t \in Threads, Truncate(t)
      PROVE  ~disturbed' => JobsInv'
  BY <1>7 DEF Truncate
<1>8. ASSUME NEW t \in Threads, Write(t)
      PROVE  ~disturbed' => JobsInv'
  BY <1>8 DEF Write, Close
<1>9. ASSUME NEW t \in Threads, DiskFull(t)
      PROVE  ~disturbed' => JobsInv'
  BY <1>9 DEF DiskFull, Close
<1>10. ASSUME NEW t \in Threads, Fail(t)
      PROVE  ~disturbed' => JobsInv'
  BY <1>10 DEF Fail
<1>11. ASSUME NEW t \in Threads, Restore(t)
      PROVE  ~disturbed' => JobsInv'
  BY <1>11 DEF Restore
<1>12. ASSUME NEW t \in Threads, Refill(t)
      PROVE  ~disturbed' => JobsInv'
  BY <1>12 DEF Refill
<1>13. ASSUME NEW t \in Threads, GiveUp(t)
      PROVE  ~disturbed' => JobsInv'
  BY <1>13 DEF GiveUp
<1>14. ASSUME NEW t \in Threads, Reread(t)
      PROVE  ~disturbed' => JobsInv'
  BY <1>14 DEF Reread
<1>15. ASSUME NEW t \in Threads, Rebuild(t)
      PROVE  ~disturbed' => JobsInv'
  BY <1>15 DEF Rebuild
<1>16. CASE Start
  BY <1>16 DEF Start
<1>17. CASE Die
  BY <1>17 DEF Die
<1>18. CASE UNCHANGED vars
  BY <1>18 DEF vars, store, threads, history
<1> QED
  BY <1>1, <1>2, <1>3, <1>4, <1>5, <1>6, <1>7, <1>8, <1>9,
     <1>10, <1>11, <1>12, <1>13, <1>14, <1>15, <1>16, <1>17, <1>18
  DEF Next, Serve

\* When the file is empty.
LEMMA EmptyStep ==
    ASSUME TypeOK, ServingInv, LockInv, SeedInv, ~disturbed, ~torn,
           EmptyInv, [Next]_vars
    PROVE  ~disturbed' /\ ~torn' => EmptyInv'
<1> USE NoContent, TemplateType DEF TypeOK, ServingInv, LockInv, SeedInv,
        EmptyInv, Restores, Saving, Waiting, Locked, Mending, Goto, store,
        threads, history
<1>1. ASSUME NEW t \in Threads, NEW r \in Requests, Begin(t, r)
      PROVE  ~disturbed' /\ ~torn' => EmptyInv'
  BY <1>1 DEF Begin
<1>2. ASSUME NEW t \in Threads, LoadNothing(t)
      PROVE  ~disturbed' /\ ~torn' => EmptyInv'
  BY <1>2 DEF LoadNothing
<1>3. ASSUME NEW t \in Threads, Load(t)
      PROVE  ~disturbed' /\ ~torn' => EmptyInv'
  BY <1>3 DEF Load, AfterLoad
<1>4. ASSUME NEW t \in Threads, Reload(t)
      PROVE  ~disturbed' /\ ~torn' => EmptyInv'
  BY <1>4 DEF Reload
<1>5. ASSUME NEW t \in Threads, Open(t)
      PROVE  ~disturbed' /\ ~torn' => EmptyInv'
  <2>1. /\ file' = file /\ backup' = file
        /\ pc' = [pc EXCEPT ![t] = "truncate"]
        /\ stale' = [q \in Threads |-> stale[q] \/ pc[q] \in Mending]
    BY <1>5 DEF Open
  <2>2. \A q \in Threads : pc[q] \notin Locked
    BY <1>5, ConfigAssumption DEF Open
  <2>3. ASSUME file = Empty
        PROVE  \E q \in Threads \ {t} : pc'[q] \in Mending /\ stale'[q]
    <3>1. PICK q \in Threads : pc[q] \in Mending
      BY <2>2, <2>3
    <3>2. q # t
      BY <1>5, <3>1 DEF Open
    <3>3. pc'[q] = pc[q] /\ stale'[q]
      BY <2>1, <3>1, <3>2
    <3> QED
      BY <3>1, <3>2, <3>3
  <2>4. \A q \in Threads \ {t} : ~Restores(q)'
    BY <2>1, <2>2
  <2>5. \A q \in Threads : Restores(q)' /\ backup' = Empty =>
          \E u \in Threads \ {q} : pc'[u] \in Mending /\ stale'[u]
    BY <2>1, <2>3, <2>4
  <2>6. file' = Empty => \E q \in Threads : pc'[q] \in {"write"} \cup Mending
    BY <2>1, <2>3
  <2> QED
    BY <2>5, <2>6
<1>6. ASSUME NEW t \in Threads, OpenWithoutBackup(t)
      PROVE  ~disturbed' /\ ~torn' => EmptyInv'
  BY <1>6 DEF OpenWithoutBackup
<1>7. ASSUME NEW t \in Threads, Truncate(t)
      PROVE  ~disturbed' /\ ~torn' => EmptyInv'
  BY <1>7 DEF Truncate
<1>8. ASSUME NEW t \in Threads, Write(t)
      PROVE  ~disturbed' /\ ~torn' => EmptyInv'
  BY <1>8 DEF Write, Close
<1>9. ASSUME NEW t \in Threads, DiskFull(t)
      PROVE  ~disturbed' /\ ~torn' => EmptyInv'
  BY <1>9 DEF DiskFull, Close
<1>10. ASSUME NEW t \in Threads, Fail(t)
      PROVE  ~disturbed' /\ ~torn' => EmptyInv'
  BY <1>10 DEF Fail
<1>11. ASSUME NEW t \in Threads, Restore(t)
      PROVE  ~disturbed' /\ ~torn' => EmptyInv'
  BY <1>11 DEF Restore
<1>12. ASSUME NEW t \in Threads, Refill(t)
      PROVE  ~disturbed' /\ ~torn' => EmptyInv'
  BY <1>12 DEF Refill
<1>13. ASSUME NEW t \in Threads, GiveUp(t)
      PROVE  ~disturbed' /\ ~torn' => EmptyInv'
  BY <1>13 DEF GiveUp
<1>14. ASSUME NEW t \in Threads, Reread(t)
      PROVE  ~disturbed' /\ ~torn' => EmptyInv'
  BY <1>14 DEF Reread
<1>15. ASSUME NEW t \in Threads, Rebuild(t)
      PROVE  ~disturbed' /\ ~torn' => EmptyInv'
  BY <1>15 DEF Rebuild
<1>16. CASE Start
  BY <1>16 DEF Start
<1>17. CASE Die
  BY <1>17 DEF Die
<1>18. CASE UNCHANGED vars
  BY <1>18 DEF vars, store, threads, history
<1> QED
  BY <1>1, <1>2, <1>3, <1>4, <1>5, <1>6, <1>7, <1>8, <1>9,
     <1>10, <1>11, <1>12, <1>13, <1>14, <1>15, <1>16, <1>17, <1>18
  DEF Next, Serve

-----------------------------------------------------------------------------
(* The theorems.                                                           *)

\* What was overtaken or lost stays so.
LEMMA Sticky ==
    ASSUME TypeOK, [Next]_vars
    PROVE  (disturbed => disturbed') /\ (torn => torn')
<1> USE DEF history
<1>1. ASSUME NEW t \in Threads, NEW r \in Requests, Begin(t, r)
      PROVE  (disturbed => disturbed') /\ (torn => torn')
  BY <1>1 DEF Begin
<1>2. ASSUME NEW t \in Threads, LoadNothing(t)
      PROVE  (disturbed => disturbed') /\ (torn => torn')
  BY <1>2 DEF LoadNothing
<1>3. ASSUME NEW t \in Threads, Load(t)
      PROVE  (disturbed => disturbed') /\ (torn => torn')
  BY <1>3 DEF Load, AfterLoad
<1>4. ASSUME NEW t \in Threads, Reload(t)
      PROVE  (disturbed => disturbed') /\ (torn => torn')
  BY <1>4 DEF Reload
<1>5. ASSUME NEW t \in Threads, Open(t)
      PROVE  (disturbed => disturbed') /\ (torn => torn')
  BY <1>5 DEF Open
<1>6. ASSUME NEW t \in Threads, OpenWithoutBackup(t)
      PROVE  (disturbed => disturbed') /\ (torn => torn')
  BY <1>6 DEF OpenWithoutBackup
<1>7. ASSUME NEW t \in Threads, Truncate(t)
      PROVE  (disturbed => disturbed') /\ (torn => torn')
  BY <1>7 DEF Truncate
<1>8. ASSUME NEW t \in Threads, Write(t)
      PROVE  (disturbed => disturbed') /\ (torn => torn')
  BY <1>8 DEF Write, Close
<1>9. ASSUME NEW t \in Threads, DiskFull(t)
      PROVE  (disturbed => disturbed') /\ (torn => torn')
  BY <1>9 DEF DiskFull, Close
<1>10. ASSUME NEW t \in Threads, Fail(t)
      PROVE  (disturbed => disturbed') /\ (torn => torn')
  BY <1>10 DEF Fail
<1>11. ASSUME NEW t \in Threads, Restore(t)
      PROVE  (disturbed => disturbed') /\ (torn => torn')
  BY <1>11 DEF Restore
<1>12. ASSUME NEW t \in Threads, Refill(t)
      PROVE  (disturbed => disturbed') /\ (torn => torn')
  BY <1>12 DEF Refill
<1>13. ASSUME NEW t \in Threads, GiveUp(t)
      PROVE  (disturbed => disturbed') /\ (torn => torn')
  BY <1>13 DEF GiveUp
<1>14. ASSUME NEW t \in Threads, Reread(t)
      PROVE  (disturbed => disturbed') /\ (torn => torn')
  BY <1>14 DEF Reread
<1>15. ASSUME NEW t \in Threads, Rebuild(t)
      PROVE  (disturbed => disturbed') /\ (torn => torn')
  BY <1>15 DEF Rebuild
<1>16. CASE Start
  BY <1>16 DEF Start
<1>17. CASE Die
  BY <1>17 DEF Die
<1>18. CASE UNCHANGED vars
  BY <1>18 DEF vars, store, threads, history
<1> QED
  BY <1>1, <1>2, <1>3, <1>4, <1>5, <1>6, <1>7, <1>8, <1>9,
     <1>10, <1>11, <1>12, <1>13, <1>14, <1>15, <1>16, <1>17, <1>18
  DEF Next, Serve

LEMMA Inductive == Inv /\ [Next]_vars => Inv'
<1> SUFFICES ASSUME Inv, [Next]_vars PROVE Inv'
  OBVIOUS
<1>1. TypeOK' /\ ServingInv' /\ LockInv' /\ SeedInv' /\ ImportInv'
  BY TypeStep, ServingStep, LockStep, SeedStep, ImportStep DEF Inv
<1>2. ASSUME ~disturbed' PROVE CopyInv' /\ FileInv' /\ JobsInv'
  <2>1. ~disturbed
    BY <1>2, Sticky DEF Inv
  <2> QED
    BY <1>2, <2>1, CopyStep, FileStep, JobsStep DEF Inv
<1>3. ASSUME ~disturbed', ~torn' PROVE EmptyInv'
  <2>1. ~disturbed /\ ~torn
    BY <1>3, Sticky DEF Inv
  <2> QED
    BY <1>3, <2>1, EmptyStep DEF Inv
<1> QED
  BY <1>1, <1>2, <1>3 DEF Inv

LEMMA Invariant == Spec => []Inv
BY InitInv, Inductive, PTL DEF Spec

\* config_manager.py, settings.py: every reachable state is type correct.
THEOREM StoreTypeCorrect == Spec => []TypeOK
<1>1. Inv => TypeOK
  BY DEF Inv
<1> QED
  BY <1>1, Invariant, PTL

\* save_config and its callers: as long as no request used what another save
\* had overtaken, a file with content is the sum of the requests that were
\* answered with success, whatever fails, is restored or dies.
THEOREM UpdatesAreKept == Spec => []UpdatesKept
<1>1. Inv => UpdatesKept
  BY DEF Inv, FileInv, UpdatesKept
<1> QED
  BY <1>1, Invariant, PTL

\* save_config and its exception handler: then only a full disk, or a death in
\* the middle of a write, leaves an empty file when nobody is writing.
THEOREM PolicyStaysReadable == Spec => []PolicyReadable
<1>1. Inv => PolicyReadable
  BY DEF Inv, EmptyInv, PolicyReadable, Quiet
<1> QED
  BY <1>1, Invariant, PTL

\* reschedule_instance_jobs: then the stop and start jobs are those of the
\* saved schedule, but for an import and a rebuild that failed.
THEOREM JobsFollow == Spec => []JobsFollowSchedule
<1>1. Inv => JobsFollowSchedule
  <2> SUFFICES ASSUME Inv, up, ~disturbed, ~unannounced, file # Empty,
                      \A t \in Threads : pc[t] \notin {"reread", "rebuild"}
               PROVE  cron = JobsOf(file)
    BY DEF JobsFollowSchedule
  <2>1. file = asked
    BY DEF Inv, FileInv, SeedInv
  <2> QED
    BY <2>1 DEF Inv, JobsInv
<1> QED
  BY <1>1, Invariant, PTL

-----------------------------------------------------------------------------
(* The runs of the instance schedule.                                      *)

Runs == [pc : RunSteps, dry : BOOLEAN, todo : SUBSET Ids, acted : SUBSET Ids,
         rows : SUBSET [id : Ids, status : {"dry_run", "success", "failed"}],
         live : BOOLEAN, free : SUBSET Ids]

\* The history of a run knows the policy of this moment.
RunWatches ==
    job.pc # "idle" =>
        /\ asked.dry_run = FALSE => job.live
        /\ Ids \ WhitelistOf(asked) \subseteq job.free

\* What the run found out was so at some moment.
RunKnows ==
    /\ (job.pc \in {"targets", "act"} /\ ~job.dry) => job.live
    /\ job.pc = "act" => job.todo \subseteq job.free
    /\ job.acted \subseteq job.free

\* Nothing is changed before the targets are known, nor by a dry run.
RunWrites == job.acted # {} => job.pc = "act" /\ ~job.dry

RunInv ==
    /\ Inv
    /\ job \in Runs
    /\ RunWatches
    /\ RunWrites
    /\ ~disturbed => RunKnows

LEMMA FreeType == \A p \in Policies : Ids \ WhitelistOf(p) \subseteq Ids
OBVIOUS

LEMMA WatchedType ==
    ASSUME NEW j \in Runs, NEW p \in Policies
    PROVE  /\ Watched(j, p) \in Runs
           /\ Watched(j, p).pc = j.pc /\ Watched(j, p).dry = j.dry
           /\ Watched(j, p).todo = j.todo /\ Watched(j, p).acted = j.acted
           /\ Watched(j, p).live = (j.live \/ p.dry_run = FALSE)
           /\ Watched(j, p).free = j.free \cup (Ids \ WhitelistOf(p))
<1>1. (j.live \/ p.dry_run = FALSE) \in BOOLEAN
  OBVIOUS
<1>2. (j.free \cup (Ids \ WhitelistOf(p))) \in SUBSET Ids
  BY DEF Runs
<1> QED
  BY <1>1, <1>2 DEF Watched, Runs

LEMMA NoRunType == NoRun \in Runs
BY DEF NoRun, Runs, RunSteps

\* A run that is over, or did not begin, satisfies everything.
LEMMA IdleRun ==
    ASSUME Inv', job' = NoRun
    PROVE  RunInv'
BY NoRunType DEF RunInv, RunWatches, RunWrites, RunKnows, NoRun

LEMMA InitRunInv == InitRun => RunInv
BY InitInv, NoRunType
DEF InitRun, RunInv, RunWatches, RunWrites, RunKnows, NoRun

\* What a run loads is what the answered requests add up to.
LEMMA LoadsWhatWasAsked ==
    ASSUME Inv, Readable, ~disturbed
    PROVE  file = asked
BY NoContent DEF Inv, FileInv, Readable

\* The steps of a run.
LEMMA RunStep ==
    ASSUME RunInv, Run, UNCHANGED vars
    PROVE  RunInv'
<1>1. Inv'
  BY Inductive DEF RunInv
<1>2. /\ asked' = asked /\ disturbed' = disturbed /\ asked \in Policies
      /\ job \in Runs
  BY DEF RunInv, Inv, TypeOK, vars, history
<1>3. CASE Fire
  <2> DEFINE start == [NoRun EXCEPT !.pc = "schedule"]
  <2>1. start \in Runs
    BY NoRunType DEF Runs, RunSteps
  <2>2. job' = Watched(start, asked)
    BY <1>3 DEF Fire
  <2>3. start.acted = {} /\ start.pc = "schedule"
    BY DEF NoRun
  <2>4. /\ job' \in Runs /\ job'.pc = "schedule" /\ job'.acted = {}
        /\ asked.dry_run = FALSE => job'.live
        /\ Ids \ WhitelistOf(asked) \subseteq job'.free
    BY <1>2, <2>1, <2>2, <2>3, WatchedType
  <2>5. WhitelistOf(asked)' = WhitelistOf(asked)
    BY <1>2 DEF WhitelistOf
  <2> QED
    BY <1>1, <1>2, <2>4, <2>5 DEF RunInv, RunWatches, RunWrites, RunKnows
<1>4. CASE ReadSchedule
  <2>1. CASE job' = NoRun
    BY <1>1, <2>1, IdleRun
  <2>2. CASE job' = [job EXCEPT !.pc = "dryRun"]
    BY <1>1, <1>2, <1>4, <2>2
    DEF RunInv, RunWatches, RunWrites, RunKnows, Runs, RunSteps, ReadSchedule
  <2> QED
    BY <1>4, <2>1, <2>2 DEF ReadSchedule, Goes
<1>5. CASE ReadDryRun
  <2>1. CASE job' = NoRun
    BY <1>1, <2>1, IdleRun
  <2>2. CASE job' = [job EXCEPT !.pc = "targets", !.dry = DryRunOf(file)]
    <3>1. job' \in Runs /\ job'.pc = "targets" /\ job'.dry = DryRunOf(file)
          /\ job'.acted = {} /\ job'.live = job.live /\ job'.free = job.free
      BY <1>2, <1>5, <2>2 DEF RunInv, RunWrites, Runs, RunSteps, ReadDryRun, DryRunOf
    <3>2. ASSUME ~disturbed, ~DryRunOf(file) PROVE job.live
      BY <1>5, <3>2, LoadsWhatWasAsked DEF RunInv, RunWatches, ReadDryRun, DryRunOf
    <3> QED
      BY <1>1, <1>2, <1>5, <3>1, <3>2
      DEF RunInv, RunWatches, RunWrites, RunKnows, ReadDryRun
  <2> QED
    BY <1>5, <2>1, <2>2 DEF ReadDryRun
<1>6. CASE Targets
  <2> DEFINE found == Tagged \ WhitelistOf(file)
  <2>1. CASE job' = NoRun
    BY <1>1, <2>1, IdleRun
  <2>2. CASE job' = [job EXCEPT !.pc = "act", !.todo = found]
    <3>1. found \in SUBSET Ids
      BY ScheduleAssumption
    <3>2. job' \in Runs /\ job'.pc = "act" /\ job'.dry = job.dry /\ job'.todo = found
          /\ job'.acted = {} /\ job'.live = job.live /\ job'.free = job.free
      BY <1>2, <1>6, <2>2, <3>1 DEF RunInv, RunWrites, Runs, RunSteps, Targets
    <3>3. ASSUME ~disturbed PROVE found \subseteq job.free
      BY <1>6, <3>3, LoadsWhatWasAsked, ScheduleAssumption
      DEF RunInv, RunWatches, Targets
    <3> QED
      BY <1>1, <1>2, <1>6, <3>2, <3>3
      DEF RunInv, RunWatches, RunWrites, RunKnows, Targets
  <2> QED
    BY <1>6, <2>1, <2>2 DEF Targets
<1>7. CASE Unreadable
  BY <1>1, <1>7, IdleRun DEF Unreadable
<1>8. ASSUME NEW i \in Tagged, Act(i) PROVE RunInv'
  <2>1. PICK status \in IF job.dry THEN {"dry_run"} ELSE {"success", "failed"},
             done \in {{}, {i}}, told \in BOOLEAN :
          /\ status = "dry_run" => done = {}
          /\ job' = [job EXCEPT !.todo = @ \ {i}, !.acted = @ \cup done,
                       !.rows = IF told THEN @ \cup {[id |-> i, status |-> status]}
                                ELSE @]
    BY <1>8 DEF Act
  <2>2. i \in Ids /\ job.pc = "act" /\ i \in job.todo
    BY <1>8, ScheduleAssumption DEF Act
  <2> DEFINE told_rows == IF told THEN job.rows \cup {[id |-> i, status |-> status]}
                          ELSE job.rows
  <2>3. told_rows \in SUBSET [id : Ids, status : {"dry_run", "success", "failed"}]
    BY <1>2, <2>2 DEF Runs
  <2>4. job' \in Runs /\ job'.pc = "act" /\ job'.dry = job.dry
        /\ job'.todo = job.todo \ {i} /\ job'.acted = job.acted \cup done
        /\ job'.live = job.live /\ job'.free = job.free
    BY <1>2, <2>1, <2>2, <2>3 DEF Runs, RunSteps
  <2>5. job.dry => done = {}
    BY <2>1
  <2> QED
    BY <1>1, <1>2, <2>2, <2>4, <2>5 DEF RunInv, RunWatches, RunWrites, RunKnows
<1>9. CASE RunEnds
  BY <1>1, <1>9, IdleRun DEF RunEnds
<1> QED
  BY <1>3, <1>4, <1>5, <1>6, <1>7, <1>8, <1>9 DEF Run

\* The steps of the store, under a run.
LEMMA StoreStepKeeps ==
    ASSUME RunInv, StoreStep
    PROVE  RunInv'
<1>1. Inv' /\ asked' \in Policies
  BY Inductive DEF RunInv, StoreStep, Inv, TypeOK
<1>2. disturbed => disturbed'
  BY Sticky DEF RunInv, StoreStep, Inv
<1>3. CASE job' = NoRun
  BY <1>1, <1>3, IdleRun
<1>4. CASE job' = Watched(job, asked')
  <2>1. job \in Runs
    BY DEF RunInv
  <2>2. /\ job' \in Runs
        /\ job'.pc = job.pc /\ job'.dry = job.dry
        /\ job'.todo = job.todo /\ job'.acted = job.acted
        /\ asked'.dry_run = FALSE => job'.live
        /\ job.live => job'.live
        /\ job'.free = job.free \cup (Ids \ WhitelistOf(asked'))
    BY <1>1, <1>4, <2>1, WatchedType
  <2>3. WhitelistOf(asked)' = WhitelistOf(asked')
    BY DEF WhitelistOf
  <2>4. RunWatches' /\ RunWrites'
    BY <2>2, <2>3 DEF RunInv, RunWatches, RunWrites
  <2>5. ASSUME ~disturbed' PROVE RunKnows'
    BY <1>2, <2>2, <2>5 DEF RunInv, RunKnows
  <2> QED
    BY <1>1, <2>2, <2>4, <2>5 DEF RunInv
<1> QED
  BY <1>3, <1>4 DEF StoreStep

LEMMA RunInductive == RunInv /\ [NextRun]_scheduled => RunInv'
<1> SUFFICES ASSUME RunInv, [NextRun]_scheduled PROVE RunInv'
  OBVIOUS
<1>1. CASE Run
  <2>1. UNCHANGED vars
    BY <1>1 DEF Run, Fire, ReadSchedule, ReadDryRun, Targets, Unreadable, Act, RunEnds
  <2> QED
    BY <1>1, <2>1, RunStep
<1>2. CASE StoreStep
  BY <1>2, StoreStepKeeps
<1>3. CASE UNCHANGED scheduled
  <2>1. Inv'
    BY <1>3, Inductive DEF RunInv, scheduled
  <2> QED
    BY <1>3, <2>1
    DEF RunInv, RunWatches, RunWrites, RunKnows, scheduled, vars, history
<1> QED
  BY <1>1, <1>2, <1>3 DEF NextRun

LEMMA RunInvariant == SpecRun => []RunInv
BY InitRunInv, RunInductive, PTL DEF SpecRun

\* _run_instance_schedule: a run changes an instance only if the answered
\* requests had the product out of dry-run at some moment since it began.
THEOREM RunsObeyDryRun == SpecRun => []LiveWasAsked
<1>1. RunInv => LiveWasAsked
  BY DEF RunInv, RunWrites, RunKnows, LiveWasAsked
<1> QED
  BY <1>1, RunInvariant, PTL

\* _instance_schedule_targets: an instance protected before a run began, and
\* ever since, is left alone by it.
THEOREM RunsSpareProtected == SpecRun => []ProtectedLeftAlone
<1>1. RunInv => ProtectedLeftAlone
  BY DEF RunInv, RunKnows, ProtectedLeftAlone
<1> QED
  BY <1>1, RunInvariant, PTL
=============================================================================
