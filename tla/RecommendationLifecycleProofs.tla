-------------------- MODULE RecommendationLifecycleProofs --------------------
(***************************************************************************)
(* Theorems about RecommendationLifecycle, for any set of recommendations, *)
(* any number of requests and synchronisations, any limit and any bounds:  *)
(* the types first; then the safety invariants, each inductive relative to *)
(* LocalInv: a scheduled row can fire, nothing is decided without a human, *)
(* dry-run touches nothing, and what is resolved was seen.                 *)
(*                                                                         *)
(* Then what is counted.  Every AWS write has an approval of its own.      *)
(* CallsWithinApprovals is inductive as it stands, relative to LocalInv,   *)
(* because it counts the writes still to come (Owed) with those issued.    *)
(* Each step either leaves both sides alone or moves one unit: an approval *)
(* pays for a request in flight, a request pays for a write or for a       *)
(* scheduled row, the executor pays for a write, a fault pays for a        *)
(* scheduled row whose executor died after the write.                      *)
(*                                                                         *)
(* The next part says the same of each step, exactly: the lifecycle        *)
(* implements ApprovalLedger, with Owed as its credits.                    *)
(*                                                                         *)
(* The last says that every write reaches actions_log.  AuditTrail is not  *)
(* inductive: it counts every thread at "record" among those about to      *)
(* write a row, and the executor leaves "record" without one when it       *)
(* simulated.  Unrecorded counts only the threads that do write one, and   *)
(* RunsAreLive says why a thread that wrote to AWS is among them: whoever  *)
(* executes carries dry-run switched off.                                  *)
(***************************************************************************)
EXTENDS LifecycleLedger, FiniteSetTheorems, TLAPS

USE DEF Statuses, SyncableStatuses, ResourceStates, LogStatuses, Pcs, Outcomes,
        tables, history

LEMMA IdleRecords ==
    /\ IdleWorker \in WorkerRecord
    /\ IdleSync \in SyncRecord
  BY DEF IdleWorker, WorkerRecord, IdleSync, SyncRecord

LEMMA SetStatusType ==
    ASSUME status \in [Recs -> Statuses], NEW r \in Recs, NEW s \in Statuses,
           SetStatus(r, s)
    PROVE  status' \in [Recs -> Statuses]
  BY DEF SetStatus

LEMMA AddRowType ==
    ASSUME log \in [Recs -> [LogStatuses -> Nat]], NEW r \in Recs,
           NEW s \in LogStatuses, AddRow(r, s)
    PROVE  log' \in [Recs -> [LogStatuses -> Nat]]
  BY DEF AddRow

LEMMA CloseRowsType ==
    ASSUME NEW rows \in [LogStatuses -> Nat], NEW n \in Nat
    PROVE  [rows EXCEPT !.cancelled = n, !.pending = 0] \in [LogStatuses -> Nat]
  OBVIOUS

LEMMA SetResourceType ==
    ASSUME resource \in [Recs -> ResourceStates], settled \in SUBSET Recs,
           NEW r \in Recs, NEW s \in ResourceStates, SetResource(r, s)
    PROVE  /\ resource' \in [Recs -> ResourceStates]
           /\ settled' \in SUBSET Recs
  BY DEF SetResource

LEMMA IssueType ==
    ASSUME calls \in [Recs -> Nat], NEW r \in Recs, Issue(r)
    PROVE  calls' \in [Recs -> Nat]
  BY DEF Issue

LEMMA EndedType ==
    ASSUME worker \in [Workers -> WorkerRecord], NEW w \in Workers,
           NEW o \in Outcomes
    PROVE  Ended(w, o) \in [Workers -> WorkerRecord]
  BY DEF Ended, WorkerRecord

THEOREM InitType == Init => TypeOK
  BY ConstantsAssumption, IdleRecords DEF Init, TypeOK, SyncRecord

-----------------------------------------------------------------------------
(* What the program counter of a thread says about its other fields.       *)

ConsistentRecord(w, x, rows) ==
    /\ x.rec = NoRec <=> x.pc \in {"idle", "next"}
    /\ x.row # "none" <=> x.pc \in {"remediating", "finalize"}
    /\ x.pc = "finalize" => x.outcome \in {"success", "failed"}
    /\ w \in Requests => x.pc # "next"
    /\ w = Executor => x.pc # "routing" /\ x.rec \notin rows

WorkersConsistent ==
    \A w \in Workers : ConsistentRecord(w, worker[w], due)

LocalInv == TypeOK /\ WorkersConsistent

\* One thread moves to a consistent state: the others are not disturbed.
LEMMA OneWorkerMoves ==
    ASSUME LocalInv, NEW w \in Workers, NEW x \in WorkerRecord,
           worker' = [worker EXCEPT ![w] = x],
           ConsistentRecord(w, x, due'),
           w = Executor \/ due' = due
    PROVE  /\ worker' \in [Workers -> WorkerRecord]
           /\ WorkersConsistent'
<1>1. worker' \in [Workers -> WorkerRecord]
  BY DEF LocalInv, TypeOK
<1>2. ASSUME NEW v \in Workers
      PROVE  ConsistentRecord(v, worker'[v], due')
  <2>1. CASE v = w
    BY <2>1 DEF LocalInv, TypeOK
  <2>2. CASE v # w
    <3>1. worker'[v] = worker[v] /\ ConsistentRecord(v, worker[v], due)
      BY <2>2 DEF LocalInv, TypeOK, WorkersConsistent
    <3>2. CASE v = Executor
      BY <3>1, <3>2, <2>2
    <3>3. CASE v # Executor
      BY <3>1, <3>3 DEF ConsistentRecord
    <3> QED
      BY <3>2, <3>3
  <2> QED
    BY <2>1, <2>2
<1> QED
  BY <1>1, <1>2 DEF WorkersConsistent

LEMMA WorkerFacts ==
    /\ Executor \in Workers
    /\ \A q \in Requests : q \in Workers /\ q # Executor
    /\ \A w \in Workers : w \in Requests <=> w # Executor
  BY ConstantsAssumption DEF Workers

\* A thread that returns to idle is consistent.
LEMMA IdleMoves ==
    ASSUME LocalInv, NEW w \in Workers,
           worker' = [worker EXCEPT ![w] = IdleWorker],
           due' \in SUBSET Recs, w = Executor \/ due' = due
    PROVE  /\ worker' \in [Workers -> WorkerRecord]
           /\ WorkersConsistent'
<1>1. ConsistentRecord(w, IdleWorker, due')
  BY ConstantsAssumption DEF ConsistentRecord, IdleWorker
<1> QED
  BY <1>1, IdleRecords, OneWorkerMoves

LEMMA ClickLocal ==
    ASSUME LocalInv, NEW r \in Recs, Click(r)
    PROVE  LocalInv'
<1> USE DEF LocalInv, TypeOK
<1>1. CASE Reject(r)
  BY <1>1, SetStatusType DEF Reject, WorkersConsistent
<1>2. CASE Dismiss(r)
  BY <1>2, SetStatusType DEF Dismiss, WorkersConsistent
<1>3. CASE Restore(r)
  BY <1>3, SetStatusType DEF Restore, WorkersConsistent
<1>4. CASE Cancel(r)
  <2> DEFINE closed(w) == [worker[w] EXCEPT !.row = "cancelled"]
  <2>0. ASSUME NEW w \in Workers
        PROVE  worker[w] \in WorkerRecord /\ closed(w) \in WorkerRecord
    BY DEF WorkerRecord
  <2>1. worker' \in [Workers -> WorkerRecord]
    <3>1. worker' = [w \in Workers |->
             IF worker[w].rec = r /\ worker[w].row = "pending"
             THEN closed(w) ELSE worker[w]]
      BY <1>4 DEF Cancel
    <3> HIDE DEF closed
    <3> QED
      BY <2>0, <3>1
  <2>2. log' \in [Recs -> [LogStatuses -> Nat]]
    <3>1. log[r] \in [LogStatuses -> Nat] /\ log[r].cancelled + log[r].pending \in Nat
      OBVIOUS
    <3>2. [log[r] EXCEPT !.cancelled = @ + log[r].pending, !.pending = 0]
             \in [LogStatuses -> Nat]
      BY <3>1, CloseRowsType
    <3>3. log' = [log EXCEPT ![r] =
             [log[r] EXCEPT !.cancelled = @ + log[r].pending, !.pending = 0]]
      BY <1>4 DEF Cancel
    <3> QED
      BY <3>2, <3>3
  <2>3. ASSUME NEW w \in Workers
        PROVE  ConsistentRecord(w, worker[w], due)'
    <3>1. ConsistentRecord(w, worker[w], due) /\ worker[w] \in WorkerRecord
      BY DEF WorkersConsistent
    <3>2. /\ due' = due
          /\ \/ worker'[w] = worker[w]
             \/ /\ worker[w].row = "pending"
                /\ worker'[w] = [worker[w] EXCEPT !.row = "cancelled"]
      BY <1>4 DEF Cancel
    <3> QED
      BY <3>1, <3>2 DEF ConsistentRecord, WorkerRecord
  <2>4. WorkersConsistent'
    BY <2>3 DEF WorkersConsistent
  <2>5. status' \in [Recs -> Statuses]
    BY <1>4, SetStatusType DEF Cancel
  <2>6. executeAfter' \in [Recs -> {"none", "waiting", "elapsed"}]
    BY <1>4 DEF Cancel
  <2> QED
    BY <1>4, <2>1, <2>2, <2>4, <2>5, <2>6 DEF Cancel
<1> QED
  BY <1>1, <1>2, <1>3, <1>4 DEF Click

LEMMA ApproveBeginLocal ==
    ASSUME LocalInv, NEW q \in Requests, NEW r \in Recs, ApproveBegin(q, r)
    PROVE  LocalInv'
<1> USE DEF LocalInv, TypeOK
<1> DEFINE x == [IdleWorker EXCEPT !.pc = "routing", !.rec = r,
                                   !.dry = settings.dryRun]
<1>1. x \in WorkerRecord
  BY ConstantsAssumption DEF WorkerRecord, IdleWorker
<1>2. ConsistentRecord(q, x, due')
  BY ConstantsAssumption DEF ConsistentRecord, IdleWorker
<1>3. worker' = [worker EXCEPT ![q] = x] /\ due' = due
  BY DEF ApproveBegin
<1> HIDE DEF x
<1>4. worker' \in [Workers -> WorkerRecord] /\ WorkersConsistent'
  BY <1>1, <1>2, <1>3, WorkerFacts, OneWorkerMoves
<1>5. approvals' \in [Recs -> Nat]
  BY DEF ApproveBegin
<1> QED
  BY <1>4, <1>5 DEF ApproveBegin

LEMMA ApproveLocal ==
    ASSUME LocalInv, NEW q \in Requests, ApproveStep(q)
    PROVE  LocalInv'
<1> USE DEF LocalInv, TypeOK
<1> DEFINE r == worker[q].rec
<1>1. q \in Workers /\ q # Executor /\ worker[q] \in WorkerRecord
      /\ ConsistentRecord(q, worker[q], due)
  BY WorkerFacts DEF WorkersConsistent
<1>2. ASSUME worker[q].pc \notin {"idle", "next"}
      PROVE  r \in Recs
  BY <1>1, <1>2 DEF WorkerRecord, ConsistentRecord
<1>3. ASSUME worker' = [worker EXCEPT ![q] = IdleWorker], due' = due
      PROVE  worker' \in [Workers -> WorkerRecord] /\ WorkersConsistent'
  BY <1>1, <1>3, IdleMoves
<1>4. CASE ApproveByPr(q)
  <2>1. status' \in [Recs -> Statuses] /\ log' \in [Recs -> [LogStatuses -> Nat]]
    BY <1>2, <1>4, SetStatusType, AddRowType DEF ApproveByPr
  <2> QED
    BY <1>3, <1>4, <2>1 DEF ApproveByPr
<1>5. CASE MarkToDo(q)
  <2>1. status' \in [Recs -> Statuses]
    BY <1>2, <1>5, SetStatusType DEF MarkToDo
  <2> QED
    BY <1>3, <1>5, <2>1 DEF MarkToDo
<1>6. CASE Simulate(q)
  BY <1>3, <1>6 DEF Simulate
<1>7. CASE Schedule(q)
  <2>1. CASE ScheduledRow(r)
    <3>1. /\ status' \in [Recs -> Statuses]
          /\ log' \in [Recs -> [LogStatuses -> Nat]]
          /\ executeAfter' \in [Recs -> {"none", "waiting", "elapsed"}]
      BY <1>2, <1>7, <2>1, SetStatusType, AddRowType DEF ScheduledRow, Schedule
    <3> QED
      BY <1>3, <1>7, <3>1 DEF Schedule
  <2>2. CASE UNCHANGED tables
    BY <1>3, <1>7, <2>2 DEF Schedule
  <2> QED
    BY <1>7, <2>1, <2>2 DEF Schedule
<1>8. CASE ApproveNow(q)
  <2> DEFINE x == [worker[q] EXCEPT !.pc = "execute"]
  <2>1. x \in WorkerRecord /\ ConsistentRecord(q, x, due')
    BY <1>1, <1>8 DEF ApproveNow, WorkerRecord, ConsistentRecord
  <2>2. worker' = [worker EXCEPT ![q] = x] /\ due' = due
    BY <1>8 DEF ApproveNow
  <2> HIDE DEF x
  <2>3. worker' \in [Workers -> WorkerRecord] /\ WorkersConsistent'
    BY <1>1, <2>1, <2>2, OneWorkerMoves
  <2> QED
    BY <1>8, <2>3 DEF ApproveNow
<1>9. CASE ApproveRecord(q)
  <2>1. status' \in [Recs -> Statuses] /\ log' \in [Recs -> [LogStatuses -> Nat]]
    BY <1>2, <1>9, SetStatusType, AddRowType DEF ApproveRecord
  <2> QED
    BY <1>3, <1>9, <2>1 DEF ApproveRecord
<1> QED
  BY <1>4, <1>5, <1>6, <1>7, <1>8, <1>9 DEF ApproveStep

LEMMA EndedMoves ==
    ASSUME LocalInv, NEW w \in Workers, NEW o \in Outcomes,
           worker[w].pc = "execute", worker' = Ended(w, o), due' = due
    PROVE  worker' \in [Workers -> WorkerRecord] /\ WorkersConsistent'
<1> DEFINE x == [worker[w] EXCEPT !.pc = "record", !.outcome = o]
<1>1. worker[w] \in WorkerRecord /\ ConsistentRecord(w, worker[w], due)
  BY DEF LocalInv, TypeOK, WorkersConsistent
<1>2. x \in WorkerRecord /\ ConsistentRecord(w, x, due')
  BY <1>1 DEF WorkerRecord, ConsistentRecord
<1>3. worker' = [worker EXCEPT ![w] = x]
  BY DEF Ended
<1> HIDE DEF x
<1> QED
  BY <1>2, <1>3, OneWorkerMoves

LEMMA ExecuteLocal ==
    ASSUME LocalInv, NEW w \in Workers,
           Execute(w) \/ RemediatorUnrecorded(w)
    PROVE  LocalInv'
<1> USE DEF LocalInv, TypeOK
<1> DEFINE r == worker[w].rec
<1>1. worker[w] \in WorkerRecord /\ ConsistentRecord(w, worker[w], due)
  BY DEF WorkersConsistent
<1>2. ASSUME worker[w].pc \notin {"idle", "next"}
      PROVE  r \in Recs
  BY <1>1, <1>2 DEF WorkerRecord, ConsistentRecord
<1>3. ASSUME NEW x \in WorkerRecord, ConsistentRecord(w, x, due),
             worker' = [worker EXCEPT ![w] = x], due' = due
      PROVE  worker' \in [Workers -> WorkerRecord] /\ WorkersConsistent'
  BY <1>3, OneWorkerMoves
<1>4. AfterWrite(r) \in ResourceStates
  BY DEF AfterWrite
<1>5. CASE ExecuteEc2(w)
  <2>1. worker' \in [Workers -> WorkerRecord] /\ WorkersConsistent'
    <3>1. \E o \in Outcomes : worker' = Ended(w, o)
      BY <1>5 DEF ExecuteEc2
    <3> QED
      BY <1>5, <3>1, EndedMoves DEF ExecuteEc2
  <2>2. calls' \in [Recs -> Nat] /\ resource' \in [Recs -> ResourceStates]
        /\ settled' \in SUBSET Recs
    BY <1>2, <1>4, <1>5, IssueType, SetResourceType DEF ExecuteEc2
  <2> QED
    BY <1>5, <2>1, <2>2 DEF ExecuteEc2
<1>6. CASE Refuse(w)
  <2>1. PICK o \in Refusals(r) : worker' = Ended(w, o)
    BY <1>6 DEF Refuse
  <2>2. o \in Outcomes
    BY DEF Refusals
  <2>3. worker' \in [Workers -> WorkerRecord] /\ WorkersConsistent'
    BY <1>6, <2>1, <2>2, EndedMoves DEF Refuse
  <2> QED
    BY <1>6, <2>3 DEF Refuse
<1>7. CASE Remediate(w)
  <2> DEFINE x == [worker[w] EXCEPT !.pc = "remediating", !.row = "pending"]
  <2>1. x \in WorkerRecord /\ ConsistentRecord(w, x, due)
    BY <1>1, <1>7 DEF Remediate, WorkerRecord, ConsistentRecord
  <2>2. worker' = [worker EXCEPT ![w] = x] /\ due' = due
    BY <1>7 DEF Remediate
  <2> HIDE DEF x
  <2>3. worker' \in [Workers -> WorkerRecord] /\ WorkersConsistent'
    BY <1>3, <2>1, <2>2
  <2> QED
    BY <1>7, <2>3 DEF Remediate
<1>8. CASE RemediatorCall(w)
  <2> DEFINE x(o) == [worker[w] EXCEPT !.pc = "finalize", !.outcome = o]
  <2>1. \E o \in {"success", "failed"} : worker' = [worker EXCEPT ![w] = x(o)]
    BY <1>8 DEF RemediatorCall
  <2>2. PICK o \in {"success", "failed"} : worker' = [worker EXCEPT ![w] = x(o)]
    BY <2>1
  <2>3. worker[w].row # "none"
    BY <1>1, <1>8 DEF RemediatorCall, ConsistentRecord
  <2>4. x(o) \in WorkerRecord /\ ConsistentRecord(w, x(o), due)
    BY <1>1, <1>8, <2>3 DEF RemediatorCall, WorkerRecord, ConsistentRecord
  <2>5. due' = due
    BY <1>8 DEF RemediatorCall
  <2> HIDE DEF x
  <2>6. worker' \in [Workers -> WorkerRecord] /\ WorkersConsistent'
    BY <1>3, <2>2, <2>4, <2>5
  <2>7. calls' \in [Recs -> Nat] /\ resource' \in [Recs -> ResourceStates]
        /\ settled' \in SUBSET Recs
    BY <1>2, <1>4, <1>8, IssueType, SetResourceType DEF RemediatorCall
  <2> QED
    BY <1>8, <2>6, <2>7 DEF RemediatorCall
<1>9. CASE RemediatorFinalize(w)
  <2> DEFINE x == [worker[w] EXCEPT !.pc = "record", !.row = "none"]
  <2>1. x \in WorkerRecord /\ ConsistentRecord(w, x, due)
    BY <1>1, <1>9 DEF RemediatorFinalize, WorkerRecord, ConsistentRecord
  <2>2. worker' = [worker EXCEPT ![w] = x] /\ due' = due
    BY <1>9 DEF RemediatorFinalize
  <2> HIDE DEF x
  <2>3. worker' \in [Workers -> WorkerRecord] /\ WorkersConsistent'
    BY <1>3, <2>1, <2>2
  <2>4. worker[w].outcome \in LogStatuses
    BY <1>1, <1>9 DEF RemediatorFinalize, ConsistentRecord
  <2>5. status' \in [Recs -> Statuses] /\ log' \in [Recs -> [LogStatuses -> Nat]]
    BY <1>2, <1>9, <2>4, SetStatusType, AddRowType DEF RemediatorFinalize
  <2> QED
    BY <1>9, <2>3, <2>5 DEF RemediatorFinalize
<1>10. CASE RemediatorUnrecorded(w)
  <2> DEFINE x == [worker[w] EXCEPT !.pc = "record", !.row = "none",
                                    !.outcome = "failed"]
  <2>1. x \in WorkerRecord /\ ConsistentRecord(w, x, due)
    BY <1>1, <1>10 DEF RemediatorUnrecorded, WorkerRecord, ConsistentRecord
  <2>2. worker' = [worker EXCEPT ![w] = x] /\ due' = due
    BY <1>10 DEF RemediatorUnrecorded
  <2> HIDE DEF x
  <2>3. worker' \in [Workers -> WorkerRecord] /\ WorkersConsistent'
    BY <1>3, <2>1, <2>2
  <2>4. worker[w].row \in LogStatuses
    BY <1>1, <1>10 DEF RemediatorUnrecorded, WorkerRecord, ConsistentRecord
  <2>5. log' \in [Recs -> [LogStatuses -> Nat]] /\ faults' \in Nat
    BY <1>2, <1>10, <2>4, AddRowType DEF RemediatorUnrecorded
  <2> QED
    BY <1>10, <2>3, <2>5 DEF RemediatorUnrecorded
<1> QED
  BY <1>5, <1>6, <1>7, <1>8, <1>9, <1>10 DEF Execute

LEMMA ExecutorLocal ==
    ASSUME LocalInv, ExecutorStep
    PROVE  LocalInv'
<1> USE DEF LocalInv, TypeOK
<1> DEFINE e == worker[Executor]
<1>1. /\ Executor \in Workers /\ Executor \notin Requests
      /\ e \in WorkerRecord /\ ConsistentRecord(Executor, e, due)
  BY WorkerFacts, ConstantsAssumption DEF WorkersConsistent
<1>2. ASSUME NEW x \in WorkerRecord, ConsistentRecord(Executor, x, due'),
             worker' = [worker EXCEPT ![Executor] = x]
      PROVE  worker' \in [Workers -> WorkerRecord] /\ WorkersConsistent'
  BY <1>1, <1>2, OneWorkerMoves
<1>3. CASE ExecutorSelect
  <2> DEFINE x == [IdleWorker EXCEPT !.pc = "next", !.dry = settings.dryRun]
  <2>1. due' \in SUBSET Recs
    BY <1>3 DEF ExecutorSelect, DueRows
  <2>2. x \in WorkerRecord
    BY ConstantsAssumption DEF WorkerRecord, IdleWorker
  <2>3. ConsistentRecord(Executor, x, due')
    BY <1>1, <2>1, ConstantsAssumption DEF ConsistentRecord, IdleWorker
  <2>4. worker' = [worker EXCEPT ![Executor] = x]
    BY <1>3 DEF ExecutorSelect
  <2> HIDE DEF x
  <2>5. worker' \in [Workers -> WorkerRecord] /\ WorkersConsistent'
    BY <1>2, <2>2, <2>3, <2>4
  <2> QED
    BY <1>3, <2>1, <2>5 DEF ExecutorSelect
<1>4. ASSUME NEW r \in Recs, ExecutorRow(r)
      PROVE  LocalInv'
  <2> DEFINE x == [e EXCEPT !.pc = "execute", !.rec = r]
             y(o) == [e EXCEPT !.pc = "record", !.rec = r, !.outcome = o]
  <2>1. /\ e.pc = "next" /\ r \in due /\ due' = due \ {r}
        /\ \/ worker' = [worker EXCEPT ![Executor] = x]
           \/ \E o \in SimulatedOutcomes(r) : worker' = [worker EXCEPT ![Executor] = y(o)]
    BY <1>4 DEF ExecutorRow
  <2>2. r # NoRec /\ SimulatedOutcomes(r) \subseteq Outcomes
    BY ConstantsAssumption DEF SimulatedOutcomes, Refusals
  <2>3. x \in WorkerRecord /\ ConsistentRecord(Executor, x, due')
    BY <1>1, <2>1, <2>2 DEF WorkerRecord, ConsistentRecord
  <2>4. \A o \in Outcomes : y(o) \in WorkerRecord /\ ConsistentRecord(Executor, y(o), due')
    BY <1>1, <2>1, <2>2 DEF WorkerRecord, ConsistentRecord
  <2> HIDE DEF x, y
  <2>5. worker' \in [Workers -> WorkerRecord] /\ WorkersConsistent'
    BY <1>2, <2>1, <2>2, <2>3, <2>4
  <2> QED
    BY <1>4, <2>1, <2>5 DEF ExecutorRow
<1>5. CASE ExecutorRecord
  <2> DEFINE x == [e EXCEPT !.pc = "next", !.rec = NoRec, !.outcome = "none"]
  <2>1. x \in WorkerRecord /\ ConsistentRecord(Executor, x, due)
    BY <1>1, <1>5, ConstantsAssumption DEF ExecutorRecord, WorkerRecord, ConsistentRecord
  <2>2. worker' = [worker EXCEPT ![Executor] = x] /\ due' = due
    BY <1>5 DEF ExecutorRecord
  <2> HIDE DEF x
  <2>3. worker' \in [Workers -> WorkerRecord] /\ WorkersConsistent'
    BY <1>2, <2>1, <2>2
  <2>4. e.rec \in Recs /\ e.pc = "record"
    BY <1>1, <1>5 DEF ExecutorRecord, WorkerRecord, ConsistentRecord
  <2>5. GraceExecutionStatus(e.outcome) \in Statuses
    BY DEF GraceExecutionStatus
  <2>6. status' \in [Recs -> Statuses] /\ log' \in [Recs -> [LogStatuses -> Nat]]
    BY <1>5, <2>4, <2>5, SetStatusType, AddRowType DEF ExecutorRecord
  <2>7. executeAfter' \in [Recs -> {"none", "waiting", "elapsed"}]
    BY <1>5 DEF ExecutorRecord
  <2> QED
    BY <1>5, <2>2, <2>3, <2>6, <2>7 DEF ExecutorRecord
<1>6. CASE ExecutorDone
  <2>1. worker' \in [Workers -> WorkerRecord] /\ WorkersConsistent'
    BY <1>1, <1>6, IdleMoves DEF ExecutorDone
  <2> QED
    BY <1>6, <2>1 DEF ExecutorDone
<1> QED
  BY <1>3, <1>4, <1>5, <1>6 DEF ExecutorStep

LEMMA SyncLocal ==
    ASSUME LocalInv, NEW s \in Syncs, SyncBegin(s) \/ SyncStep(s)
    PROVE  LocalInv'
<1> USE DEF LocalInv, TypeOK
<1>1. sync[s] \in SyncRecord
  OBVIOUS
<1>2. \A r : ResolvedStatus(r) \in Statuses
  BY DEF ResolvedStatus
<1>3. CASE SyncBegin(s)
  <2>1. PICK F \in SUBSET Recs : SyncPass(s, F)
    BY <1>3 DEF SyncBegin
  <2>2. sync' \in [Syncs -> SyncRecord]
    BY <1>1, <2>1 DEF SyncPass, SyncRecord, FoundGone, FoundDone
  <2> QED
    BY <2>1, <2>2 DEF SyncPass, WorkersConsistent
<1>4. ASSUME NEW r \in Recs, SyncResolveGone(s, r)
      PROVE  LocalInv'
  <2>1. status' \in [Recs -> Statuses]
    BY <1>2, <1>4, SetStatusType DEF SyncResolveGone
  <2>2. sync' \in [Syncs -> SyncRecord]
    BY <1>1, <1>4 DEF SyncResolveGone, SyncRecord
  <2> QED
    BY <1>4, <2>1, <2>2 DEF SyncResolveGone, WorkersConsistent
<1>5. ASSUME NEW r \in Recs, SyncReadRow(s, r)
      PROVE  LocalInv'
  <2>1. sync' \in [Syncs -> SyncRecord]
    BY <1>1, <1>5 DEF SyncReadRow, SyncRecord
  <2> QED
    BY <1>5, <2>1 DEF SyncReadRow, WorkersConsistent
<1>6. CASE SyncUpdateRow(s)
  <2>1. sync[s].row \in Recs
    BY <1>1, <1>6 DEF SyncUpdateRow, SyncRecord
  <2>2. status' \in [Recs -> Statuses]
    BY <1>2, <1>6, <2>1, SetStatusType DEF SyncUpdateRow
  <2>3. sync' \in [Syncs -> SyncRecord]
    BY <1>1, <1>6 DEF SyncUpdateRow, SyncRecord
  <2> QED
    BY <1>6, <2>2, <2>3 DEF SyncUpdateRow, WorkersConsistent
<1> QED
  BY <1>3, <1>4, <1>5, <1>6 DEF SyncStep

LEMMA ElsewhereLocal ==
    ASSUME LocalInv, NEW r \in Recs, Elsewhere(r) \/ GraceElapses(r)
    PROVE  LocalInv'
<1> USE DEF LocalInv, TypeOK
<1>1. CASE PrSync(r)
  BY <1>1, SetStatusType DEF PrSync, WorkersConsistent
<1>2. CASE DetectorRevives(r)
  BY <1>2, SetStatusType DEF DetectorRevives, WorkersConsistent
<1>3. CASE DetectorRetires(r)
  BY <1>3, SetStatusType DEF DetectorRetires, WorkersConsistent
<1>4. CASE OwnerActs(r)
  BY <1>4, SetResourceType DEF OwnerActs, WorkersConsistent
<1>5. CASE GraceElapses(r)
  BY <1>5 DEF GraceElapses, WorkersConsistent
<1> QED
  BY <1>1, <1>2, <1>3, <1>4, <1>5 DEF Elsewhere

LEMMA InterruptLocal ==
    ASSUME LocalInv, NEW w \in Workers, Interrupt(w)
    PROVE  LocalInv'
<1> USE DEF LocalInv, TypeOK
<1>1. worker[w] \in WorkerRecord /\ ConsistentRecord(w, worker[w], due)
  BY DEF WorkersConsistent
<1>2. due' \in SUBSET Recs /\ (w = Executor \/ due' = due) /\ faults' \in Nat
  BY DEF Interrupt
<1>3. worker' \in [Workers -> WorkerRecord] /\ WorkersConsistent'
  BY <1>2, IdleMoves DEF Interrupt
<1>4. log' \in [Recs -> [LogStatuses -> Nat]]
  <2>1. CASE worker[w].row = "none"
    BY <2>1 DEF Interrupt
  <2>2. CASE worker[w].row # "none"
    <3>1. worker[w].rec \in Recs /\ worker[w].row \in LogStatuses
      BY <1>1, <2>2 DEF WorkerRecord, ConsistentRecord
    <3> QED
      BY <2>2, <3>1, AddRowType DEF Interrupt
  <2> QED
    BY <2>1, <2>2
<1> QED
  BY <1>2, <1>3, <1>4 DEF Interrupt

THEOREM InitLocal == Init => LocalInv
<1> SUFFICES ASSUME Init
             PROVE  LocalInv
  OBVIOUS
<1>1. \A w \in Workers : worker[w] = IdleWorker
  BY DEF Init
<1>2. WorkersConsistent
  BY <1>1 DEF WorkersConsistent, ConsistentRecord, IdleWorker, Init
<1> QED
  BY <1>2, InitType DEF LocalInv

THEOREM NextLocal == LocalInv /\ [Next]_vars => LocalInv'
<1> SUFFICES ASSUME LocalInv, [Next]_vars
             PROVE  LocalInv'
  OBVIOUS
<1>1. ASSUME NEW r \in Recs, Click(r) \/ GraceElapses(r) \/ Elsewhere(r)
      PROVE  LocalInv'
  BY <1>1, ClickLocal, ElsewhereLocal
<1>2. ASSUME NEW q \in Requests,
             ApproveStep(q) \/ \E r \in Recs : ApproveBegin(q, r)
      PROVE  LocalInv'
  BY <1>2, ApproveLocal, ApproveBeginLocal
<1>3. ASSUME NEW w \in Workers,
             Execute(w) \/ RemediatorUnrecorded(w) \/ Interrupt(w)
      PROVE  LocalInv'
  BY <1>3, ExecuteLocal, InterruptLocal
<1>4. CASE ExecutorStep
  BY <1>4, ExecutorLocal
<1>5. ASSUME NEW s \in Syncs, SyncBegin(s) \/ SyncStep(s)
      PROVE  LocalInv'
  BY <1>5, SyncLocal
<1>6. CASE SaveSettings
  BY <1>6 DEF SaveSettings, LocalInv, TypeOK, WorkersConsistent
<1>7. CASE UNCHANGED vars
  BY <1>7 DEF vars, LocalInv, TypeOK, WorkersConsistent
<1> QED
  BY <1>1, <1>2, <1>3, <1>4, <1>5, <1>6, <1>7 DEF Next

\* Every field of the tables and of the threads stays in its type: no status
\* outside the vocabulary is ever written, no worker is left half-moved.
THEOREM TypeCorrect == Spec => []TypeOK
<1>1. LocalInv => TypeOK
  BY DEF LocalInv
<1> QED
  BY <1>1, InitLocal, NextLocal, PTL DEF Spec

-----------------------------------------------------------------------------
(* A scheduled row can fire.                                               *)

\* What an action must do to r for ScheduledCanFire to survive it: schedule
\* it completely, or leave scheduled only what was scheduled, armed and logged.
KeepsArmed(r) ==
    \/ status'[r] # "scheduled"
    \/ executeAfter'[r] # "none" /\ log'[r].pending > 0
    \/ /\ status[r] = "scheduled"
       /\ executeAfter[r] # "none" => executeAfter'[r] # "none"
       /\ log'[r].pending >= log[r].pending

LEMMA AddRowGrows ==
    ASSUME LocalInv, NEW r \in Recs, NEW s \in LogStatuses, AddRow(r, s),
           NEW t \in Recs
    PROVE  log'[t].pending >= log[t].pending
<1>1. /\ log[t] \in [LogStatuses -> Nat]
      /\ log'[t] = IF t = r THEN [log[t] EXCEPT ![s] = @ + 1] ELSE log[t]
  BY DEF AddRow, LocalInv, TypeOK
<1>2. log[t].pending \in Nat
  BY <1>1
<1>3. CASE t # r
  BY <1>1, <1>2, <1>3
<1>4. CASE t = r /\ s = "pending"
  BY <1>1, <1>2, <1>4
<1>5. CASE t = r /\ s # "pending"
  BY <1>1, <1>2, <1>5
<1> QED
  BY <1>3, <1>4, <1>5

LEMMA LeavesScheduled ==
    ASSUME LocalInv, NEW r \in Recs, NEW s \in Statuses \ {"scheduled"},
           SetStatus(r, s), NEW t \in Recs
    PROVE  status'[t] = "scheduled" => t # r /\ status[t] = "scheduled"
  BY DEF SetStatus, LocalInv, TypeOK

LEMMA RequestArmed ==
    ASSUME LocalInv, NEW q \in Requests, ApproveStep(q), NEW t \in Recs
    PROVE  KeepsArmed(t)
<1> USE DEF LocalInv, TypeOK, KeepsArmed
<1> DEFINE r == worker[q].rec
<1>1. q \in Workers /\ worker[q] \in WorkerRecord /\ ConsistentRecord(q, worker[q], due)
  BY WorkerFacts DEF WorkersConsistent
<1>2. ASSUME worker[q].pc \notin {"idle", "next"}
      PROVE  r \in Recs
  BY <1>1, <1>2 DEF WorkerRecord, ConsistentRecord
<1>3. log[t].pending \in Nat
  OBVIOUS
<1>4. CASE ApproveByPr(q)
  BY <1>2, <1>3, <1>4, LeavesScheduled, AddRowGrows DEF ApproveByPr
<1>5. CASE MarkToDo(q)
  BY <1>2, <1>3, <1>5, LeavesScheduled DEF MarkToDo
<1>6. CASE Schedule(q)
  <2>1. CASE ScheduledRow(r)
    <3>1. r \in Recs
      BY <1>2, <1>6 DEF Schedule
    <3>2. CASE t = r
      <4>1. log[r] \in [LogStatuses -> Nat]
            /\ log'[r] = [log[r] EXCEPT !["pending"] = @ + 1]
        BY <2>1, <3>1 DEF ScheduledRow, AddRow
      <4>2. log'[r].pending > 0
        BY <4>1
      <4>3. executeAfter'[r] = "waiting"
        BY <2>1, <3>1 DEF ScheduledRow
      <4> QED
        BY <3>2, <4>2, <4>3
    <3>3. CASE t # r
      BY <1>3, <2>1, <3>1, <3>3, AddRowGrows DEF ScheduledRow, SetStatus
    <3> QED
      BY <3>2, <3>3
  <2>2. CASE UNCHANGED tables
    BY <1>3, <2>2
  <2> QED
    BY <1>6, <2>1, <2>2 DEF Schedule
<1>7. CASE Simulate(q) \/ ApproveNow(q)
  BY <1>3, <1>7 DEF Simulate, ApproveNow
<1>8. CASE ApproveRecord(q)
  BY <1>2, <1>3, <1>8, LeavesScheduled, AddRowGrows DEF ApproveRecord
<1> QED
  BY <1>4, <1>5, <1>6, <1>7, <1>8 DEF ApproveStep

LEMMA ExecutionArmed ==
    ASSUME LocalInv, NEW w \in Workers,
           Execute(w) \/ RemediatorUnrecorded(w) \/ Interrupt(w), NEW t \in Recs
    PROVE  KeepsArmed(t)
<1> USE DEF LocalInv, TypeOK, KeepsArmed
<1>1. worker[w] \in WorkerRecord /\ ConsistentRecord(w, worker[w], due)
  BY DEF WorkersConsistent
<1>2. ASSUME worker[w].pc \notin {"idle", "next"}
      PROVE  worker[w].rec \in Recs
  BY <1>1, <1>2 DEF WorkerRecord, ConsistentRecord
<1>3. log[t].pending \in Nat
  OBVIOUS
<1>4. CASE ExecuteEc2(w) \/ Refuse(w) \/ Remediate(w) \/ RemediatorCall(w)
  BY <1>3, <1>4 DEF ExecuteEc2, Refuse, Remediate, RemediatorCall
<1>5. CASE RemediatorFinalize(w)
  <2>1. worker[w].rec \in Recs /\ worker[w].outcome \in LogStatuses
    BY <1>1, <1>2, <1>5 DEF RemediatorFinalize, ConsistentRecord
  <2> QED
    BY <1>3, <1>5, <2>1, LeavesScheduled, AddRowGrows DEF RemediatorFinalize
<1>6. CASE RemediatorUnrecorded(w)
  <2>1. worker[w].rec \in Recs /\ worker[w].row \in LogStatuses
    BY <1>1, <1>2, <1>6 DEF RemediatorUnrecorded, ConsistentRecord, WorkerRecord
  <2> QED
    BY <1>3, <1>6, <2>1, AddRowGrows DEF RemediatorUnrecorded
<1>7. CASE Interrupt(w)
  <2>1. CASE worker[w].row = "none"
    BY <1>3, <1>7, <2>1 DEF Interrupt
  <2>2. CASE worker[w].row # "none"
    <3>1. worker[w].rec \in Recs /\ worker[w].row \in LogStatuses
      BY <1>1, <2>2 DEF ConsistentRecord, WorkerRecord
    <3> QED
      BY <1>3, <1>7, <2>2, <3>1, AddRowGrows DEF Interrupt
  <2> QED
    BY <2>1, <2>2
<1> QED
  BY <1>4, <1>5, <1>6, <1>7 DEF Execute

LEMMA ElsewhereArmed ==
    ASSUME LocalInv, NEW r \in Recs, Click(r) \/ GraceElapses(r) \/ Elsewhere(r),
           ScheduledCanFire, NEW t \in Recs
    PROVE  KeepsArmed(t)
<1> USE DEF LocalInv, TypeOK, KeepsArmed
<1>1. log[t].pending \in Nat
  OBVIOUS
<1>2. CASE Reject(r) \/ Dismiss(r) \/ Restore(r)
  BY <1>1, <1>2, LeavesScheduled DEF Reject, Dismiss, Restore
<1>3. CASE Cancel(r)
  <2>1. status'[t] = "scheduled" => t # r /\ status[t] = "scheduled"
    BY <1>3, LeavesScheduled DEF Cancel
  <2>2. t # r => log'[t] = log[t] /\ executeAfter'[t] = executeAfter[t]
    BY <1>3 DEF Cancel
  <2> QED
    BY <1>1, <2>1, <2>2
<1>4. CASE GraceElapses(r)
  BY <1>1, <1>4 DEF GraceElapses
<1>5. CASE PrSync(r) \/ DetectorRevives(r) \/ DetectorRetires(r)
  BY <1>1, <1>5, LeavesScheduled DEF PrSync, DetectorRevives, DetectorRetires
<1>6. CASE OwnerActs(r)
  BY <1>1, <1>6 DEF OwnerActs
<1> QED
  BY <1>2, <1>3, <1>4, <1>5, <1>6 DEF Click, Elsewhere

LEMMA ExecutorArmed ==
    ASSUME LocalInv, ExecutorStep, NEW t \in Recs
    PROVE  KeepsArmed(t)
<1> USE DEF LocalInv, TypeOK, KeepsArmed
<1> DEFINE e == worker[Executor]
<1>1. log[t].pending \in Nat
  OBVIOUS
<1>2. CASE ExecutorSelect \/ ExecutorDone \/ \E r \in Recs : ExecutorRow(r)
  <2>1. UNCHANGED tables
    BY <1>2 DEF ExecutorSelect, ExecutorDone, ExecutorRow
  <2> QED
    BY <1>1, <2>1
<1>3. CASE ExecutorRecord
  <2>1. e \in WorkerRecord /\ ConsistentRecord(Executor, e, due)
    BY WorkerFacts DEF WorkersConsistent
  <2>2. e.rec \in Recs
    BY <1>3, <2>1 DEF ExecutorRecord, WorkerRecord, ConsistentRecord
  <2>3. GraceExecutionStatus(e.outcome) \in Statuses \ {"scheduled"}
    BY DEF GraceExecutionStatus
  <2>4. status'[t] = "scheduled" => t # e.rec /\ status[t] = "scheduled"
    BY <1>3, <2>2, <2>3, LeavesScheduled DEF ExecutorRecord
  <2>5. t # e.rec => executeAfter'[t] = executeAfter[t]
    BY <1>3 DEF ExecutorRecord
  <2>6. log'[t].pending >= log[t].pending
    BY <1>1, <1>3, <2>2, AddRowGrows DEF ExecutorRecord
  <2> QED
    BY <2>4, <2>5, <2>6
<1> QED
  BY <1>2, <1>3 DEF ExecutorStep

LEMMA SyncArmed ==
    ASSUME LocalInv, NEW s \in Syncs, SyncBegin(s) \/ SyncStep(s), NEW t \in Recs
    PROVE  KeepsArmed(t)
<1> USE DEF LocalInv, TypeOK, KeepsArmed
<1>1. log[t].pending \in Nat
  OBVIOUS
<1>2. \A r : ResolvedStatus(r) \in Statuses \ {"scheduled"}
  BY DEF ResolvedStatus
<1>3. CASE SyncBegin(s)
  <2>1. UNCHANGED tables
    BY <1>3 DEF SyncBegin, SyncPass
  <2> QED
    BY <1>1, <2>1
<1>4. ASSUME NEW r \in Recs, SyncResolveGone(s, r)
      PROVE  KeepsArmed(t)
  BY <1>1, <1>2, <1>4, LeavesScheduled DEF SyncResolveGone
<1>5. ASSUME NEW r \in Recs, SyncReadRow(s, r)
      PROVE  KeepsArmed(t)
  BY <1>1, <1>5 DEF SyncReadRow
<1>6. CASE SyncUpdateRow(s)
  <2>1. sync[s].row \in Recs
    BY <1>6 DEF SyncUpdateRow, SyncRecord
  <2> QED
    BY <1>1, <1>2, <1>6, <2>1, LeavesScheduled DEF SyncUpdateRow
<1> QED
  BY <1>3, <1>4, <1>5, <1>6 DEF SyncStep

\* No step of any thread leaves a scheduled row without its time or without
\* its open row in the history, whatever the other threads do in between.
THEOREM ScheduledAlwaysCanFire == Spec => []ScheduledCanFire
<1>1. Init => ScheduledCanFire
  BY DEF Init, ScheduledCanFire
<1>2. LocalInv /\ ScheduledCanFire /\ [Next]_vars => ScheduledCanFire'
  <2> SUFFICES ASSUME LocalInv, ScheduledCanFire, [Next]_vars, NEW t \in Recs
               PROVE  status'[t] = "scheduled" =>
                         executeAfter'[t] # "none" /\ log'[t].pending > 0
    BY DEF ScheduledCanFire
  <2>1. log[t].pending \in Nat
    BY DEF LocalInv, TypeOK
  <2>2. KeepsArmed(t)
    <3>1. ASSUME NEW q \in Requests, NEW r \in Recs, ApproveBegin(q, r)
          PROVE  KeepsArmed(t)
      BY <2>1, <3>1 DEF ApproveBegin, KeepsArmed
    <3>2. CASE UNCHANGED vars \/ SaveSettings
      BY <2>1, <3>2 DEF vars, SaveSettings, KeepsArmed
    <3>3. CASE Next
      BY <3>1, <3>2, <3>3, RequestArmed, ExecutionArmed, ElsewhereArmed,
         ExecutorArmed, SyncArmed
      DEF Next
    <3> QED
      BY <3>2, <3>3
  <2>3. log'[t].pending \in Nat
    <3>1. LocalInv'
      BY NextLocal
    <3> QED
      BY <3>1 DEF LocalInv, TypeOK
  <2> QED
    BY <2>1, <2>2, <2>3 DEF KeepsArmed, ScheduledCanFire
<1> QED
  BY <1>1, <1>2, InitLocal, NextLocal, PTL DEF Spec

-----------------------------------------------------------------------------
(* Nothing is decided without a human.                                     *)

\* What holds of a recommendation nobody has approved: the last two conjuncts
\* make it inductive, no thread has it in hand.
Undecided(r) ==
    /\ status[r] \notin {"scheduled", "pr_open", "approved_manual", "approved",
                         "applied"}
    /\ calls[r] = 0
    /\ r \notin due
    /\ \A w \in Workers : worker[w].rec # r

DecisionInv == \A r \in Recs : approvals[r] = 0 => Undecided(r)

\* A thread that moves on the recommendation it has in hand, or lets go of it,
\* takes up no other.
LEMMA SameRecs ==
    ASSUME LocalInv, NEW r \in Recs, Undecided(r), NEW w \in Workers,
           NEW x, worker' = [worker EXCEPT ![w] = x],
           x.rec \in {worker[w].rec, NoRec}
    PROVE  \A v \in Workers : worker'[v].rec # r
<1>1. \A v \in Workers : worker'[v] = IF v = w THEN x ELSE worker[v]
  BY DEF LocalInv, TypeOK
<1> QED
  BY <1>1, ConstantsAssumption DEF Undecided

LEMMA SetElsewhere ==
    ASSUME LocalInv, NEW r \in Recs, NEW t \in Recs, t # r, NEW s, SetStatus(t, s)
    PROVE  status'[r] = status[r]
  BY DEF SetStatus, LocalInv, TypeOK

LEMMA RequestUndecided ==
    ASSUME LocalInv, NEW r \in Recs, Undecided(r), NEW q \in Requests, ApproveStep(q)
    PROVE  Undecided(r)'
<1> USE DEF LocalInv, TypeOK
<1> DEFINE t == worker[q].rec
<1>1. q \in Workers /\ worker[q] \in WorkerRecord /\ ConsistentRecord(q, worker[q], due)
  BY WorkerFacts DEF WorkersConsistent
<1>2. ASSUME worker[q].pc \notin {"idle", "next"}
      PROVE  t \in Recs /\ t # r
  BY <1>1, <1>2 DEF WorkerRecord, ConsistentRecord, Undecided
<1>3. ASSUME worker' = [worker EXCEPT ![q] = IdleWorker]
      PROVE  \A v \in Workers : worker'[v].rec # r
  BY <1>1, <1>3, SameRecs DEF IdleWorker
<1>4. CASE ApproveByPr(q)
  BY <1>2, <1>3, <1>4, SetElsewhere DEF ApproveByPr, Undecided
<1>5. CASE MarkToDo(q)
  BY <1>2, <1>3, <1>5, SetElsewhere DEF MarkToDo, Undecided
<1>6. CASE Simulate(q)
  BY <1>3, <1>6 DEF Simulate, Undecided
<1>7. CASE Schedule(q)
  BY <1>2, <1>3, <1>7, SetElsewhere DEF Schedule, ScheduledRow, Undecided
<1>8. CASE ApproveNow(q)
  <2> DEFINE x == [worker[q] EXCEPT !.pc = "execute"]
  <2>1. worker' = [worker EXCEPT ![q] = x]
    BY <1>8 DEF ApproveNow
  <2>2. x.rec = worker[q].rec
    BY <1>1 DEF WorkerRecord
  <2> HIDE DEF x
  <2>3. \A v \in Workers : worker'[v].rec # r
    BY <1>1, <2>1, <2>2, SameRecs
  <2> QED
    BY <1>8, <2>3 DEF ApproveNow, Undecided
<1>9. CASE ApproveRecord(q)
  BY <1>2, <1>3, <1>9, SetElsewhere DEF ApproveRecord, Undecided
<1> QED
  BY <1>4, <1>5, <1>6, <1>7, <1>8, <1>9 DEF ApproveStep

LEMMA ExecutionUndecided ==
    ASSUME LocalInv, NEW r \in Recs, Undecided(r), NEW w \in Workers,
           Execute(w) \/ RemediatorUnrecorded(w) \/ Interrupt(w)
    PROVE  Undecided(r)'
<1> USE DEF LocalInv, TypeOK
<1> DEFINE t == worker[w].rec
<1>1. worker[w] \in WorkerRecord /\ ConsistentRecord(w, worker[w], due)
  BY DEF WorkersConsistent
<1>2. ASSUME worker[w].pc \notin {"idle", "next"}
      PROVE  t \in Recs /\ t # r
  BY <1>1, <1>2 DEF WorkerRecord, ConsistentRecord, Undecided
<1>4. ASSUME NEW o, worker' = Ended(w, o)
      PROVE  \A v \in Workers : worker'[v].rec # r
  <2> DEFINE x == [worker[w] EXCEPT !.pc = "record", !.outcome = o]
  <2>1. x.rec = t /\ worker' = [worker EXCEPT ![w] = x]
    BY <1>1, <1>4 DEF WorkerRecord, Ended
  <2> HIDE DEF x
  <2> QED
    BY <2>1, SameRecs
<1>5. CASE ExecuteEc2(w)
  <2>1. \E o : worker' = Ended(w, o)
    BY <1>5 DEF ExecuteEc2
  <2>2. calls'[r] = calls[r]
    BY <1>2, <1>5 DEF ExecuteEc2, Issue
  <2>3. \A v \in Workers : worker'[v].rec # r
    BY <1>4, <2>1
  <2> QED
    BY <1>5, <2>2, <2>3 DEF ExecuteEc2, Undecided
<1>6. CASE Refuse(w)
  <2>1. \A v \in Workers : worker'[v].rec # r
    BY <1>4, <1>6 DEF Refuse
  <2> QED
    BY <1>6, <2>1 DEF Refuse, Undecided
<1>7. CASE Remediate(w)
  <2> DEFINE x == [worker[w] EXCEPT !.pc = "remediating", !.row = "pending"]
  <2>1. x.rec = t /\ worker' = [worker EXCEPT ![w] = x]
    BY <1>1, <1>7 DEF WorkerRecord, Remediate
  <2> HIDE DEF x
  <2>2. \A v \in Workers : worker'[v].rec # r
    BY <2>1, SameRecs
  <2> QED
    BY <1>7, <2>2 DEF Remediate, Undecided
<1>8. CASE RemediatorCall(w)
  <2> DEFINE x(o) == [worker[w] EXCEPT !.pc = "finalize", !.outcome = o]
  <2>1. \E o : worker' = [worker EXCEPT ![w] = x(o)]
    BY <1>8 DEF RemediatorCall
  <2>2. \A o : x(o).rec = t
    BY <1>1 DEF WorkerRecord
  <2> HIDE DEF x
  <2>3. \A v \in Workers : worker'[v].rec # r
    BY <2>1, <2>2, SameRecs
  <2>4. calls'[r] = calls[r]
    BY <1>2, <1>8 DEF RemediatorCall, Issue
  <2> QED
    BY <1>8, <2>3, <2>4 DEF RemediatorCall, Undecided
<1>9. CASE RemediatorFinalize(w)
  <2> DEFINE x == [worker[w] EXCEPT !.pc = "record", !.row = "none"]
  <2>1. x.rec = t /\ worker' = [worker EXCEPT ![w] = x]
    BY <1>1, <1>9 DEF WorkerRecord, RemediatorFinalize
  <2> HIDE DEF x
  <2>2. \A v \in Workers : worker'[v].rec # r
    BY <2>1, SameRecs
  <2> QED
    BY <1>2, <1>9, <2>2, SetElsewhere DEF RemediatorFinalize, Undecided
<1>10. CASE RemediatorUnrecorded(w)
  <2> DEFINE x == [worker[w] EXCEPT !.pc = "record", !.row = "none",
                                    !.outcome = "failed"]
  <2>1. x.rec = t /\ worker' = [worker EXCEPT ![w] = x]
    BY <1>1, <1>10 DEF WorkerRecord, RemediatorUnrecorded
  <2> HIDE DEF x
  <2>2. \A v \in Workers : worker'[v].rec # r
    BY <2>1, SameRecs
  <2> QED
    BY <1>10, <2>2 DEF RemediatorUnrecorded, Undecided
<1>11. CASE Interrupt(w)
  <2>1. \A v \in Workers : worker'[v].rec # r
    BY <1>11, SameRecs DEF Interrupt, IdleWorker
  <2> QED
    BY <1>11, <2>1 DEF Interrupt, Undecided
<1> QED
  BY <1>5, <1>6, <1>7, <1>8, <1>9, <1>10, <1>11 DEF Execute

LEMMA ExecutorUndecided ==
    ASSUME LocalInv, NEW r \in Recs, Undecided(r), ExecutorStep
    PROVE  Undecided(r)'
<1> USE DEF LocalInv, TypeOK
<1> DEFINE e == worker[Executor]
<1>1. Executor \in Workers /\ e \in WorkerRecord /\ ConsistentRecord(Executor, e, due)
  BY WorkerFacts DEF WorkersConsistent
<1>2. CASE ExecutorSelect
  <2>1. r \notin due'
    BY <1>2 DEF ExecutorSelect, DueRows, Undecided
  <2> DEFINE x == [IdleWorker EXCEPT !.pc = "next", !.dry = settings.dryRun]
  <2>2. x.rec = NoRec /\ worker' = [worker EXCEPT ![Executor] = x]
    BY <1>2 DEF ExecutorSelect, IdleWorker
  <2> HIDE DEF x
  <2>3. \A v \in Workers : worker'[v].rec # r
    BY <1>1, <2>2, SameRecs
  <2> QED
    BY <1>2, <2>1, <2>3 DEF ExecutorSelect, Undecided
<1>3. ASSUME NEW t \in Recs, ExecutorRow(t)
      PROVE  Undecided(r)'
  <2> DEFINE x == [e EXCEPT !.pc = "execute", !.rec = t]
             y(o) == [e EXCEPT !.pc = "record", !.rec = t, !.outcome = o]
  <2>1. t # r /\ r \notin due'
    BY <1>3 DEF ExecutorRow, Undecided
  <2>2. \/ worker' = [worker EXCEPT ![Executor] = x]
        \/ \E o : worker' = [worker EXCEPT ![Executor] = y(o)]
    BY <1>3 DEF ExecutorRow
  <2>3. x.rec = t /\ \A o : y(o).rec = t
    BY <1>1 DEF WorkerRecord
  <2> HIDE DEF x, y
  <2>4. CASE worker' = [worker EXCEPT ![Executor] = x]
    <3>1. \A v \in Workers : worker'[v].rec # r
      <4>1. \A v \in Workers : worker'[v] = IF v = Executor THEN x ELSE worker[v]
        BY <2>4 DEF LocalInv, TypeOK
      <4> QED
        BY <2>1, <2>3, <4>1 DEF Undecided
    <3> QED
      BY <1>3, <2>1, <3>1 DEF ExecutorRow, Undecided
  <2>5. ASSUME NEW o, worker' = [worker EXCEPT ![Executor] = y(o)]
        PROVE  Undecided(r)'
    <3>1. \A v \in Workers : worker'[v].rec # r
      <4>1. \A v \in Workers : worker'[v] = IF v = Executor THEN y(o) ELSE worker[v]
        BY <2>5 DEF LocalInv, TypeOK
      <4> QED
        BY <2>1, <2>3, <4>1 DEF Undecided
    <3> QED
      BY <1>3, <2>1, <3>1 DEF ExecutorRow, Undecided
  <2> QED
    BY <2>2, <2>4, <2>5
<1>4. CASE ExecutorRecord
  <2>1. e.rec \in Recs /\ e.rec # r
    BY <1>1, <1>4 DEF ExecutorRecord, WorkerRecord, ConsistentRecord, Undecided
  <2> DEFINE x == [e EXCEPT !.pc = "next", !.rec = NoRec, !.outcome = "none"]
  <2>2. x.rec = NoRec /\ worker' = [worker EXCEPT ![Executor] = x]
    BY <1>1, <1>4 DEF ExecutorRecord, WorkerRecord
  <2> HIDE DEF x
  <2>3. \A v \in Workers : worker'[v].rec # r
    BY <1>1, <2>2, SameRecs
  <2> QED
    BY <1>4, <2>1, <2>3, SetElsewhere DEF ExecutorRecord, Undecided
<1>5. CASE ExecutorDone
  <2>1. \A v \in Workers : worker'[v].rec # r
    BY <1>1, <1>5, SameRecs DEF ExecutorDone, IdleWorker
  <2> QED
    BY <1>5, <2>1 DEF ExecutorDone, Undecided
<1> QED
  BY <1>2, <1>3, <1>4, <1>5 DEF ExecutorStep

LEMMA SyncUndecided ==
    ASSUME LocalInv, NEW r \in Recs, Undecided(r), NEW s \in Syncs,
           SyncBegin(s) \/ SyncStep(s)
    PROVE  Undecided(r)'
<1> USE DEF LocalInv, TypeOK
<1>1. ResolvedStatus(r) = "obsolete"
  BY DEF ResolvedStatus, Undecided
<1>2. CASE SyncBegin(s)
  BY <1>2 DEF SyncBegin, SyncPass, Undecided
<1>3. ASSUME NEW t \in Recs, SyncResolveGone(s, t)
      PROVE  Undecided(r)'
  BY <1>1, <1>3 DEF SyncResolveGone, SetStatus, Undecided
<1>4. ASSUME NEW t \in Recs, SyncReadRow(s, t)
      PROVE  Undecided(r)'
  BY <1>4 DEF SyncReadRow, Undecided
<1>5. CASE SyncUpdateRow(s)
  BY <1>1, <1>5 DEF SyncUpdateRow, SetStatus, Undecided
<1> QED
  BY <1>2, <1>3, <1>4, <1>5 DEF SyncStep

LEMMA ElsewhereUndecided ==
    ASSUME LocalInv, NEW r \in Recs, Undecided(r), NEW t \in Recs,
           Click(t) \/ GraceElapses(t) \/ Elsewhere(t)
    PROVE  Undecided(r)'
<1> USE DEF LocalInv, TypeOK
<1>1. CASE Reject(t) \/ Dismiss(t) \/ Restore(t)
  BY <1>1 DEF Reject, Dismiss, Restore, SetStatus, Undecided
<1>2. CASE Cancel(t)
  <2>1. ASSUME NEW v \in Workers
        PROVE  worker'[v].rec = worker[v].rec
    BY <1>2 DEF Cancel, WorkerRecord
  <2> QED
    BY <1>2, <2>1 DEF Cancel, SetStatus, Undecided
<1>3. CASE GraceElapses(t)
  BY <1>3 DEF GraceElapses, Undecided
<1>4. CASE PrSync(t)
  BY <1>4, SetElsewhere DEF PrSync, Undecided
<1>5. CASE DetectorRevives(t) \/ DetectorRetires(t)
  BY <1>5 DEF DetectorRevives, DetectorRetires, SetStatus, Undecided
<1>6. CASE OwnerActs(t)
  BY <1>6 DEF OwnerActs, Undecided
<1> QED
  BY <1>1, <1>2, <1>3, <1>4, <1>5, <1>6 DEF Click, Elsewhere

\* No job, no detector and no synchronisation decides for the user: without an
\* approval there is no AWS write and no decided status.
THEOREM NothingDecidedAlone == Spec => []ExplicitDecision
<1>1. Init => DecisionInv
  BY ConstantsAssumption DEF Init, DecisionInv, Undecided, IdleWorker
<1>2. LocalInv /\ DecisionInv /\ [Next]_vars => DecisionInv'
  <2> SUFFICES ASSUME LocalInv, DecisionInv, [Next]_vars, NEW r \in Recs,
                      approvals'[r] = 0
               PROVE  Undecided(r)'
    BY DEF DecisionInv
  <2> USE DEF LocalInv, TypeOK
  <2>1. ASSUME NEW q \in Requests, NEW t \in Recs, ApproveBegin(q, t)
        PROVE  Undecided(r)'
    <3>1. approvals[r] = 0 /\ t # r
      BY <2>1 DEF ApproveBegin
    <3>2. Undecided(r)
      BY <3>1 DEF DecisionInv
    <3>3. \A v \in Workers : worker'[v].rec # r
      BY <2>1, <3>1, <3>2 DEF ApproveBegin, IdleWorker, Undecided
    <3> QED
      BY <2>1, <3>2, <3>3 DEF ApproveBegin, Undecided
  <2>2. CASE \E q \in Requests, t \in Recs : ApproveBegin(q, t)
    BY <2>1, <2>2
  <2>3. ASSUME UNCHANGED approvals
        PROVE  Undecided(r)
    BY <2>3 DEF DecisionInv
  <2>4. CASE SaveSettings \/ UNCHANGED vars
    BY <2>3, <2>4 DEF SaveSettings, vars, Undecided
  <2>5. ASSUME NEW t \in Recs, Click(t) \/ GraceElapses(t) \/ Elsewhere(t)
        PROVE  Undecided(r)'
    <3>1. UNCHANGED approvals
      BY <2>5 DEF Click, Reject, Dismiss, Restore, Cancel, GraceElapses,
         Elsewhere, PrSync, DetectorRevives, DetectorRetires, OwnerActs
    <3> QED
      BY <2>3, <2>5, <3>1, ElsewhereUndecided
  <2>6. ASSUME NEW q \in Requests, ApproveStep(q)
        PROVE  Undecided(r)'
    <3>1. UNCHANGED approvals
      BY <2>6 DEF ApproveStep, ApproveByPr, MarkToDo, Simulate, Schedule,
         ApproveNow, ApproveRecord
    <3> QED
      BY <2>3, <2>6, <3>1, RequestUndecided
  <2>7. ASSUME NEW w \in Workers,
               Execute(w) \/ RemediatorUnrecorded(w) \/ Interrupt(w)
        PROVE  Undecided(r)'
    <3>1. UNCHANGED approvals
      BY <2>7 DEF Execute, ExecuteEc2, Refuse, Remediate, RemediatorCall,
         RemediatorFinalize, RemediatorUnrecorded, Interrupt
    <3> QED
      BY <2>3, <2>7, <3>1, ExecutionUndecided
  <2>8. CASE ExecutorStep
    <3>1. UNCHANGED approvals
      BY <2>8 DEF ExecutorStep, ExecutorSelect, ExecutorRow, ExecutorRecord,
         ExecutorDone
    <3> QED
      BY <2>3, <2>8, <3>1, ExecutorUndecided
  <2>9. ASSUME NEW s \in Syncs, SyncBegin(s) \/ SyncStep(s)
        PROVE  Undecided(r)'
    <3>1. UNCHANGED approvals
      BY <2>9 DEF SyncBegin, SyncPass, SyncStep, SyncResolveGone, SyncReadRow,
         SyncUpdateRow
    <3> QED
      BY <2>3, <2>9, <3>1, SyncUndecided
  <2> QED
    BY <2>2, <2>4, <2>5, <2>6, <2>7, <2>8, <2>9 DEF Next
<1>3. DecisionInv => ExplicitDecision
  BY DEF DecisionInv, ExplicitDecision, Undecided
<1> QED
  BY <1>1, <1>2, <1>3, InitLocal, NextLocal, PTL DEF Spec

-----------------------------------------------------------------------------
(* Dry-run.                                                                *)

\* With dry-run always on no thread ever gets past the routing of an approval,
\* and the executor never finds a row.
DryInv ==
    /\ \A w \in Workers : worker[w].dry /\ worker[w].pc \in {"idle", "routing"}
    /\ \A r \in Recs :
          /\ calls[r] = 0
          /\ \A s \in LogStatuses : log[r][s] = 0
          /\ status[r] \notin {"scheduled", "pr_open", "approved"}

LEMMA DrySetStatus ==
    ASSUME LocalInv, DryInv, NEW r \in Recs,
           NEW s \in Statuses \ {"scheduled", "pr_open", "approved"},
           SetStatus(r, s)
    PROVE  \A t \in Recs : status'[t] \notin {"scheduled", "pr_open", "approved"}
  BY DEF SetStatus, LocalInv, TypeOK, DryInv

LEMMA DryRequest ==
    ASSUME LocalInv, DryInv, NEW q \in Requests, ApproveStep(q)
    PROVE  DryInv'
<1> USE DEF LocalInv, TypeOK
<1>1. q \in Workers /\ worker[q] \in WorkerRecord /\ ConsistentRecord(q, worker[q], due)
  BY WorkerFacts DEF WorkersConsistent
<1>2. worker[q].dry /\ worker[q].pc \in {"idle", "routing"}
  BY <1>1 DEF DryInv
<1>3. ~Schedule(q) /\ ~ApproveNow(q) /\ ~ApproveRecord(q)
  BY <1>2 DEF Schedule, ApproveNow, ApproveRecord
<1>4. ASSUME worker' = [worker EXCEPT ![q] = IdleWorker]
      PROVE  \A w \in Workers : worker'[w].dry /\ worker'[w].pc \in {"idle", "routing"}
  BY <1>1, <1>4 DEF DryInv, IdleWorker
<1>5. CASE ApproveByPr(q)
  <2>1. UNCHANGED <<status, log>>
    BY <1>2, <1>5 DEF ApproveByPr
  <2> QED
    BY <1>4, <1>5, <2>1 DEF ApproveByPr, DryInv
<1>6. CASE MarkToDo(q)
  <2>1. worker[q].rec \in Recs
    BY <1>1, <1>6 DEF MarkToDo, ConsistentRecord, WorkerRecord
  <2> QED
    BY <1>4, <1>6, <2>1, DrySetStatus DEF MarkToDo, DryInv
<1>7. CASE Simulate(q)
  BY <1>4, <1>7 DEF Simulate, DryInv
<1> QED
  BY <1>3, <1>5, <1>6, <1>7 DEF ApproveStep

LEMMA DrySync ==
    ASSUME LocalInv, DryInv, NEW s \in Syncs, SyncBegin(s) \/ SyncStep(s)
    PROVE  DryInv'
<1> USE DEF LocalInv, TypeOK
<1>1. \A t : ResolvedStatus(t) \in Statuses \ {"scheduled", "pr_open", "approved"}
  BY DEF ResolvedStatus
<1>2. CASE SyncBegin(s)
  BY <1>2 DEF SyncBegin, SyncPass, DryInv
<1>3. ASSUME NEW t \in Recs, SyncResolveGone(s, t)
      PROVE  DryInv'
  BY <1>1, <1>3, DrySetStatus DEF SyncResolveGone, DryInv
<1>4. ASSUME NEW t \in Recs, SyncReadRow(s, t)
      PROVE  DryInv'
  BY <1>4 DEF SyncReadRow, DryInv
<1>5. CASE SyncUpdateRow(s)
  <2>1. sync[s].row \in Recs
    BY <1>5 DEF SyncUpdateRow, SyncRecord
  <2> QED
    BY <1>1, <1>5, <2>1, DrySetStatus DEF SyncUpdateRow, DryInv
<1> QED
  BY <1>2, <1>3, <1>4, <1>5 DEF SyncStep

LEMMA DryElsewhere ==
    ASSUME LocalInv, DryInv, NEW t \in Recs,
           Click(t) \/ GraceElapses(t) \/ Elsewhere(t)
    PROVE  DryInv'
<1> USE DEF LocalInv, TypeOK
<1>1. CASE Reject(t) \/ Dismiss(t) \/ Restore(t)
  BY <1>1, DrySetStatus DEF Reject, Dismiss, Restore, DryInv
<1>2. ~Cancel(t) /\ ~PrSync(t)
  BY DEF Cancel, PrSync, DryInv
<1>3. CASE GraceElapses(t)
  BY <1>3 DEF GraceElapses, DryInv
<1>4. CASE DetectorRevives(t) \/ DetectorRetires(t)
  BY <1>4, DrySetStatus DEF DetectorRevives, DetectorRetires, DryInv
<1>5. CASE OwnerActs(t)
  BY <1>5 DEF OwnerActs, DryInv
<1> QED
  BY <1>1, <1>2, <1>3, <1>4, <1>5 DEF Click, Elsewhere

\* While dry-run is on, whatever the users click, however their requests, the
\* jobs and the detectors interleave: no AWS write, nothing scheduled, no pull
\* request, no real row in the history.
THEOREM DryRunIsSafe == Spec => []DryRunTouchesNothing
<1> DEFINE AllDry == \A s \in Settings : s.dryRun
           Inv == AllDry => DryInv
<1>1. Init => Inv
  BY DEF Init, DryInv, IdleWorker
<1>2. LocalInv /\ Inv /\ [Next]_vars => Inv'
  <2> SUFFICES ASSUME LocalInv, AllDry, DryInv, [Next]_vars
               PROVE  DryInv'
    OBVIOUS
  <2> USE DEF LocalInv, TypeOK
  <2>1. settings.dryRun = TRUE
    BY ConstantsAssumption
  <2>2. ASSUME NEW q \in Requests, NEW t \in Recs, ApproveBegin(q, t)
        PROVE  DryInv'
    BY <2>1, <2>2 DEF ApproveBegin, DryInv, IdleWorker
  <2>3. ASSUME NEW w \in Workers
        PROVE  ~Execute(w) /\ ~RemediatorUnrecorded(w)
    <3>1. worker[w].pc \in {"idle", "routing"}
      BY DEF DryInv
    <3> QED
      BY <3>1 DEF Execute, ExecuteEc2, Refuse, Remediate, RemediatorCall,
         RemediatorFinalize, RemediatorUnrecorded
  <2>4. ASSUME NEW w \in Workers, Interrupt(w)
        PROVE  DryInv'
    <3>1. worker[w].row = "none"
      BY DEF DryInv, WorkersConsistent, ConsistentRecord
    <3>2. \A v \in Workers : worker'[v].dry /\ worker'[v].pc \in {"idle", "routing"}
      BY <2>4 DEF Interrupt, DryInv, IdleWorker
    <3> QED
      BY <2>4, <3>1, <3>2 DEF Interrupt, DryInv
  <2>5. ~ExecutorStep
    <3>1. worker[Executor].pc \in {"idle", "routing"} /\ DueRows = {}
      BY WorkerFacts DEF DryInv, DueRows
    <3>2. ~ExecutorSelect
      BY <3>1 DEF ExecutorSelect
    <3> QED
      BY <3>1, <3>2 DEF ExecutorStep, ExecutorRow, ExecutorRecord, ExecutorDone
  <2>6. CASE SaveSettings \/ UNCHANGED vars
    BY <2>6 DEF SaveSettings, vars, DryInv
  <2> QED
    BY <2>2, <2>3, <2>4, <2>5, <2>6, DryRequest, DrySync, DryElsewhere DEF Next
<1>3. Inv => DryRunTouchesNothing
  BY DEF DryRunTouchesNothing, DryInv
<1> QED
  BY <1>1, <1>2, <1>3, InitLocal, NextLocal, PTL DEF Spec

-----------------------------------------------------------------------------
(* Resolved on evidence.                                                   *)

\* What was seen of the resources is remembered: in settled, in the findings
\* of a synchronisation, in the outcome a thread carries to its record.
SettledSeen == \A r \in Recs : resource[r] \in SettledStates(r) => r \in settled

SyncSeen ==
    \A s \in Syncs : /\ sync[s].gone \subseteq settled
                     /\ sync[s].done \subseteq settled
                     /\ sync[s].row \in settled \cup {NoRec}

SeenRecord(x, seen) ==
    /\ x.outcome = "notFound" => x.rec \in seen
    /\ x.pc = "remediating" => ExecutionMode(x.rec) = "remediator"
    /\ x.pc = "finalize" /\ x.outcome = "success" => x.rec \in seen

WorkersSeen == \A w \in Workers : SeenRecord(worker[w], settled)

EvidenceInv == SettledSeen /\ SyncSeen /\ WorkersSeen /\ ResolvedOnEvidence

\* No remediator of these recommendations takes a client error for a resource
\* that is gone: the load balancers' looks at the code of the error, and the
\* actions on instances have none.
NoErrorIsGone == \A r \in Recs : TypeOf[r] \notin SwallowsClientErrors

LEMMA RefusedOnEvidence ==
    ASSUME NoErrorIsGone, SettledSeen, NEW r \in Recs, "notFound" \in Refusals(r)
    PROVE  r \in settled
  BY DEF NoErrorIsGone, SettledSeen, Refusals, SettledStates

LEMMA SetResourceSeen ==
    ASSUME LocalInv, SettledSeen, NEW r \in Recs, NEW v \in ResourceStates,
           SetResource(r, v)
    PROVE  /\ SettledSeen' /\ settled \subseteq settled'
           /\ v \in SettledStates(r) => r \in settled'
<1>1. \A t \in Recs : resource'[t] = IF t = r THEN v ELSE resource[t]
  BY DEF SetResource, LocalInv, TypeOK
<1>2. settled \subseteq settled' /\ (v \in SettledStates(r) => r \in settled')
  BY DEF SetResource
<1>3. SettledSeen'
  BY <1>1, <1>2 DEF SettledSeen
<1> QED
  BY <1>2, <1>3

\* One thread moves, to a record that is evident.
LEMMA OneWorkerSeen ==
    ASSUME LocalInv, WorkersSeen, settled \subseteq settled', NEW w \in Workers,
           NEW x, worker' = [worker EXCEPT ![w] = x], SeenRecord(x, settled')
    PROVE  WorkersSeen'
<1>1. \A v \in Workers : worker'[v] = IF v = w THEN x ELSE worker[v]
  BY DEF LocalInv, TypeOK
<1> QED
  BY <1>1 DEF WorkersSeen, SeenRecord

LEMMA IdleIsSeen == \A seen : SeenRecord(IdleWorker, seen)
  BY DEF SeenRecord, IdleWorker

LEMMA SyncStaysSeen ==
    ASSUME SyncSeen, UNCHANGED sync, settled \subseteq settled'
    PROVE  SyncSeen'
  BY DEF SyncSeen

LEMMA StatusStaysEvident ==
    ASSUME LocalInv, ResolvedOnEvidence, settled \subseteq settled',
           NEW t \in Recs, NEW s, SetStatus(t, s) \/ UNCHANGED status,
           s \in {"obsolete", "applied"} => t \in settled'
    PROVE  ResolvedOnEvidence'
  BY DEF ResolvedOnEvidence, SetStatus, LocalInv, TypeOK

LEMMA RequestsSeen ==
    ASSUME LocalInv, EvidenceInv, NEW q \in Requests,
           ApproveStep(q) \/ \E r \in Recs : ApproveBegin(q, r)
    PROVE  EvidenceInv'
<1>1. /\ q \in Workers /\ worker[q] \in WorkerRecord
      /\ ConsistentRecord(q, worker[q], due) /\ SeenRecord(worker[q], settled)
  BY WorkerFacts DEF LocalInv, TypeOK, WorkersConsistent, EvidenceInv, WorkersSeen
<1>2. UNCHANGED <<resource, settled, sync>>
  BY DEF ApproveStep, ApproveByPr, MarkToDo, Simulate, Schedule, ApproveNow,
         ApproveRecord, ApproveBegin
<1>3. settled \subseteq settled' /\ SettledSeen' /\ SyncSeen'
  BY <1>2, SyncStaysSeen DEF EvidenceInv, SettledSeen
<1>4. WorkersSeen'
  <2>1. CASE worker' = [worker EXCEPT ![q] = IdleWorker]
    BY <1>1, <1>3, <2>1, IdleIsSeen, OneWorkerSeen DEF EvidenceInv
  <2>2. CASE ApproveNow(q)
    <3> DEFINE x == [worker[q] EXCEPT !.pc = "execute"]
    <3>1. worker' = [worker EXCEPT ![q] = x] /\ SeenRecord(x, settled')
      BY <1>1, <1>2, <2>2 DEF ApproveNow, SeenRecord, WorkerRecord
    <3> HIDE DEF x
    <3> QED
      BY <1>1, <1>3, <3>1, OneWorkerSeen DEF EvidenceInv
  <2>3. ASSUME NEW r \in Recs, ApproveBegin(q, r)
        PROVE  WorkersSeen'
    <3> DEFINE x == [IdleWorker EXCEPT !.pc = "routing", !.rec = r,
                                       !.dry = settings.dryRun]
    <3>1. worker' = [worker EXCEPT ![q] = x] /\ SeenRecord(x, settled')
      BY <2>3 DEF ApproveBegin, SeenRecord, IdleWorker
    <3> HIDE DEF x
    <3> QED
      BY <1>1, <1>3, <3>1, OneWorkerSeen DEF EvidenceInv
  <2> QED
    BY <2>1, <2>2, <2>3
    DEF ApproveStep, ApproveByPr, MarkToDo, Simulate, Schedule, ApproveRecord
<1>5. ResolvedOnEvidence'
  <2>1. CASE UNCHANGED status
    BY <1>2, <2>1 DEF EvidenceInv, ResolvedOnEvidence
  <2>2. ASSUME worker[q].pc \in {"routing", "record"},
               NEW s \in {"pr_open", "approved_manual", "scheduled", "approved",
                          "pending"},
               SetStatus(worker[q].rec, s)
        PROVE  ResolvedOnEvidence'
    <3>1. worker[q].rec \in Recs
      BY <1>1, <2>2 DEF ConsistentRecord, WorkerRecord
    <3> QED
      BY <1>3, <2>2, <3>1, StatusStaysEvident DEF EvidenceInv
  <2> QED
    BY <2>1, <2>2
    DEF ApproveStep, ApproveByPr, MarkToDo, Simulate, Schedule, ScheduledRow,
        ApproveNow, ApproveRecord, ApproveBegin
<1> QED
  BY <1>3, <1>4, <1>5 DEF EvidenceInv

LEMMA ExecutionSeen ==
    ASSUME LocalInv, NoErrorIsGone, EvidenceInv, NEW w \in Workers,
           Execute(w) \/ RemediatorUnrecorded(w) \/ Interrupt(w)
    PROVE  EvidenceInv'
<1>1. /\ worker[w] \in WorkerRecord
      /\ ConsistentRecord(w, worker[w], due) /\ SeenRecord(worker[w], settled)
  BY DEF LocalInv, TypeOK, WorkersConsistent, EvidenceInv, WorkersSeen
<1>2. CASE Interrupt(w)
  <2>1. UNCHANGED <<resource, settled, sync, status>>
    BY <1>2 DEF Interrupt
  <2>2. SettledSeen' /\ SyncSeen' /\ ResolvedOnEvidence'
    BY <2>1 DEF EvidenceInv, SettledSeen, SyncSeen, ResolvedOnEvidence
  <2>3. WorkersSeen'
    BY <1>2, <2>1, IdleIsSeen, OneWorkerSeen DEF Interrupt, EvidenceInv
  <2> QED
    BY <2>2, <2>3 DEF EvidenceInv
<1>3. CASE Execute(w) \/ RemediatorUnrecorded(w)
  <2>1. PICK t \in Recs : worker[w].rec = t
    BY <1>1, <1>3
    DEF Execute, ExecuteEc2, Refuse, Remediate, RemediatorCall,
        RemediatorFinalize, RemediatorUnrecorded, WorkerRecord, ConsistentRecord
  <2>2. UNCHANGED sync
    BY <1>3 DEF Execute, ExecuteEc2, Refuse, Remediate, RemediatorCall,
                RemediatorFinalize, RemediatorUnrecorded
  <2>3. ASSUME settled \subseteq settled', SettledSeen',
               NEW x, worker' = [worker EXCEPT ![w] = x], SeenRecord(x, settled'),
               UNCHANGED status \/ (SetStatus(t, "applied") /\ t \in settled')
        PROVE  EvidenceInv'
    <3>1. SyncSeen'
      BY <2>2, <2>3, SyncStaysSeen DEF EvidenceInv
    <3>2. WorkersSeen'
      BY <2>3, OneWorkerSeen DEF EvidenceInv
    <3>3. ResolvedOnEvidence'
      <4>1. CASE UNCHANGED status
        BY <2>3, <4>1 DEF EvidenceInv, ResolvedOnEvidence
      <4>2. CASE SetStatus(t, "applied") /\ t \in settled'
        BY <2>3, <4>2, StatusStaysEvident DEF EvidenceInv
      <4> QED
        BY <2>3, <4>1, <4>2
    <3> QED
      BY <2>3, <3>1, <3>2, <3>3 DEF EvidenceInv
  <2>4. AfterWrite(t) \in ResourceStates
    BY DEF AfterWrite, ResourceStates
  <2>5. ASSUME UNCHANGED <<resource, settled>> \/ SetResource(t, AfterWrite(t))
        PROVE  /\ settled \subseteq settled' /\ SettledSeen'
               /\ SetResource(t, AfterWrite(t)) /\ ExecutionMode(t) = "remediator"
                     => t \in settled'
    <3>1. ExecutionMode(t) = "remediator" => AfterWrite(t) \in SettledStates(t)
      BY DEF ExecutionMode, AfterWrite, SettledStates, RemediatorTypes, Boto3Types
    <3>2. CASE UNCHANGED <<resource, settled>> /\ ~SetResource(t, AfterWrite(t))
      BY <3>2 DEF EvidenceInv, SettledSeen
    <3>3. CASE SetResource(t, AfterWrite(t))
      BY <2>4, <3>1, <3>3, SetResourceSeen DEF EvidenceInv
    <3> QED
      BY <2>5, <3>2, <3>3
  <2>6. CASE ExecuteEc2(w)
    <3> DEFINE x(o) == [worker[w] EXCEPT !.pc = "record", !.outcome = o]
    <3>1. PICK o : /\ worker' = [worker EXCEPT ![w] = x(o)]
                   /\ o = "notFound" => resource[t] = "gone"
      <4>1. \E o \in {"notFound", "failed", "success"} :
               worker' = Ended(w, o) /\ (o = "notFound" => resource[t] = "gone")
        BY <2>1, <2>6 DEF ExecuteEc2
      <4> QED
        BY <4>1 DEF Ended
    <3>2. /\ UNCHANGED <<resource, settled>> \/ SetResource(t, AfterWrite(t))
          /\ UNCHANGED status
      BY <2>1, <2>6 DEF ExecuteEc2
    <3>3. settled \subseteq settled' /\ SettledSeen'
      BY <2>5, <3>2
    <3>4. o = "notFound" => t \in settled'
      BY <3>1, <3>3 DEF EvidenceInv, SettledSeen, SettledStates
    <3>5. SeenRecord(x(o), settled')
      BY <1>1, <2>1, <3>4 DEF SeenRecord, WorkerRecord
    <3> HIDE DEF x
    <3> QED
      BY <2>3, <3>1, <3>2, <3>3, <3>5
  <2>7. CASE Refuse(w)
    <3> DEFINE x(o) == [worker[w] EXCEPT !.pc = "record", !.outcome = o]
    <3>1. PICK o \in Refusals(t) : worker' = [worker EXCEPT ![w] = x(o)]
      BY <2>1, <2>7 DEF Refuse, Ended
    <3>2. UNCHANGED <<resource, settled, status>>
      BY <2>7 DEF Refuse
    <3>3. settled \subseteq settled' /\ SettledSeen'
      BY <2>5, <3>2
    <3>4. o = "notFound" => t \in settled'
      BY <3>1, <3>2, RefusedOnEvidence DEF EvidenceInv
    <3>5. SeenRecord(x(o), settled')
      BY <1>1, <2>1, <3>4 DEF SeenRecord, WorkerRecord
    <3> HIDE DEF x
    <3> QED
      BY <2>3, <3>1, <3>2, <3>3, <3>5
  <2>8. CASE Remediate(w)
    <3> DEFINE x == [worker[w] EXCEPT !.pc = "remediating", !.row = "pending"]
    <3>1. /\ worker' = [worker EXCEPT ![w] = x] /\ ExecutionMode(t) = "remediator"
          /\ UNCHANGED <<resource, settled, status>>
      BY <2>1, <2>8 DEF Remediate
    <3>2. settled \subseteq settled' /\ SettledSeen'
      BY <2>5, <3>1
    <3>3. SeenRecord(x, settled')
      BY <1>1, <2>1, <3>1 DEF SeenRecord, WorkerRecord
    <3> HIDE DEF x
    <3> QED
      BY <2>3, <3>1, <3>2, <3>3
  <2>9. CASE RemediatorCall(w)
    <3> DEFINE x(o) == [worker[w] EXCEPT !.pc = "finalize", !.outcome = o]
    <3>1. PICK o \in {"success", "failed"} :
             /\ worker' = [worker EXCEPT ![w] = x(o)]
             /\ o = "success" => SetResource(t, AfterWrite(t))
             /\ UNCHANGED <<resource, settled>> \/ SetResource(t, AfterWrite(t))
             /\ UNCHANGED status
      BY <2>1, <2>9 DEF RemediatorCall
    <3>2. ExecutionMode(t) = "remediator"
      BY <1>1, <2>1, <2>9 DEF RemediatorCall, SeenRecord
    <3>3. /\ settled \subseteq settled' /\ SettledSeen'
          /\ o = "success" => t \in settled'
      BY <2>5, <3>1, <3>2
    <3>4. SeenRecord(x(o), settled')
      BY <1>1, <2>1, <3>3 DEF SeenRecord, WorkerRecord
    <3> HIDE DEF x
    <3> QED
      BY <2>3, <3>1, <3>3, <3>4
  <2>10. CASE RemediatorFinalize(w)
    <3> DEFINE x == [worker[w] EXCEPT !.pc = "record", !.row = "none"]
    <3>1. /\ worker' = [worker EXCEPT ![w] = x]
          /\ \/ SetStatus(t, "applied") /\ worker[w].outcome = "success"
             \/ UNCHANGED status
          /\ UNCHANGED <<resource, settled>> /\ worker[w].pc = "finalize"
      BY <2>1, <2>10 DEF RemediatorFinalize
    <3>2. settled \subseteq settled' /\ SettledSeen'
      BY <2>5, <3>1
    <3>3. SeenRecord(x, settled')
      BY <1>1, <2>1, <3>1, <3>2 DEF SeenRecord, WorkerRecord
    <3> HIDE DEF x
    <3>4. CASE worker[w].outcome = "success"
      <4>1. t \in settled'
        BY <1>1, <2>1, <3>1, <3>2, <3>4 DEF SeenRecord
      <4> QED
        BY <2>3, <3>1, <3>2, <3>3, <4>1
    <3>5. CASE worker[w].outcome # "success"
      <4>1. UNCHANGED status
        BY <3>1, <3>5
      <4> QED
        BY <2>3, <3>1, <3>2, <3>3, <4>1
    <3> QED
      BY <3>4, <3>5
  <2>11. CASE RemediatorUnrecorded(w)
    <3> DEFINE x == [worker[w] EXCEPT !.pc = "record", !.row = "none",
                                      !.outcome = "failed"]
    <3>1. /\ worker' = [worker EXCEPT ![w] = x]
          /\ UNCHANGED <<resource, settled, status>>
      BY <2>11 DEF RemediatorUnrecorded
    <3>2. settled \subseteq settled' /\ SettledSeen'
      BY <2>5, <3>1
    <3>3. SeenRecord(x, settled')
      BY <1>1 DEF SeenRecord, WorkerRecord
    <3> HIDE DEF x
    <3> QED
      BY <2>3, <3>1, <3>2, <3>3
  <2> QED
    BY <1>3, <2>6, <2>7, <2>8, <2>9, <2>10, <2>11 DEF Execute
<1> QED
  BY <1>2, <1>3

LEMMA ExecutorSeen ==
    ASSUME LocalInv, NoErrorIsGone, EvidenceInv, ExecutorStep
    PROVE  EvidenceInv'
<1> DEFINE e == worker[Executor]
<1>1. /\ Executor \in Workers /\ e \in WorkerRecord
      /\ ConsistentRecord(Executor, e, due) /\ SeenRecord(e, settled)
  BY WorkerFacts
  DEF LocalInv, TypeOK, WorkersConsistent, EvidenceInv, WorkersSeen
<1>2. UNCHANGED <<resource, settled, sync>>
  BY DEF ExecutorStep, ExecutorSelect, ExecutorRow, ExecutorRecord, ExecutorDone
<1>3. settled \subseteq settled' /\ SettledSeen' /\ SyncSeen'
  BY <1>2, SyncStaysSeen DEF EvidenceInv, SettledSeen
<1>4. ASSUME NEW x, worker' = [worker EXCEPT ![Executor] = x],
             SeenRecord(x, settled')
      PROVE  WorkersSeen'
  BY <1>1, <1>3, <1>4, OneWorkerSeen DEF EvidenceInv
<1>5. ASSUME UNCHANGED status
      PROVE  ResolvedOnEvidence'
  BY <1>2, <1>5 DEF EvidenceInv, ResolvedOnEvidence
<1>6. CASE ExecutorSelect
  <2> DEFINE x == [IdleWorker EXCEPT !.pc = "next", !.dry = settings.dryRun]
  <2>1. worker' = [worker EXCEPT ![Executor] = x] /\ SeenRecord(x, settled')
    BY <1>6 DEF ExecutorSelect, SeenRecord, IdleWorker
  <2> HIDE DEF x
  <2> QED
    BY <1>3, <1>4, <1>5, <1>6, <2>1 DEF ExecutorSelect, EvidenceInv
<1>7. ASSUME NEW t \in Recs, ExecutorRow(t)
      PROVE  EvidenceInv'
  <2> DEFINE y    == [e EXCEPT !.pc = "execute", !.rec = t]
             z(o) == [e EXCEPT !.pc = "record", !.rec = t, !.outcome = o]
  <2>1. UNCHANGED status
    BY <1>7 DEF ExecutorRow
  <2>2. e.outcome # "notFound"
    <3>1. e.rec = NoRec
      BY <1>1, <1>7 DEF ExecutorRow, ConsistentRecord
    <3>2. NoRec \notin settled
      BY ConstantsAssumption DEF LocalInv, TypeOK
    <3> QED
      BY <1>1, <3>1, <3>2 DEF SeenRecord
  <2>3. SeenRecord(y, settled')
    BY <1>1, <2>2 DEF SeenRecord, WorkerRecord
  <2>4. ASSUME NEW o \in SimulatedOutcomes(t)
        PROVE  SeenRecord(z(o), settled')
    <3>1. o = "notFound" => "notFound" \in Refusals(t)
      BY <2>4 DEF SimulatedOutcomes
    <3>2. o = "notFound" => t \in settled'
      BY <1>2, <3>1, RefusedOnEvidence DEF EvidenceInv
    <3> QED
      BY <1>1, <3>2 DEF SeenRecord, WorkerRecord
  <2>5. \/ worker' = [worker EXCEPT ![Executor] = y]
        \/ \E o \in SimulatedOutcomes(t) :
              worker' = [worker EXCEPT ![Executor] = z(o)]
    BY <1>7 DEF ExecutorRow
  <2> HIDE DEF y, z
  <2>6. WorkersSeen'
    BY <1>4, <2>3, <2>4, <2>5
  <2> QED
    BY <1>3, <1>5, <2>1, <2>6 DEF EvidenceInv
<1>8. CASE ExecutorRecord
  <2>1. PICK t \in Recs : e.rec = t
    BY <1>1, <1>8 DEF ExecutorRecord, WorkerRecord, ConsistentRecord
  <2>2. SetStatus(t, GraceExecutionStatus(e.outcome))
    BY <1>8, <2>1 DEF ExecutorRecord
  <2>3. GraceExecutionStatus(e.outcome) \in {"obsolete", "applied"}
           => t \in settled'
    BY <1>1, <1>3, <2>1 DEF GraceExecutionStatus, SeenRecord
  <2>4. ResolvedOnEvidence'
    BY <1>3, <2>2, <2>3, StatusStaysEvident DEF EvidenceInv
  <2> DEFINE x == [e EXCEPT !.pc = "next", !.rec = NoRec, !.outcome = "none"]
  <2>5. worker' = [worker EXCEPT ![Executor] = x] /\ SeenRecord(x, settled')
    BY <1>1, <1>8 DEF ExecutorRecord, SeenRecord, WorkerRecord
  <2> HIDE DEF x
  <2> QED
    BY <1>3, <1>4, <2>4, <2>5 DEF EvidenceInv
<1>9. CASE ExecutorDone
  BY <1>3, <1>4, <1>5, <1>9, IdleIsSeen DEF ExecutorDone, EvidenceInv
<1> QED
  BY <1>6, <1>7, <1>8, <1>9 DEF ExecutorStep

\* A synchronisation finds what answered and is gone or settled; what it then
\* writes, however late, is about a row of its findings.
LEMMA SyncFindsSeen ==
    ASSUME LocalInv, EvidenceInv, NEW s \in Syncs, SyncBegin(s) \/ SyncStep(s)
    PROVE  EvidenceInv'
<1>1. UNCHANGED <<resource, settled, worker>>
  BY DEF SyncBegin, SyncPass, SyncStep, SyncResolveGone, SyncReadRow, SyncUpdateRow
<1>2. SettledSeen' /\ WorkersSeen' /\ settled \subseteq settled'
  BY <1>1 DEF EvidenceInv, SettledSeen, WorkersSeen
<1>3. /\ sync[s].gone \subseteq settled /\ sync[s].done \subseteq settled
      /\ sync[s].row \in settled \cup {NoRec} /\ sync[s] \in SyncRecord
  BY DEF EvidenceInv, SyncSeen, LocalInv, TypeOK
<1>4. ASSUME NEW x, sync' = [sync EXCEPT ![s] = x],
             x.gone \subseteq settled, x.done \subseteq settled,
             x.row \in settled \cup {NoRec}
      PROVE  SyncSeen'
  <2>1. \A u \in Syncs : sync'[u] = IF u = s THEN x ELSE sync[u]
    BY <1>4 DEF LocalInv, TypeOK
  <2> QED
    BY <1>1, <1>4, <2>1 DEF EvidenceInv, SyncSeen
<1>5. ASSUME UNCHANGED status
      PROVE  ResolvedOnEvidence'
  BY <1>1, <1>5 DEF EvidenceInv, ResolvedOnEvidence
<1>6. CASE SyncBegin(s)
  <2>1. PICK F : SyncPass(s, F)
    BY <1>6 DEF SyncBegin
  <2>2. PICK ids \in SUBSET Recs :
           sync' = [sync EXCEPT ![s].gone = FoundGone(ids, F),
                                ![s].done = FoundDone(ids, F)]
    BY <2>1 DEF SyncPass
  <2>3. FoundGone(ids, F) \subseteq settled /\ FoundDone(ids, F) \subseteq settled
    BY DEF EvidenceInv, SettledSeen, FoundGone, FoundDone, SettledStates
  <2> DEFINE x == [sync[s] EXCEPT !.gone = FoundGone(ids, F),
                                  !.done = FoundDone(ids, F)]
  <2>4. sync' = [sync EXCEPT ![s] = x]
    BY <2>2
  <2>5. /\ x.gone = FoundGone(ids, F) /\ x.done = FoundDone(ids, F)
        /\ x.row = sync[s].row
    BY <1>3 DEF SyncRecord
  <2> HIDE DEF x
  <2>6. SyncSeen'
    BY <1>3, <1>4, <2>3, <2>4, <2>5
  <2>7. ResolvedOnEvidence'
    BY <1>5, <2>1 DEF SyncPass
  <2> QED
    BY <1>2, <2>6, <2>7 DEF EvidenceInv
<1>7. ASSUME NEW t \in Recs, SyncResolveGone(s, t)
      PROVE  EvidenceInv'
  <2> DEFINE x == [sync[s] EXCEPT !.gone = @ \ {t}]
  <2>1. sync' = [sync EXCEPT ![s] = x]
    BY <1>7 DEF SyncResolveGone
  <2>2. x.gone = sync[s].gone \ {t} /\ x.done = sync[s].done /\ x.row = sync[s].row
    BY <1>3 DEF SyncRecord
  <2> HIDE DEF x
  <2>3. SyncSeen'
    BY <1>3, <1>4, <2>1, <2>2
  <2>4. t \in settled' /\ (SetStatus(t, ResolvedStatus(t)) \/ UNCHANGED status)
    BY <1>2, <1>3, <1>7 DEF SyncResolveGone
  <2>5. ResolvedOnEvidence'
    BY <1>2, <2>4, StatusStaysEvident DEF EvidenceInv
  <2> QED
    BY <1>2, <2>3, <2>5 DEF EvidenceInv
<1>8. ASSUME NEW t \in Recs, SyncReadRow(s, t)
      PROVE  EvidenceInv'
  <2> DEFINE x(v) == [sync[s] EXCEPT !.done = @ \ {t}, !.row = v]
  <2>1. PICK v \in {t, NoRec} : sync' = [sync EXCEPT ![s] = x(v)]
    BY <1>8 DEF SyncReadRow
  <2>2. x(v).gone = sync[s].gone /\ x(v).done = sync[s].done \ {t} /\ x(v).row = v
    BY <1>3 DEF SyncRecord
  <2> HIDE DEF x
  <2>3. t \in settled
    BY <1>3, <1>8 DEF SyncReadRow
  <2>4. SyncSeen'
    BY <1>3, <1>4, <2>1, <2>2, <2>3
  <2>5. ResolvedOnEvidence'
    BY <1>5, <1>8 DEF SyncReadRow
  <2> QED
    BY <1>2, <2>4, <2>5 DEF EvidenceInv
<1>9. CASE SyncUpdateRow(s)
  <2>1. PICK t \in Recs : sync[s].row = t
    BY <1>3, <1>9 DEF SyncUpdateRow, SyncRecord
  <2> DEFINE x == [sync[s] EXCEPT !.row = NoRec]
  <2>2. sync' = [sync EXCEPT ![s] = x]
    BY <1>9 DEF SyncUpdateRow
  <2>3. x.gone = sync[s].gone /\ x.done = sync[s].done /\ x.row = NoRec
    BY <1>3 DEF SyncRecord
  <2> HIDE DEF x
  <2>4. SyncSeen'
    BY <1>3, <1>4, <2>2, <2>3
  <2>5. t \in settled' /\ SetStatus(t, ResolvedStatus(t))
    BY <1>2, <1>3, <1>9, <2>1, ConstantsAssumption DEF SyncUpdateRow
  <2>6. ResolvedOnEvidence'
    BY <1>2, <2>5, StatusStaysEvident DEF EvidenceInv
  <2> QED
    BY <1>2, <2>4, <2>6 DEF EvidenceInv
<1> QED
  BY <1>6, <1>7, <1>8, <1>9 DEF SyncStep

LEMMA ElsewhereSeen ==
    ASSUME LocalInv, EvidenceInv, NEW t \in Recs,
           Click(t) \/ GraceElapses(t) \/ Elsewhere(t)
    PROVE  EvidenceInv'
<1>1. UNCHANGED sync
  BY DEF Click, Reject, Dismiss, Restore, Cancel, GraceElapses, Elsewhere, PrSync,
         DetectorRevives, DetectorRetires, OwnerActs
<1>2. ASSUME UNCHANGED <<resource, settled>>, WorkersSeen',
             NEW s, SetStatus(t, s) \/ UNCHANGED status,
             s \in {"obsolete", "applied"} => t \in settled
      PROVE  EvidenceInv'
  <2>1. settled \subseteq settled' /\ SettledSeen' /\ SyncSeen'
    BY <1>1, <1>2, SyncStaysSeen DEF EvidenceInv, SettledSeen
  <2>2. ResolvedOnEvidence'
    BY <1>2, <2>1, StatusStaysEvident DEF EvidenceInv
  <2> QED
    BY <1>2, <2>1, <2>2 DEF EvidenceInv
<1>3. ASSUME UNCHANGED <<worker, settled>>
      PROVE  WorkersSeen'
  BY <1>3 DEF EvidenceInv, WorkersSeen
<1>4. CASE Reject(t) \/ Dismiss(t) \/ Restore(t) \/ PrSync(t) \/ DetectorRevives(t)
  <2>1. \E s \in {"rejected", "dismissed", "pending", "approved"} : SetStatus(t, s)
    BY <1>4 DEF Reject, Dismiss, Restore, PrSync, DetectorRevives
  <2>2. UNCHANGED <<resource, settled, worker>>
    BY <1>4 DEF Reject, Dismiss, Restore, PrSync, DetectorRevives
  <2> QED
    BY <1>2, <1>3, <2>1, <2>2
<1>5. CASE Cancel(t)
  <2>1. ASSUME NEW w \in Workers
        PROVE  /\ worker'[w].rec = worker[w].rec /\ worker'[w].pc = worker[w].pc
               /\ worker'[w].outcome = worker[w].outcome
    BY <1>5 DEF Cancel, WorkerRecord, LocalInv, TypeOK
  <2>2. UNCHANGED <<resource, settled>> /\ SetStatus(t, "pending")
    BY <1>5 DEF Cancel
  <2>3. WorkersSeen'
    BY <2>1, <2>2 DEF EvidenceInv, WorkersSeen, SeenRecord
  <2> QED
    BY <1>2, <2>2, <2>3
<1>6. CASE GraceElapses(t)
  <2>1. UNCHANGED <<resource, settled, worker, status>>
    BY <1>6 DEF GraceElapses
  <2>2. SettledSeen' /\ ResolvedOnEvidence'
    BY <2>1 DEF EvidenceInv, SettledSeen, ResolvedOnEvidence
  <2> QED
    BY <1>1, <1>3, <2>1, <2>2, SyncStaysSeen DEF EvidenceInv
<1>7. CASE DetectorRetires(t)
  <2>1. /\ TypeOf[t] = "delete_snapshot" /\ resource[t] = "used"
        /\ SetStatus(t, "obsolete") /\ UNCHANGED <<resource, settled, worker>>
    BY <1>7 DEF DetectorRetires
  <2>2. t \in settled
    BY <2>1 DEF EvidenceInv, SettledSeen, SettledStates
  <2> QED
    BY <1>2, <1>3, <2>1, <2>2
<1>8. CASE OwnerActs(t)
  <2>1. PICK v \in ResourceStates : SetResource(t, v)
    BY <1>8 DEF OwnerActs
  <2>2. SettledSeen' /\ settled \subseteq settled'
    BY <2>1, SetResourceSeen DEF EvidenceInv
  <2>3. UNCHANGED <<status, worker>>
    BY <1>8 DEF OwnerActs
  <2>4. WorkersSeen' /\ ResolvedOnEvidence'
    BY <2>2, <2>3 DEF EvidenceInv, WorkersSeen, SeenRecord, ResolvedOnEvidence
  <2> QED
    BY <1>1, <2>2, <2>4, SyncStaysSeen DEF EvidenceInv
<1> QED
  BY <1>4, <1>5, <1>6, <1>7, <1>8 DEF Click, Elsewhere

\* Obsolete and applied are said of what was really seen gone, stopped or
\* migrated, however late a synchronisation or an executor writes what it
\* found, whatever region failed to answer, and whatever the users and the
\* detectors do meanwhile; for the types whose remediator does not take every
\* client error for a resource that is gone.
THEOREM ResolvedIsEvident == NoErrorIsGone => (Spec => []ResolvedOnEvidence)
<1> SUFFICES ASSUME NoErrorIsGone
             PROVE  Spec => []ResolvedOnEvidence
  OBVIOUS
<1>1. Init => EvidenceInv
  <2> SUFFICES ASSUME Init
               PROVE  EvidenceInv
    OBVIOUS
  <2>1. WorkersSeen
    BY IdleIsSeen DEF Init, WorkersSeen
  <2>2. SyncSeen
    BY DEF Init, SyncSeen, IdleSync
  <2>3. SettledSeen
    BY DEF Init, SettledSeen, SettledStates, SettledInstance
  <2>4. ResolvedOnEvidence
    BY DEF Init, ResolvedOnEvidence
  <2> QED
    BY <2>1, <2>2, <2>3, <2>4 DEF EvidenceInv
<1>2. LocalInv /\ EvidenceInv /\ [Next]_vars => EvidenceInv'
  <2> SUFFICES ASSUME LocalInv, EvidenceInv, [Next]_vars
               PROVE  EvidenceInv'
    OBVIOUS
  <2>1. CASE SaveSettings \/ UNCHANGED vars
    <3>1. UNCHANGED <<status, resource, worker, sync, settled>>
      BY <2>1 DEF SaveSettings, vars
    <3> QED
      BY <3>1
      DEF EvidenceInv, SettledSeen, SyncSeen, WorkersSeen, ResolvedOnEvidence
  <2>2. CASE Next
    BY <2>1, <2>2, ElsewhereSeen, RequestsSeen, ExecutionSeen, ExecutorSeen,
       SyncFindsSeen DEF Next
  <2> QED
    BY <2>1, <2>2
<1>3. EvidenceInv => ResolvedOnEvidence
  BY DEF EvidenceInv
<1> QED
  BY <1>1, <1>2, <1>3, InitLocal, NextLocal, PTL DEF Spec

-----------------------------------------------------------------------------
(* Every write has an approval.                                            *)

HIDE DEF ResourceStates

Within(r) == calls[r] + Owed(r) <= approvals[r] + faults

-----------------------------------------------------------------------------
(* Counting requests.                                                      *)

LEMMA CountType ==
    ASSUME NEW A \in SUBSET Requests
    PROVE  Cardinality(A) \in Nat /\ IsFiniteSet(A)
  BY ConstantsAssumption, FS_Subset, FS_CardinalityType

LEMMA CountShrinks ==
    ASSUME NEW A \in SUBSET Requests, NEW B \in SUBSET A
    PROVE  Cardinality(B) <= Cardinality(A)
  BY CountType, FS_Subset

LEMMA CountSpends ==
    ASSUME NEW A \in SUBSET Requests, NEW q \in A, NEW B \in SUBSET (A \ {q})
    PROVE  Cardinality(B) + 1 <= Cardinality(A)
<1>1. Cardinality(A \ {q}) = Cardinality(A) - 1
  BY CountType, FS_RemoveElement
<1>2. Cardinality(B) <= Cardinality(A \ {q})
  BY CountShrinks
<1>3. /\ Cardinality(A) \in Nat /\ Cardinality(B) \in Nat
      /\ Cardinality(A \ {q}) \in Nat
  BY CountType
<1> QED
  BY <1>1, <1>2, <1>3

LEMMA CountGrows ==
    ASSUME NEW A \in SUBSET Requests, NEW q \in Requests,
           NEW B \in SUBSET (A \cup {q})
    PROVE  Cardinality(B) <= Cardinality(A) + 1
<1>1. CASE q \in B /\ q \notin A
  <2>1. B \ {q} \in SUBSET A /\ Cardinality(B \ {q}) = Cardinality(B) - 1
    BY <1>1, CountType, FS_RemoveElement
  <2>2. Cardinality(B \ {q}) <= Cardinality(A)
    BY <2>1, CountShrinks
  <2>3. Cardinality(A) \in Nat /\ Cardinality(B) \in Nat
    BY CountType
  <2> QED
    BY <2>1, <2>2, <2>3
<1>2. CASE ~(q \in B /\ q \notin A)
  <2>1. B \in SUBSET A
    BY <1>2
  <2>2. Cardinality(B) <= Cardinality(A)
    BY <2>1, CountShrinks
  <2>3. Cardinality(A) \in Nat /\ Cardinality(B) \in Nat
    BY CountType
  <2> QED
    BY <2>2, <2>3
<1> QED
  BY <1>1, <1>2

-----------------------------------------------------------------------------
(* The ways in which a step keeps the budget of r.                         *)

LEMMA BudgetTypes ==
    ASSUME LocalInv, NEW r \in Recs
    PROVE  /\ InFlight(r) \in SUBSET Requests
           /\ Cardinality(InFlight(r)) \in Nat
           /\ calls[r] \in Nat /\ approvals[r] \in Nat /\ faults \in Nat
<1>1. InFlight(r) \in SUBSET Requests
  BY DEF InFlight
<1> QED
  BY <1>1, CountType DEF LocalInv, TypeOK

LEMMA BudgetTypesNext ==
    ASSUME LocalInv', NEW r \in Recs
    PROVE  /\ InFlight(r)' \in SUBSET Requests
           /\ Cardinality(InFlight(r)') \in Nat
           /\ calls'[r] \in Nat /\ approvals'[r] \in Nat /\ faults' \in Nat
<1>1. InFlight(r)' \in SUBSET Requests
  BY DEF InFlight
<1> QED
  BY <1>1, CountType DEF LocalInv, TypeOK

\* Nothing moves, or a debt is dropped.
LEMMA BudgetKept ==
    ASSUME LocalInv, LocalInv', NEW r \in Recs, Within(r),
           calls'[r] = calls[r], approvals'[r] = approvals[r],
           faults' \in {faults, faults + 1},
           InFlight(r)' \in SUBSET InFlight(r),
           ExecutorOwes(r)' => ExecutorOwes(r) \/ faults' = faults + 1
    PROVE  Within(r)'
<1>1. Cardinality(InFlight(r)') <= Cardinality(InFlight(r))
  BY BudgetTypes, CountShrinks
<1> QED
  BY <1>1, BudgetTypes, BudgetTypesNext DEF Within, Owed

\* A request in flight spends its approval on a write, or on a scheduled row.
LEMMA BudgetRequest ==
    ASSUME LocalInv, LocalInv', NEW r \in Recs, Within(r),
           approvals'[r] = approvals[r], faults' = faults,
           NEW q \in InFlight(r), InFlight(r)' \in SUBSET (InFlight(r) \ {q}),
           \/ calls'[r] = calls[r]
           \/ calls'[r] = calls[r] + 1 /\ (ExecutorOwes(r)' => ExecutorOwes(r))
    PROVE  Within(r)'
<1>1. Cardinality(InFlight(r)') + 1 <= Cardinality(InFlight(r))
  BY BudgetTypes, CountSpends
<1> QED
  BY <1>1, BudgetTypes, BudgetTypesNext DEF Within, Owed

\* The executor spends what it owes on a write.
LEMMA BudgetExecutor ==
    ASSUME LocalInv, LocalInv', NEW r \in Recs, Within(r),
           approvals'[r] = approvals[r], faults' = faults,
           InFlight(r)' \in SUBSET InFlight(r),
           calls'[r] \in {calls[r], calls[r] + 1},
           ExecutorOwes(r), ~ExecutorOwes(r)'
    PROVE  Within(r)'
<1>1. Cardinality(InFlight(r)') <= Cardinality(InFlight(r))
  BY BudgetTypes, CountShrinks
<1> QED
  BY <1>1, BudgetTypes, BudgetTypesNext DEF Within, Owed

\* An approval pays for the request that carries it.
LEMMA BudgetApproval ==
    ASSUME LocalInv, LocalInv', NEW r \in Recs, Within(r),
           approvals'[r] = approvals[r] + 1, faults' = faults,
           calls'[r] = calls[r],
           NEW q \in Requests, InFlight(r)' \in SUBSET (InFlight(r) \cup {q}),
           ExecutorOwes(r)' => ExecutorOwes(r)
    PROVE  Within(r)'
<1>1. Cardinality(InFlight(r)') <= Cardinality(InFlight(r)) + 1
  BY BudgetTypes, CountGrows
<1> QED
  BY <1>1, BudgetTypes, BudgetTypesNext DEF Within, Owed

-----------------------------------------------------------------------------
(* What the executor owes and who is in flight, after a step.              *)

LEMMA OwesOnlyScheduled ==
    ASSUME NEW r \in Recs, worker'[Executor] = worker[Executor], due' = due,
           status'[r] = "scheduled" => status[r] = "scheduled"
    PROVE  ExecutorOwes(r)' => ExecutorOwes(r)
  BY DEF ExecutorOwes, ExecutorSpent

LEMMA SameWorkers ==
    ASSUME NEW r \in Recs, UNCHANGED worker
    PROVE  InFlight(r)' \in SUBSET InFlight(r)
  BY DEF InFlight

LEMMA OthersInFlight ==
    ASSUME LocalInv, NEW r \in Recs, NEW w \in Workers, NEW x,
           worker' = [worker EXCEPT ![w] = x]
    PROVE  /\ InFlight(r)' \in SUBSET (InFlight(r) \cup {w})
           /\ w \notin Requests => InFlight(r)' \in SUBSET InFlight(r)
           /\ ~(x.rec = r /\ x.pc \in {"routing", "execute", "remediating"})
                 => InFlight(r)' \in SUBSET (InFlight(r) \ {w})
           /\ w # Executor => worker'[Executor] = worker[Executor]
<1>1. \A v \in Workers : worker'[v] = IF v = w THEN x ELSE worker[v]
  BY DEF LocalInv, TypeOK
<1> QED
  BY <1>1, WorkerFacts DEF InFlight

LEMMA IdleNotInFlight ==
    ASSUME LocalInv, NEW r \in Recs, NEW w \in Workers,
           worker' = [worker EXCEPT ![w] = IdleWorker]
    PROVE  InFlight(r)' \in SUBSET (InFlight(r) \ {w})
<1>1. IdleWorker.pc = "idle"
  BY DEF IdleWorker
<1> QED
  BY <1>1, OthersInFlight

\* A step that only changes the tables, and schedules nothing.
LEMMA BudgetTables ==
    ASSUME LocalInv, LocalInv', NEW r \in Recs, Within(r),
           UNCHANGED <<worker, due, approvals, calls, faults>>,
           status'[r] = "scheduled" => status[r] = "scheduled"
    PROVE  Within(r)'
<1>1. ExecutorOwes(r)' => ExecutorOwes(r)
  BY OwesOnlyScheduled
<1>2. InFlight(r)' \in SUBSET InFlight(r)
  BY SameWorkers
<1> QED
  BY <1>1, <1>2, BudgetKept

\* A thread that was about to write has written, or has given up.
LEMMA BudgetWrite ==
    ASSUME LocalInv, LocalInv', NEW r \in Recs, Within(r), NEW w \in Workers,
           NEW x, worker' = [worker EXCEPT ![w] = x],
           x.rec = worker[w].rec,
           worker[w].pc \in {"execute", "remediating"},
           x.pc \in {"record", "finalize"},
           UNCHANGED <<due, status, approvals, faults>>,
           \/ calls'[r] = calls[r]
           \/ worker[w].rec = r /\ calls'[r] = calls[r] + 1
    PROVE  Within(r)'
<1>1. InFlight(r)' \in SUBSET (InFlight(r) \ {w})
  BY OthersInFlight
<1>2. CASE w # Executor
  <2>1. ExecutorOwes(r)' => ExecutorOwes(r)
    BY <1>2, OthersInFlight, OwesOnlyScheduled
  <2>2. CASE worker[w].rec = r
    <3>1. w \in InFlight(r)
      BY <1>2, <2>2, WorkerFacts DEF InFlight
    <3> QED
      BY <1>1, <2>1, <3>1, BudgetRequest
  <2>3. CASE worker[w].rec # r
    BY <1>1, <2>1, <2>3, BudgetKept
  <2> QED
    BY <2>2, <2>3
<1>3. CASE w = Executor
  <2>1. worker'[Executor] = x
    BY <1>3 DEF LocalInv, TypeOK
  <2>2. CASE worker[w].rec = r
    <3>1. ExecutorOwes(r) /\ ~ExecutorOwes(r)'
      BY <1>3, <2>1, <2>2 DEF ExecutorOwes, ExecutorSpent
    <3> QED
      BY <1>1, <3>1, BudgetExecutor
  <2>3. CASE worker[w].rec # r
    <3>1. ExecutorOwes(r)' => ExecutorOwes(r)
      BY <1>3, <2>1, <2>3 DEF ExecutorOwes, ExecutorSpent
    <3> QED
      BY <1>1, <2>3, <3>1, BudgetKept
  <2> QED
    BY <2>2, <2>3
<1> QED
  BY <1>2, <1>3

\* A thread that keeps what it owes, or that owed nothing any more.
LEMMA BudgetGoesOn ==
    ASSUME LocalInv, LocalInv', NEW r \in Recs, Within(r), NEW w \in Workers,
           NEW x, worker' = [worker EXCEPT ![w] = x],
           x.rec = worker[w].rec,
           \/ worker[w].pc \in {"execute", "routing"}
              /\ x.pc \in {"execute", "remediating"}
           \/ worker[w].pc = "finalize" /\ x.pc = "record",
           UNCHANGED <<due, approvals, calls>>,
           faults' \in {faults, faults + 1},
           status'[r] = "scheduled" => status[r] = "scheduled"
    PROVE  Within(r)'
<1>1. CASE w # Executor
  <2>1. ExecutorOwes(r)' => ExecutorOwes(r)
    BY <1>1, OthersInFlight, OwesOnlyScheduled
  <2>2. InFlight(r)' \in SUBSET InFlight(r)
    BY <1>1, WorkerFacts, OthersInFlight DEF InFlight
  <2> QED
    BY <2>1, <2>2, BudgetKept
<1>2. CASE w = Executor
  <2>1. worker'[Executor] = x
    BY <1>2 DEF LocalInv, TypeOK
  <2>2. ExecutorOwes(r)' => ExecutorOwes(r)
    BY <1>2, <2>1 DEF ExecutorOwes, ExecutorSpent
  <2>3. InFlight(r)' \in SUBSET InFlight(r)
    BY <1>2, WorkerFacts, OthersInFlight
  <2> QED
    BY <2>2, <2>3, BudgetKept
<1> QED
  BY <1>1, <1>2

\* A request that ends without scheduling.
LEMMA BudgetRequestEnds ==
    ASSUME LocalInv, LocalInv', NEW r \in Recs, Within(r), NEW q \in Requests,
           worker' = [worker EXCEPT ![q] = IdleWorker],
           UNCHANGED <<due, approvals, calls>>,
           faults' \in {faults, faults + 1},
           status'[r] = "scheduled" => status[r] = "scheduled"
    PROVE  Within(r)'
<1>1. q \in Workers /\ q # Executor
  BY WorkerFacts
<1>2. ExecutorOwes(r)' => ExecutorOwes(r)
  BY <1>1, OthersInFlight, OwesOnlyScheduled
<1>3. InFlight(r)' \in SUBSET InFlight(r)
  BY <1>1, IdleNotInFlight
<1> QED
  BY <1>2, <1>3, BudgetKept

-----------------------------------------------------------------------------
(* The actions.                                                            *)

LEMMA SetsOther ==
    ASSUME LocalInv, NEW t \in Recs, NEW s \in Statuses \ {"scheduled"},
           SetStatus(t, s), NEW r \in Recs
    PROVE  status'[r] = "scheduled" => status[r] = "scheduled"
  BY DEF SetStatus, LocalInv, TypeOK

LEMMA BudgetApproveBegin ==
    ASSUME LocalInv, LocalInv', NEW r \in Recs, Within(r), NEW q \in Requests,
           NEW t \in Recs, ApproveBegin(q, t)
    PROVE  Within(r)'
<1> DEFINE x == [IdleWorker EXCEPT !.pc = "routing", !.rec = t,
                                   !.dry = settings.dryRun]
<1>1. q \in Workers /\ q # Executor
  BY WorkerFacts
<1>2. worker' = [worker EXCEPT ![q] = x] /\ x.rec = t
  BY DEF ApproveBegin, IdleWorker
<1> HIDE DEF x
<1>3. ExecutorOwes(r)' => ExecutorOwes(r)
  BY <1>1, <1>2, OthersInFlight, OwesOnlyScheduled DEF ApproveBegin
<1>4. CASE t = r
  <2>1. InFlight(r)' \in SUBSET (InFlight(r) \cup {q})
    BY <1>1, <1>2, OthersInFlight
  <2>2. approvals'[r] = approvals[r] + 1
    BY <1>4 DEF ApproveBegin, LocalInv, TypeOK
  <2> QED
    BY <1>3, <2>1, <2>2, BudgetApproval DEF ApproveBegin
<1>5. CASE t # r
  <2>1. InFlight(r)' \in SUBSET InFlight(r)
    BY <1>1, <1>2, <1>5, OthersInFlight
  <2>2. approvals'[r] = approvals[r]
    BY <1>5 DEF ApproveBegin, LocalInv, TypeOK
  <2> QED
    BY <1>3, <2>1, <2>2, BudgetKept DEF ApproveBegin
<1> QED
  BY <1>4, <1>5

LEMMA BudgetApprove ==
    ASSUME LocalInv, LocalInv', NEW r \in Recs, Within(r), NEW q \in Requests,
           ApproveStep(q)
    PROVE  Within(r)'
<1> DEFINE t == worker[q].rec
<1>1. q \in Workers /\ worker[q] \in WorkerRecord /\ ConsistentRecord(q, worker[q], due)
  BY WorkerFacts DEF LocalInv, TypeOK, WorkersConsistent
<1>2. ASSUME worker[q].pc \notin {"idle", "next"}
      PROVE  t \in Recs
  BY <1>1, <1>2 DEF WorkerRecord, ConsistentRecord
<1>3. CASE ApproveByPr(q)
  <2>1. status'[r] = "scheduled" => status[r] = "scheduled"
    BY <1>2, <1>3, SetsOther DEF ApproveByPr
  <2> QED
    BY <1>3, <2>1, BudgetRequestEnds DEF ApproveByPr
<1>4. CASE MarkToDo(q)
  <2>1. status'[r] = "scheduled" => status[r] = "scheduled"
    BY <1>2, <1>4, SetsOther DEF MarkToDo
  <2> QED
    BY <1>4, <2>1, BudgetRequestEnds DEF MarkToDo
<1>5. CASE Simulate(q)
  BY <1>5, BudgetRequestEnds DEF Simulate
<1>6. CASE Schedule(q)
  <2>1. CASE t = r
    <3>1. q \in InFlight(r)
      BY <1>6, <2>1 DEF Schedule, InFlight
    <3>2. InFlight(r)' \in SUBSET (InFlight(r) \ {q})
      BY <1>1, <1>6, IdleNotInFlight DEF Schedule
    <3> QED
      BY <1>6, <3>1, <3>2, BudgetRequest DEF Schedule
  <2>2. CASE t # r
    <3>1. status'[r] = status[r]
      BY <1>6, <2>2 DEF Schedule, ScheduledRow, SetStatus, LocalInv, TypeOK
    <3> QED
      BY <1>6, <3>1, BudgetRequestEnds DEF Schedule
  <2> QED
    BY <2>1, <2>2
<1>7. CASE ApproveNow(q)
  <2> DEFINE x == [worker[q] EXCEPT !.pc = "execute"]
  <2>1. worker' = [worker EXCEPT ![q] = x] /\ x.rec = t /\ x.pc = "execute"
    BY <1>1, <1>7 DEF ApproveNow, WorkerRecord
  <2> HIDE DEF x
  <2> QED
    BY <1>1, <1>7, <2>1, BudgetGoesOn DEF ApproveNow
<1>8. CASE ApproveRecord(q)
  <2>1. status'[r] = "scheduled" => status[r] = "scheduled"
    BY <1>2, <1>8, SetsOther DEF ApproveRecord
  <2> QED
    BY <1>8, <2>1, BudgetRequestEnds DEF ApproveRecord
<1> QED
  BY <1>3, <1>4, <1>5, <1>6, <1>7, <1>8 DEF ApproveStep

LEMMA BudgetExecute ==
    ASSUME LocalInv, LocalInv', NEW r \in Recs, Within(r), NEW w \in Workers,
           Execute(w) \/ RemediatorUnrecorded(w)
    PROVE  Within(r)'
<1> DEFINE t == worker[w].rec
<1>1. worker[w] \in WorkerRecord /\ ConsistentRecord(w, worker[w], due)
  BY DEF LocalInv, TypeOK, WorkersConsistent
<1>2. ASSUME worker[w].pc \notin {"idle", "next"}
      PROVE  t \in Recs
  BY <1>1, <1>2 DEF WorkerRecord, ConsistentRecord
<1>3. ASSUME Issue(t), t \in Recs
      PROVE  calls'[r] = calls[r] \/ (t = r /\ calls'[r] = calls[r] + 1)
  BY <1>3 DEF Issue, LocalInv, TypeOK
<1>4. CASE ExecuteEc2(w) \/ Refuse(w)
  <2> DEFINE x(o) == [worker[w] EXCEPT !.pc = "record", !.outcome = o]
  <2>1. \E o : worker' = [worker EXCEPT ![w] = x(o)]
    BY <1>4 DEF ExecuteEc2, Refuse, Ended
  <2>2. \A o : x(o).rec = t /\ x(o).pc = "record"
    BY <1>1 DEF WorkerRecord
  <2>3. /\ worker[w].pc = "execute"
        /\ UNCHANGED <<due, status, approvals, faults>>
        /\ UNCHANGED calls \/ Issue(t)
    BY <1>4 DEF ExecuteEc2, Refuse
  <2>4. calls'[r] = calls[r] \/ (t = r /\ calls'[r] = calls[r] + 1)
    BY <1>2, <1>3, <2>3
  <2> HIDE DEF x
  <2> QED
    BY <2>1, <2>2, <2>3, <2>4, BudgetWrite
<1>5. CASE Remediate(w)
  <2> DEFINE x == [worker[w] EXCEPT !.pc = "remediating", !.row = "pending"]
  <2>1. worker' = [worker EXCEPT ![w] = x] /\ x.rec = t /\ x.pc = "remediating"
    BY <1>1, <1>5 DEF Remediate, WorkerRecord
  <2> HIDE DEF x
  <2> QED
    BY <1>5, <2>1, BudgetGoesOn DEF Remediate
<1>6. CASE RemediatorCall(w)
  <2> DEFINE x(o) == [worker[w] EXCEPT !.pc = "finalize", !.outcome = o]
  <2>1. \E o : worker' = [worker EXCEPT ![w] = x(o)]
    BY <1>6 DEF RemediatorCall
  <2>2. \A o : x(o).rec = t /\ x(o).pc = "finalize"
    BY <1>1 DEF WorkerRecord
  <2>3. /\ worker[w].pc = "remediating"
        /\ UNCHANGED <<due, status, approvals, faults>>
        /\ Issue(t)
    BY <1>6 DEF RemediatorCall
  <2>4. calls'[r] = calls[r] \/ (t = r /\ calls'[r] = calls[r] + 1)
    BY <1>2, <1>3, <2>3
  <2> HIDE DEF x
  <2> QED
    BY <2>1, <2>2, <2>3, <2>4, BudgetWrite
<1>7. CASE RemediatorFinalize(w)
  <2> DEFINE x == [worker[w] EXCEPT !.pc = "record", !.row = "none"]
  <2>1. worker' = [worker EXCEPT ![w] = x] /\ x.rec = t /\ x.pc = "record"
    BY <1>1, <1>7 DEF RemediatorFinalize, WorkerRecord
  <2> HIDE DEF x
  <2>2. status'[r] = "scheduled" => status[r] = "scheduled"
    BY <1>2, <1>7, SetsOther DEF RemediatorFinalize
  <2> QED
    BY <1>7, <2>1, <2>2, BudgetGoesOn DEF RemediatorFinalize
<1>8. CASE RemediatorUnrecorded(w)
  <2> DEFINE x == [worker[w] EXCEPT !.pc = "record", !.row = "none",
                                    !.outcome = "failed"]
  <2>1. worker' = [worker EXCEPT ![w] = x] /\ x.rec = t /\ x.pc = "record"
    BY <1>1, <1>8 DEF RemediatorUnrecorded, WorkerRecord
  <2> HIDE DEF x
  <2> QED
    BY <1>8, <2>1, BudgetGoesOn DEF RemediatorUnrecorded
<1> QED
  BY <1>4, <1>5, <1>6, <1>7, <1>8 DEF Execute

LEMMA BudgetInterrupt ==
    ASSUME LocalInv, LocalInv', NEW r \in Recs, Within(r), NEW w \in Workers,
           Interrupt(w)
    PROVE  Within(r)'
<1>1. CASE w # Executor
  BY <1>1, WorkerFacts, BudgetRequestEnds DEF Interrupt
<1>2. CASE w = Executor
  <2>1. InFlight(r)' \in SUBSET InFlight(r)
    BY IdleNotInFlight DEF Interrupt
  <2> QED
    BY <2>1, BudgetKept DEF Interrupt
<1> QED
  BY <1>1, <1>2

LEMMA BudgetExecutorStep ==
    ASSUME LocalInv, LocalInv', NEW r \in Recs, Within(r), ExecutorStep
    PROVE  Within(r)'
<1> DEFINE e == worker[Executor]
<1>1. /\ Executor \in Workers /\ Executor \notin Requests
      /\ e \in WorkerRecord /\ ConsistentRecord(Executor, e, due)
  BY WorkerFacts, ConstantsAssumption DEF LocalInv, TypeOK, WorkersConsistent
<1>2. ASSUME NEW x, worker' = [worker EXCEPT ![Executor] = x]
      PROVE  /\ worker'[Executor] = x
             /\ InFlight(r)' \in SUBSET InFlight(r)
  <2>1. worker'[Executor] = x
    BY <1>1, <1>2 DEF LocalInv, TypeOK
  <2> QED
    BY <1>1, <1>2, <2>1, OthersInFlight
<1>3. CASE ExecutorSelect
  <2> DEFINE x == [IdleWorker EXCEPT !.pc = "next", !.dry = settings.dryRun]
  <2>1. worker' = [worker EXCEPT ![Executor] = x]
    BY <1>3 DEF ExecutorSelect
  <2>2. r \in due' => status[r] = "scheduled"
    BY <1>3 DEF ExecutorSelect, DueRows
  <2>3. x.rec = NoRec
    BY DEF IdleWorker
  <2> HIDE DEF x
  <2>4. worker'[Executor] = x /\ InFlight(r)' \in SUBSET InFlight(r)
    BY <1>2, <2>1
  <2>5. e.rec # r
    BY <1>1, <1>3, ConstantsAssumption DEF ExecutorSelect, ConsistentRecord
  <2>6. ExecutorOwes(r)' => ExecutorOwes(r)
    BY <1>3, <2>2, <2>3, <2>4, <2>5, ConstantsAssumption
    DEF ExecutorSelect, ExecutorOwes, ExecutorSpent
  <2> QED
    BY <1>3, <2>4, <2>6, BudgetKept DEF ExecutorSelect
<1>4. ASSUME NEW t \in Recs, ExecutorRow(t)
      PROVE  Within(r)'
  <2>1. PICK x : worker' = [worker EXCEPT ![Executor] = x] /\ x.rec = t
    <3> DEFINE y == [e EXCEPT !.pc = "execute", !.rec = t]
               z(o) == [e EXCEPT !.pc = "record", !.rec = t, !.outcome = o]
    <3>1. \/ worker' = [worker EXCEPT ![Executor] = y]
          \/ \E o : worker' = [worker EXCEPT ![Executor] = z(o)]
      BY <1>4 DEF ExecutorRow
    <3>2. y.rec = t /\ \A o : z(o).rec = t
      BY <1>1 DEF WorkerRecord
    <3> HIDE DEF y, z
    <3> QED
      BY <3>1, <3>2
  <2>2. worker'[Executor] = x /\ InFlight(r)' \in SUBSET InFlight(r)
    BY <1>2, <2>1
  <2>3. e.rec # r /\ t \in due /\ due' \subseteq due /\ status' = status
    BY <1>1, <1>4, ConstantsAssumption DEF ExecutorRow, ConsistentRecord
  <2>4. ExecutorOwes(r)' => ExecutorOwes(r)
    BY <2>1, <2>2, <2>3 DEF ExecutorOwes, ExecutorSpent
  <2> QED
    BY <1>4, <2>2, <2>4, BudgetKept DEF ExecutorRow
<1>5. CASE ExecutorRecord
  <2> DEFINE x == [e EXCEPT !.pc = "next", !.rec = NoRec, !.outcome = "none"]
  <2>1. worker' = [worker EXCEPT ![Executor] = x] /\ x.rec = NoRec
    BY <1>1, <1>5 DEF ExecutorRecord, WorkerRecord
  <2> HIDE DEF x
  <2>2. worker'[Executor] = x /\ InFlight(r)' \in SUBSET InFlight(r)
    BY <1>2, <2>1
  <2>3. e.rec \in Recs /\ e.rec \notin due /\ due' = due
    BY <1>1, <1>5 DEF ExecutorRecord, WorkerRecord, ConsistentRecord
  <2>4. status'[r] = "scheduled" => e.rec # r /\ status[r] = "scheduled"
    BY <1>5, <2>3
    DEF ExecutorRecord, GraceExecutionStatus, SetStatus, LocalInv, TypeOK
  <2>5. ExecutorOwes(r)' => ExecutorOwes(r)
    BY <2>1, <2>2, <2>3, <2>4, ConstantsAssumption DEF ExecutorOwes, ExecutorSpent
  <2> QED
    BY <1>5, <2>2, <2>5, BudgetKept DEF ExecutorRecord
<1>6. CASE ExecutorDone
  <2>1. worker' = [worker EXCEPT ![Executor] = IdleWorker] /\ IdleWorker.rec = NoRec
    BY <1>6 DEF ExecutorDone, IdleWorker
  <2>2. worker'[Executor] = IdleWorker /\ InFlight(r)' \in SUBSET InFlight(r)
    BY <1>2, <2>1
  <2>3. e.rec # r
    BY <1>1, <1>6, ConstantsAssumption DEF ExecutorDone, ConsistentRecord
  <2>4. ExecutorOwes(r)' => ExecutorOwes(r)
    BY <1>6, <2>1, <2>2, <2>3, ConstantsAssumption
    DEF ExecutorDone, ExecutorOwes, ExecutorSpent
  <2> QED
    BY <1>6, <2>2, <2>4, BudgetKept DEF ExecutorDone
<1> QED
  BY <1>3, <1>4, <1>5, <1>6 DEF ExecutorStep

LEMMA BudgetSync ==
    ASSUME LocalInv, LocalInv', NEW r \in Recs, Within(r), NEW s \in Syncs,
           SyncBegin(s) \/ SyncStep(s)
    PROVE  Within(r)'
<1>1. \A t : ResolvedStatus(t) \in Statuses \ {"scheduled"}
  BY DEF ResolvedStatus
<1>2. CASE SyncBegin(s)
  BY <1>2, BudgetTables DEF SyncBegin, SyncPass
<1>3. ASSUME NEW t \in Recs, SyncResolveGone(s, t)
      PROVE  Within(r)'
  <2>1. status'[r] = "scheduled" => status[r] = "scheduled"
    BY <1>1, <1>3, SetsOther DEF SyncResolveGone
  <2> QED
    BY <1>3, <2>1, BudgetTables DEF SyncResolveGone
<1>4. ASSUME NEW t \in Recs, SyncReadRow(s, t)
      PROVE  Within(r)'
  BY <1>4, BudgetTables DEF SyncReadRow
<1>5. CASE SyncUpdateRow(s)
  <2>1. sync[s].row \in Recs
    BY <1>5 DEF SyncUpdateRow, SyncRecord, LocalInv, TypeOK
  <2>2. status'[r] = "scheduled" => status[r] = "scheduled"
    BY <1>1, <1>5, <2>1, SetsOther DEF SyncUpdateRow
  <2> QED
    BY <1>5, <2>2, BudgetTables DEF SyncUpdateRow
<1> QED
  BY <1>2, <1>3, <1>4, <1>5 DEF SyncStep

LEMMA BudgetElsewhere ==
    ASSUME LocalInv, LocalInv', NEW r \in Recs, Within(r), NEW t \in Recs,
           Click(t) \/ GraceElapses(t) \/ Elsewhere(t)
    PROVE  Within(r)'
<1>1. CASE Reject(t) \/ Dismiss(t) \/ Restore(t)
  <2>1. status'[r] = "scheduled" => status[r] = "scheduled"
    BY <1>1, SetsOther DEF Reject, Dismiss, Restore
  <2> QED
    BY <1>1, <2>1, BudgetTables DEF Reject, Dismiss, Restore
<1>2. CASE Cancel(t)
  <2>1. status'[r] = "scheduled" => status[r] = "scheduled"
    BY <1>2, SetsOther DEF Cancel
  <2>2. ASSUME NEW w \in Workers
        PROVE  worker'[w].rec = worker[w].rec /\ worker'[w].pc = worker[w].pc
    BY <1>2 DEF Cancel, WorkerRecord, LocalInv, TypeOK
  <2>3. InFlight(r)' \in SUBSET InFlight(r)
    BY <2>2, WorkerFacts DEF InFlight
  <2>4. ExecutorOwes(r)' => ExecutorOwes(r)
    BY <1>2, <2>1, <2>2, WorkerFacts DEF Cancel, ExecutorOwes, ExecutorSpent
  <2> QED
    BY <1>2, <2>3, <2>4, BudgetKept DEF Cancel
<1>3. CASE GraceElapses(t)
  BY <1>3, BudgetTables DEF GraceElapses
<1>4. CASE PrSync(t) \/ DetectorRevives(t) \/ DetectorRetires(t)
  <2>1. status'[r] = "scheduled" => status[r] = "scheduled"
    BY <1>4, SetsOther DEF PrSync, DetectorRevives, DetectorRetires
  <2> QED
    BY <1>4, <2>1, BudgetTables DEF PrSync, DetectorRevives, DetectorRetires
<1>5. CASE OwnerActs(t)
  BY <1>5, BudgetTables DEF OwnerActs
<1> QED
  BY <1>1, <1>2, <1>3, <1>4, <1>5 DEF Click, Elsewhere

\* Two approvals that race, an approval cancelled and given again, a row the
\* executor holds since before it was cancelled: none of them writes to AWS
\* more often than the user approved, but for a repetition after a crash.
THEOREM WritesAreApproved == Spec => []CallsWithinApprovals
<1> DEFINE Inv == \A r \in Recs : Within(r)
<1>1. Init => Inv
  <2> SUFFICES ASSUME Init, NEW r \in Recs
               PROVE  Within(r)
    OBVIOUS
  <2>1. InFlight(r) = {}
    BY WorkerFacts DEF Init, InFlight, IdleWorker
  <2>2. ~ExecutorOwes(r)
    BY WorkerFacts, ConstantsAssumption DEF Init, ExecutorOwes, IdleWorker
  <2> QED
    BY <2>1, <2>2, FS_EmptySet DEF Init, Within, Owed
<1>2. LocalInv /\ Inv /\ [Next]_vars => Inv'
  <2> SUFFICES ASSUME LocalInv, Inv, [Next]_vars, NEW r \in Recs
               PROVE  Within(r)'
    OBVIOUS
  <2>1. LocalInv' /\ Within(r)
    BY NextLocal
  <2>2. CASE SaveSettings \/ UNCHANGED vars
    BY <2>1, <2>2, BudgetTables DEF SaveSettings, vars
  <2>3. CASE Next
    BY <2>1, <2>2, <2>3, BudgetElsewhere, BudgetApprove, BudgetApproveBegin,
       BudgetExecute, BudgetInterrupt, BudgetExecutorStep, BudgetSync
    DEF Next
  <2> QED
    BY <2>2, <2>3
<1>3. Inv => CallsWithinApprovals
  BY DEF Within, CallsWithinApprovals
<1> QED
  BY <1>1, <1>2, <1>3, InitLocal, NextLocal, PTL DEF Spec

-----------------------------------------------------------------------------
(* The lifecycle implements ApprovalLedger: each step is one step of the   *)
(* ledger on one recommendation, or changes no credit.                     *)

LedgerStep == Ledger!Next \/ UNCHANGED Ledger!ledger

\* No credit changes but that of t.
OthersKept(t) == \A s \in Recs \ {t} : Owed(s)' = Owed(s)

LEMMA OwedType ==
    ASSUME LocalInv
    PROVE  \A r \in Recs : Owed(r) \in Nat
  BY BudgetTypes DEF Owed

LEMMA OwedTypeNext ==
    ASSUME LocalInv'
    PROVE  \A r \in Recs : Owed(r)' \in Nat
  BY BudgetTypesNext DEF Owed

LEMMA LedgerLapses ==
    ASSUME LocalInv, LocalInv', NEW t \in Recs, Owed(t)' <= Owed(t),
           OthersKept(t), UNCHANGED <<approvals, calls, faults>>
    PROVE  LedgerStep
<1>1. Owed(t) \in Nat /\ Owed(t)' \in Nat
  BY OwedType, OwedTypeNext
<1>2. CASE Owed(t)' = Owed(t)
  <2>1. \A s \in Recs : Owed(s)' = Owed(s)
    BY <1>2 DEF OthersKept
  <2> QED
    BY <2>1 DEF LedgerStep, Ledger!ledger
<1>3. CASE Owed(t)' # Owed(t)
  <2>1. Owed(t)' \in 0..(Owed(t) - 1)
    BY <1>1, <1>3
  <2>2. [r \in Recs |-> Owed(r)'] =
           [[r \in Recs |-> Owed(r)] EXCEPT ![t] = Owed(t)']
    BY DEF OthersKept
  <2>3. Ledger!Lapse(t)
    BY <2>1, <2>2 DEF Ledger!Lapse
  <2> QED
    BY <2>3 DEF LedgerStep, Ledger!Next
<1> QED
  BY <1>2, <1>3

LEMMA LedgerWrites ==
    ASSUME LocalInv, LocalInv', NEW t \in Recs, Owed(t)' + 1 = Owed(t),
           OthersKept(t), Issue(t), UNCHANGED <<approvals, faults>>
    PROVE  LedgerStep
<1>1. Owed(t) \in Nat /\ Owed(t)' \in Nat
  BY OwedType, OwedTypeNext
<1>2. Owed(t) > 0 /\ Owed(t)' = Owed(t) - 1
  BY <1>1
<1>3. [r \in Recs |-> Owed(r)'] =
         [[r \in Recs |-> Owed(r)] EXCEPT ![t] = @ - 1]
  BY <1>2 DEF OthersKept
<1>4. Ledger!Write(t)
  BY <1>2, <1>3 DEF Ledger!Write, Issue
<1> QED
  BY <1>4 DEF LedgerStep, Ledger!Next

LEMMA LedgerApproves ==
    ASSUME NEW t \in Recs, Owed(t)' = Owed(t) + 1, OthersKept(t),
           approvals' = [approvals EXCEPT ![t] = @ + 1],
           UNCHANGED <<calls, faults>>
    PROVE  LedgerStep
<1>1. [r \in Recs |-> Owed(r)'] =
         [[r \in Recs |-> Owed(r)] EXCEPT ![t] = @ + 1]
  BY DEF OthersKept
<1>2. Ledger!Approve(t)
  BY <1>1 DEF Ledger!Approve
<1> QED
  BY <1>2 DEF LedgerStep, Ledger!Next

LEMMA LedgerDies ==
    ASSUME LocalInv', NEW t \in Recs, Owed(t)' <= Owed(t) + 1,
           \A s \in Recs \ {t} : Owed(s)' <= Owed(s),
           faults' = faults + 1, UNCHANGED <<approvals, calls>>
    PROVE  LedgerStep
<1>1. [r \in Recs |-> Owed(r)'] \in [Recs -> Nat]
  BY OwedTypeNext
<1>2. Ledger!Die(t)
  BY <1>1 DEF Ledger!Die
<1> QED
  BY <1>2 DEF LedgerStep, Ledger!Next

-----------------------------------------------------------------------------
(* How a step changes what is owed.                                        *)

LEMMA OwedShrinks ==
    ASSUME LocalInv, LocalInv', NEW r \in Recs,
           InFlight(r)' \in SUBSET InFlight(r),
           ExecutorOwes(r)' => ExecutorOwes(r)
    PROVE  Owed(r)' <= Owed(r)
<1>1. Cardinality(InFlight(r)') <= Cardinality(InFlight(r))
  BY BudgetTypes, CountShrinks
<1> QED
  BY <1>1, BudgetTypes, BudgetTypesNext DEF Owed

\* A request that ends pays for whatever it leaves to the executor.
LEMMA OwedMoves ==
    ASSUME LocalInv, LocalInv', NEW r \in Recs, NEW q \in InFlight(r),
           InFlight(r)' \in SUBSET (InFlight(r) \ {q})
    PROVE  Owed(r)' <= Owed(r)
<1>1. Cardinality(InFlight(r)') + 1 <= Cardinality(InFlight(r))
  BY BudgetTypes, CountSpends
<1> QED
  BY <1>1, BudgetTypes, BudgetTypesNext DEF Owed

LEMMA OthersAfterMove ==
    ASSUME LocalInv, NEW t \in Recs, NEW w \in Workers, NEW x,
           worker' = [worker EXCEPT ![w] = x],
           worker[w].rec \in {t, NoRec}, x.rec \in {t, NoRec},
           \A s \in Recs \ {t} : status'[s] = status[s],
           \A s \in Recs \ {t} : s \in due' <=> s \in due
    PROVE  OthersKept(t)
<1> SUFFICES ASSUME NEW s \in Recs \ {t}
             PROVE  Owed(s)' = Owed(s)
  BY DEF OthersKept
<1>1. \A v \in Workers : worker'[v] = IF v = w THEN x ELSE worker[v]
  BY DEF LocalInv, TypeOK
<1>2. s # NoRec
  BY ConstantsAssumption
<1>3. InFlight(s)' = InFlight(s)
  BY <1>1, <1>2, WorkerFacts DEF InFlight
<1>4. ExecutorOwes(s)' <=> ExecutorOwes(s)
  BY <1>1, <1>2, WorkerFacts DEF ExecutorOwes, ExecutorSpent
<1> QED
  BY <1>3, <1>4 DEF Owed

\* Only t may change its status, and it is not scheduled.
OnlyLeaves(t) ==
    /\ \A r \in Recs \ {t} : status'[r] = status[r]
    /\ status'[t] = "scheduled" => status[t] = "scheduled"

LEMMA SetLeaves ==
    ASSUME LocalInv, NEW t \in Recs,
           \/ \E s \in Statuses \ {"scheduled"} : SetStatus(t, s)
           \/ UNCHANGED status
    PROVE  OnlyLeaves(t)
  BY DEF SetStatus, OnlyLeaves, LocalInv, TypeOK

\* A step that only changes the status of t, and schedules nothing.
LEMMA LedgerTables ==
    ASSUME LocalInv, LocalInv', NEW t \in Recs,
           OnlyLeaves(t), UNCHANGED <<worker, due, approvals, calls, faults>>
    PROVE  LedgerStep
<1>1. InFlight(t)' \in SUBSET InFlight(t)
  BY SameWorkers
<1>2. ExecutorOwes(t)' => ExecutorOwes(t)
  BY OwesOnlyScheduled DEF OnlyLeaves
<1>3. Owed(t)' <= Owed(t)
  BY <1>1, <1>2, OwedShrinks
<1>4. OthersKept(t)
  BY DEF OnlyLeaves, OthersKept, Owed, InFlight, ExecutorOwes, ExecutorSpent
<1> QED
  BY <1>3, <1>4, LedgerLapses

LEMMA LedgerStutters ==
    ASSUME UNCHANGED <<status, worker, due, approvals, calls, faults>>
    PROVE  LedgerStep
<1>1. \A r \in Recs : Owed(r)' = Owed(r)
  BY DEF Owed, InFlight, ExecutorOwes, ExecutorSpent
<1> QED
  BY <1>1 DEF LedgerStep, Ledger!ledger

\* A request that gives t up without scheduling it.
LEMMA LedgerRequestEnds ==
    ASSUME LocalInv, LocalInv', NEW q \in Requests, NEW t \in Recs,
           worker[q].rec = t, worker' = [worker EXCEPT ![q] = IdleWorker],
           OnlyLeaves(t), UNCHANGED <<due, approvals, calls, faults>>
    PROVE  LedgerStep
<1>1. q \in Workers /\ q # Executor /\ IdleWorker.rec = NoRec
  BY WorkerFacts DEF IdleWorker
<1>2. OthersKept(t)
  BY <1>1, OthersAfterMove DEF OnlyLeaves
<1>3. ExecutorOwes(t)' => ExecutorOwes(t)
  BY <1>1, OthersInFlight, OwesOnlyScheduled DEF OnlyLeaves
<1>4. InFlight(t)' \in SUBSET InFlight(t)
  BY <1>1, IdleNotInFlight
<1>5. Owed(t)' <= Owed(t)
  BY <1>3, <1>4, OwedShrinks
<1> QED
  BY <1>2, <1>5, LedgerLapses

\* A thread that goes on with t and owes no more than before.
LEMMA LedgerGoesOn ==
    ASSUME LocalInv, LocalInv', NEW w \in Workers, NEW t \in Recs,
           worker[w].rec = t,
           NEW x, worker' = [worker EXCEPT ![w] = x], x.rec = t,
           \/ worker[w].pc \in {"routing", "execute"}
              /\ x.pc \in {"execute", "remediating", "record"}
           \/ worker[w].pc \in {"remediating", "finalize"} /\ x.pc = "record",
           OnlyLeaves(t), UNCHANGED <<due, approvals, calls>>
    PROVE  OthersKept(t) /\ Owed(t)' <= Owed(t)
<1>2. OthersKept(t)
  BY OthersAfterMove DEF OnlyLeaves
<1>3. status'[t] = "scheduled" => status[t] = "scheduled"
  BY DEF OnlyLeaves
<1>4. worker'[w] = x
  BY DEF LocalInv, TypeOK
<1>5. InFlight(t)' \in SUBSET InFlight(t)
  BY WorkerFacts, OthersInFlight DEF InFlight
<1>6. ExecutorOwes(t)' => ExecutorOwes(t)
  <2>1. CASE w = Executor
    BY <1>3, <1>4, <2>1 DEF ExecutorOwes, ExecutorSpent
  <2>2. CASE w # Executor
    BY <1>3, <2>2, OthersInFlight, OwesOnlyScheduled
  <2> QED
    BY <2>1, <2>2
<1>7. Owed(t)' <= Owed(t)
  BY <1>5, <1>6, OwedShrinks
<1> QED
  BY <1>2, <1>7

\* A thread that issues the write of t owes exactly one less.
LEMMA LedgerCalls ==
    ASSUME LocalInv, LocalInv', NEW w \in Workers, NEW t \in Recs,
           worker[w].rec = t,
           NEW x, worker' = [worker EXCEPT ![w] = x], x.rec = t,
           worker[w].pc \in {"execute", "remediating"},
           x.pc \in {"finalize", "record"},
           Issue(t), UNCHANGED <<status, due, approvals, faults>>
    PROVE  LedgerStep
<1>1. OthersKept(t)
  BY OthersAfterMove
<1>2. \A v \in Workers : worker'[v] = IF v = w THEN x ELSE worker[v]
  BY DEF LocalInv, TypeOK
<1>3. CASE w = Executor
  <2>1. InFlight(t)' = InFlight(t)
    BY <1>2, <1>3, WorkerFacts DEF InFlight
  <2>2. ExecutorOwes(t) /\ ~ExecutorOwes(t)'
    BY <1>2, <1>3 DEF ExecutorOwes, ExecutorSpent
  <2>3. Cardinality(InFlight(t)) \in Nat
    BY BudgetTypes
  <2>4. Owed(t)' + 1 = Owed(t)
    BY <2>1, <2>2, <2>3 DEF Owed
  <2> QED
    BY <1>1, <2>4, LedgerWrites
<1>4. CASE w # Executor
  <2>1. w \in InFlight(t)
    BY <1>4, WorkerFacts DEF InFlight
  <2>2. InFlight(t)' = InFlight(t) \ {w}
    BY <1>2, <1>4, WorkerFacts DEF InFlight
  <2>3. ExecutorOwes(t)' <=> ExecutorOwes(t)
    BY <1>2, <1>4, WorkerFacts DEF ExecutorOwes, ExecutorSpent
  <2>4. /\ Cardinality(InFlight(t)) \in Nat
        /\ IsFiniteSet(InFlight(t))
    BY BudgetTypes, CountType
  <2>5. /\ Cardinality(InFlight(t)') = Cardinality(InFlight(t)) - 1
        /\ Cardinality(InFlight(t)') \in Nat
    BY <2>1, <2>2, <2>4, FS_RemoveElement, BudgetTypesNext
  <2>6. Owed(t)' + 1 = Owed(t)
    BY <2>3, <2>4, <2>5 DEF Owed
  <2> QED
    BY <1>1, <2>6, LedgerWrites
<1> QED
  BY <1>3, <1>4

-----------------------------------------------------------------------------
(* The actions, as steps of the ledger.                                    *)

LEMMA ApproveBeginOpens ==
    ASSUME LocalInv, LocalInv', NEW q \in Requests, NEW t \in Recs,
           ApproveBegin(q, t)
    PROVE  LedgerStep
<1> DEFINE x == [IdleWorker EXCEPT !.pc = "routing", !.rec = t,
                                   !.dry = settings.dryRun]
<1>1. q \in Workers /\ q # Executor /\ ConsistentRecord(q, worker[q], due)
  BY WorkerFacts DEF LocalInv, WorkersConsistent
<1>2. worker' = [worker EXCEPT ![q] = x] /\ x.rec = t /\ x.pc = "routing"
  BY DEF ApproveBegin, IdleWorker
<1> HIDE DEF x
<1>3. worker[q].pc = "idle" /\ worker[q].rec = NoRec
  BY <1>1 DEF ApproveBegin, ConsistentRecord
<1>4. OthersKept(t)
  BY <1>1, <1>2, <1>3, OthersAfterMove DEF ApproveBegin
<1>5. \A v \in Workers : worker'[v] = IF v = q THEN x ELSE worker[v]
  BY <1>2 DEF LocalInv, TypeOK
<1>6. InFlight(t)' = InFlight(t) \cup {q} /\ q \notin InFlight(t)
  BY <1>1, <1>2, <1>3, <1>5, WorkerFacts DEF InFlight
<1>7. ExecutorOwes(t)' <=> ExecutorOwes(t)
  BY <1>1, <1>5, WorkerFacts DEF ApproveBegin, ExecutorOwes, ExecutorSpent
<1>8. /\ Cardinality(InFlight(t)) \in Nat
      /\ Cardinality(InFlight(t)') = Cardinality(InFlight(t)) + 1
  BY <1>6, BudgetTypes, CountType, FS_AddElement
<1>9. Owed(t)' = Owed(t) + 1
  BY <1>7, <1>8 DEF Owed
<1> QED
  BY <1>4, <1>9, LedgerApproves DEF ApproveBegin

LEMMA ApproveSpends ==
    ASSUME LocalInv, LocalInv', NEW q \in Requests, ApproveStep(q)
    PROVE  LedgerStep
<1>1. q \in Workers /\ worker[q] \in WorkerRecord /\ ConsistentRecord(q, worker[q], due)
  BY WorkerFacts DEF LocalInv, TypeOK, WorkersConsistent
<1>2. PICK t \in Recs : worker[q].rec = t
  BY <1>1 DEF ApproveStep, ApproveByPr, MarkToDo, Simulate, Schedule, ApproveNow,
              ApproveRecord, WorkerRecord, ConsistentRecord
<1>3. CASE ApproveByPr(q) \/ MarkToDo(q) \/ Simulate(q) \/ ApproveRecord(q)
  <2>1. OnlyLeaves(t)
    BY <1>2, <1>3, SetLeaves DEF ApproveByPr, MarkToDo, Simulate, ApproveRecord
  <2>2. /\ worker' = [worker EXCEPT ![q] = IdleWorker]
        /\ UNCHANGED <<due, approvals, calls, faults>>
    BY <1>3 DEF ApproveByPr, MarkToDo, Simulate, ApproveRecord
  <2> QED
    BY <1>2, <2>1, <2>2, LedgerRequestEnds
<1>4. CASE Schedule(q)
  <2>1. q \in InFlight(t)
    BY <1>2, <1>4 DEF Schedule, InFlight
  <2>2. InFlight(t)' \in SUBSET (InFlight(t) \ {q})
    BY <1>1, <1>2, <1>4, IdleNotInFlight DEF Schedule
  <2>3. Owed(t)' <= Owed(t)
    BY <1>2, <2>1, <2>2, OwedMoves
  <2>4. \A r \in Recs \ {t} : status'[r] = status[r]
    BY <1>2, <1>4 DEF Schedule, ScheduledRow, SetStatus, LocalInv, TypeOK
  <2>5. IdleWorker.rec = NoRec
    BY DEF IdleWorker
  <2>6. OthersKept(t)
    BY <1>1, <1>2, <1>4, <2>4, <2>5, OthersAfterMove DEF Schedule
  <2> QED
    BY <1>2, <1>4, <2>3, <2>6, LedgerLapses DEF Schedule
<1>5. CASE ApproveNow(q)
  <2> DEFINE x == [worker[q] EXCEPT !.pc = "execute"]
  <2>1. worker' = [worker EXCEPT ![q] = x] /\ x.rec = t /\ x.pc = "execute"
    BY <1>1, <1>2, <1>5 DEF ApproveNow, WorkerRecord
  <2> HIDE DEF x
  <2>2. /\ UNCHANGED <<due, approvals, calls, faults>> /\ OnlyLeaves(t)
        /\ worker[q].pc = "routing"
    BY <1>5, SetLeaves DEF ApproveNow
  <2>3. OthersKept(t) /\ Owed(t)' <= Owed(t)
    BY <1>1, <1>2, <2>1, <2>2, LedgerGoesOn
  <2> QED
    BY <1>2, <2>2, <2>3, LedgerLapses
<1> QED
  BY <1>3, <1>4, <1>5 DEF ApproveStep

LEMMA ExecutionSpends ==
    ASSUME LocalInv, LocalInv', NEW w \in Workers,
           Execute(w) \/ RemediatorUnrecorded(w)
    PROVE  LedgerStep
<1>1. worker[w] \in WorkerRecord /\ ConsistentRecord(w, worker[w], due)
  BY DEF LocalInv, TypeOK, WorkersConsistent
<1>2. PICK t \in Recs : worker[w].rec = t
  BY <1>1 DEF Execute, ExecuteEc2, Refuse, Remediate, RemediatorCall,
              RemediatorFinalize, RemediatorUnrecorded, WorkerRecord,
              ConsistentRecord
<1>3. ASSUME NEW x, worker' = [worker EXCEPT ![w] = x], x.rec = t,
             \/ worker[w].pc = "execute" /\ x.pc \in {"remediating", "record"}
             \/ worker[w].pc = "finalize" /\ x.pc = "record",
             OnlyLeaves(t), UNCHANGED <<due, approvals, calls, faults>>
      PROVE  LedgerStep
  <2>1. OthersKept(t) /\ Owed(t)' <= Owed(t)
    BY <1>2, <1>3, LedgerGoesOn
  <2> QED
    BY <1>2, <1>3, <2>1, LedgerLapses
<1>4. CASE ExecuteEc2(w) \/ Refuse(w)
  <2> DEFINE x(o) == [worker[w] EXCEPT !.pc = "record", !.outcome = o]
  <2>1. PICK o : worker' = [worker EXCEPT ![w] = x(o)]
    BY <1>4 DEF ExecuteEc2, Refuse, Ended
  <2>2. x(o).rec = t /\ x(o).pc = "record"
    BY <1>1, <1>2 DEF WorkerRecord
  <2> HIDE DEF x
  <2>3. /\ worker[w].pc = "execute" /\ UNCHANGED <<status, due, approvals, faults>>
        /\ UNCHANGED calls \/ Issue(t)
    BY <1>2, <1>4 DEF ExecuteEc2, Refuse
  <2>4. CASE Issue(t)
    BY <1>2, <2>1, <2>2, <2>3, <2>4, LedgerCalls
  <2>5. CASE UNCHANGED calls
    <3>1. OnlyLeaves(t)
      BY <2>3, SetLeaves
    <3> QED
      BY <1>3, <2>1, <2>2, <2>3, <2>5, <3>1
  <2> QED
    BY <2>3, <2>4, <2>5
<1>5. CASE Remediate(w)
  <2> DEFINE x == [worker[w] EXCEPT !.pc = "remediating", !.row = "pending"]
  <2>1. worker' = [worker EXCEPT ![w] = x] /\ x.rec = t /\ x.pc = "remediating"
    BY <1>1, <1>2, <1>5 DEF Remediate, WorkerRecord
  <2> HIDE DEF x
  <2>2. /\ UNCHANGED <<due, approvals, calls, faults>> /\ OnlyLeaves(t)
        /\ worker[w].pc = "execute"
    BY <1>5, SetLeaves DEF Remediate
  <2> QED
    BY <1>3, <2>1, <2>2
<1>6. CASE RemediatorCall(w)
  <2> DEFINE x(o) == [worker[w] EXCEPT !.pc = "finalize", !.outcome = o]
  <2>1. PICK o : worker' = [worker EXCEPT ![w] = x(o)]
    BY <1>6 DEF RemediatorCall
  <2>2. x(o).rec = t /\ x(o).pc = "finalize"
    BY <1>1, <1>2 DEF WorkerRecord
  <2> HIDE DEF x
  <2>3. /\ worker[w].pc = "remediating" /\ Issue(t)
        /\ UNCHANGED <<status, due, approvals, faults>>
    BY <1>2, <1>6 DEF RemediatorCall
  <2> QED
    BY <1>2, <2>1, <2>2, <2>3, LedgerCalls
<1>7. CASE RemediatorFinalize(w)
  <2> DEFINE x == [worker[w] EXCEPT !.pc = "record", !.row = "none"]
  <2>1. worker' = [worker EXCEPT ![w] = x] /\ x.rec = t /\ x.pc = "record"
    BY <1>1, <1>2, <1>7 DEF RemediatorFinalize, WorkerRecord
  <2> HIDE DEF x
  <2>2. OnlyLeaves(t)
    BY <1>2, <1>7, SetLeaves DEF RemediatorFinalize
  <2>3. /\ UNCHANGED <<due, approvals, calls, faults>>
        /\ worker[w].pc = "finalize"
    BY <1>7 DEF RemediatorFinalize
  <2> QED
    BY <1>3, <2>1, <2>2, <2>3
<1>8. CASE RemediatorUnrecorded(w)
  <2> DEFINE x == [worker[w] EXCEPT !.pc = "record", !.row = "none",
                                    !.outcome = "failed"]
  <2>1. worker' = [worker EXCEPT ![w] = x] /\ x.rec = t /\ x.pc = "record"
    BY <1>1, <1>2, <1>8 DEF RemediatorUnrecorded, WorkerRecord
  <2> HIDE DEF x
  <2>2. /\ worker[w].pc = "finalize" /\ faults' = faults + 1
        /\ UNCHANGED <<due, approvals, calls>> /\ OnlyLeaves(t)
    BY <1>8, SetLeaves DEF RemediatorUnrecorded
  <2>3. OthersKept(t) /\ Owed(t)' <= Owed(t)
    BY <1>2, <2>1, <2>2, LedgerGoesOn
  <2>4. \A r \in Recs : Owed(r)' <= Owed(r)
    BY <1>2, <2>3, OwedType DEF OthersKept
  <2>5. Owed(t)' <= Owed(t) + 1
    BY <1>2, <2>4, OwedType, OwedTypeNext
  <2> QED
    BY <1>2, <2>2, <2>4, <2>5, LedgerDies
<1> QED
  BY <1>4, <1>5, <1>6, <1>7, <1>8 DEF Execute

\* Between two runs nothing is selected; a run has selected something.
RunSelected ==
    /\ worker[Executor].pc = "idle" => due = {}
    /\ worker[Executor].pc # "idle" => Recs # {}

LEMMA ExecutorSpends ==
    ASSUME LocalInv, LocalInv', RunSelected, ExecutorStep
    PROVE  LedgerStep
<1> DEFINE e == worker[Executor]
<1>1. /\ Executor \in Workers /\ Executor \notin Requests
      /\ e \in WorkerRecord /\ ConsistentRecord(Executor, e, due)
  BY WorkerFacts, ConstantsAssumption DEF LocalInv, TypeOK, WorkersConsistent
<1>2. ASSUME NEW x, worker' = [worker EXCEPT ![Executor] = x]
      PROVE  worker'[Executor] = x /\ \A r \in Recs : InFlight(r)' = InFlight(r)
  <2>1. \A v \in Workers : worker'[v] = IF v = Executor THEN x ELSE worker[v]
    BY <1>2 DEF LocalInv, TypeOK
  <2> QED
    BY <1>1, <2>1, WorkerFacts DEF InFlight
<1>3. UNCHANGED <<approvals, calls, faults>>
  BY DEF ExecutorStep, ExecutorSelect, ExecutorRow, ExecutorRecord, ExecutorDone
<1>4. ASSUME \A r \in Recs : InFlight(r)' = InFlight(r),
             \A r \in Recs : ExecutorOwes(r)' <=> ExecutorOwes(r)
      PROVE  LedgerStep
  <2>1. \A r \in Recs : Owed(r)' = Owed(r)
    BY <1>4 DEF Owed
  <2> QED
    BY <1>3, <2>1 DEF LedgerStep, Ledger!ledger
<1>5. CASE ExecutorSelect
  <2> DEFINE x == [IdleWorker EXCEPT !.pc = "next", !.dry = settings.dryRun]
  <2>1. worker' = [worker EXCEPT ![Executor] = x]
    BY <1>5 DEF ExecutorSelect
  <2>2. x.rec = NoRec
    BY DEF IdleWorker
  <2> HIDE DEF x
  <2>3. due = {} /\ e.rec = NoRec /\ UNCHANGED status
    BY <1>1, <1>5 DEF RunSelected, ExecutorSelect, ConsistentRecord
  <2>4. \A r \in due' : status[r] = "scheduled"
    BY <1>5 DEF ExecutorSelect, DueRows
  <2>5. worker'[Executor] = x /\ \A r \in Recs : InFlight(r)' = InFlight(r)
    BY <1>2, <2>1
  <2>6. \A r \in Recs : ExecutorOwes(r)' <=> ExecutorOwes(r)
    BY <2>2, <2>3, <2>4, <2>5, ConstantsAssumption DEF ExecutorOwes, ExecutorSpent
  <2> QED
    BY <1>4, <2>5, <2>6
<1>6. ASSUME NEW t \in Recs, ExecutorRow(t)
      PROVE  LedgerStep
  <2>1. PICK x : /\ worker' = [worker EXCEPT ![Executor] = x]
                 /\ x.rec = t
    <3> DEFINE y == [e EXCEPT !.pc = "execute", !.rec = t]
               z(o) == [e EXCEPT !.pc = "record", !.rec = t, !.outcome = o]
    <3>1. \/ worker' = [worker EXCEPT ![Executor] = y]
          \/ \E o : worker' = [worker EXCEPT ![Executor] = z(o)]
      BY <1>6 DEF ExecutorRow
    <3>2. y.rec = t /\ \A o : z(o).rec = t
      BY <1>1 DEF WorkerRecord
    <3> HIDE DEF y, z
    <3> QED
      BY <3>1, <3>2
  <2>2. worker'[Executor] = x /\ \A r \in Recs : InFlight(r)' = InFlight(r)
    BY <1>2, <2>1
  <2>3. e.rec = NoRec /\ t \in due /\ due' = due \ {t} /\ status' = status
    BY <1>1, <1>6 DEF ExecutorRow, ConsistentRecord
  <2>4. OthersKept(t)
    BY <1>1, <2>1, <2>3, OthersAfterMove
  <2>5. ExecutorOwes(t)
    BY <2>3, ConstantsAssumption DEF ExecutorOwes, ExecutorSpent
  <2>6. Owed(t)' <= Owed(t)
    BY <2>2, <2>5, OwedShrinks
  <2> QED
    BY <1>3, <2>4, <2>6, LedgerLapses
<1>7. CASE ExecutorRecord
  <2> DEFINE x == [e EXCEPT !.pc = "next", !.rec = NoRec, !.outcome = "none"]
  <2>1. worker' = [worker EXCEPT ![Executor] = x] /\ x.rec = NoRec
    BY <1>1, <1>7 DEF ExecutorRecord, WorkerRecord
  <2> HIDE DEF x
  <2>2. worker'[Executor] = x /\ \A r \in Recs : InFlight(r)' = InFlight(r)
    BY <1>2, <2>1
  <2>3. PICK t \in Recs : e.rec = t
    BY <1>1, <1>7 DEF ExecutorRecord, WorkerRecord, ConsistentRecord
  <2>4. t \notin due /\ due' = due /\ e.pc = "record"
    BY <1>1, <1>7, <2>3 DEF ExecutorRecord, ConsistentRecord
  <2>5. /\ status'[t] # "scheduled"
        /\ \A r \in Recs \ {t} : status'[r] = status[r]
    BY <1>7, <2>3
    DEF ExecutorRecord, GraceExecutionStatus, SetStatus, LocalInv, TypeOK
  <2>6. \A r \in Recs : ExecutorOwes(r)' <=> ExecutorOwes(r)
    BY <2>1, <2>2, <2>3, <2>4, <2>5, ConstantsAssumption
    DEF ExecutorOwes, ExecutorSpent
  <2> QED
    BY <1>4, <2>2, <2>6
<1>8. CASE ExecutorDone
  <2>1. worker' = [worker EXCEPT ![Executor] = IdleWorker] /\ IdleWorker.rec = NoRec
    BY <1>8 DEF ExecutorDone, IdleWorker
  <2>2. worker'[Executor] = IdleWorker /\ \A r \in Recs : InFlight(r)' = InFlight(r)
    BY <1>2, <2>1
  <2>3. e.rec = NoRec /\ UNCHANGED <<due, status>>
    BY <1>1, <1>8 DEF ExecutorDone, ConsistentRecord
  <2>4. \A r \in Recs : ExecutorOwes(r)' <=> ExecutorOwes(r)
    BY <2>1, <2>2, <2>3, ConstantsAssumption DEF ExecutorOwes, ExecutorSpent
  <2> QED
    BY <1>4, <2>2, <2>4
<1> QED
  BY <1>5, <1>6, <1>7, <1>8 DEF ExecutorStep

\* What the thread that dies held of t is lost, or left behind as scheduled.
LEMMA InterruptDies ==
    ASSUME LocalInv, LocalInv', RunSelected, NEW w \in Workers, Interrupt(w)
    PROVE  LedgerStep
<1>1. /\ worker[w] \in WorkerRecord /\ ConsistentRecord(w, worker[w], due)
      /\ IdleWorker.rec = NoRec
  BY DEF LocalInv, TypeOK, WorkersConsistent, IdleWorker
<1>2. worker[w].pc # "idle" /\ worker' = [worker EXCEPT ![w] = IdleWorker]
      /\ UNCHANGED <<status, approvals, calls>> /\ faults' = faults + 1
  BY DEF Interrupt
<1>3. PICK t \in Recs : worker[w].rec \in {t, NoRec}
  <2>1. CASE w = Executor
    BY <1>1, <1>2, <2>1 DEF RunSelected, WorkerRecord
  <2>2. CASE w # Executor
    BY <1>1, <1>2, <2>2, WorkerFacts DEF WorkerRecord, ConsistentRecord
  <2> QED
    BY <2>1, <2>2
<1>4. \A v \in Workers : worker'[v] = IF v = w THEN IdleWorker ELSE worker[v]
  BY <1>2 DEF LocalInv, TypeOK
<1>5. \A r \in Recs : InFlight(r)' \in SUBSET InFlight(r)
  BY <1>2, IdleNotInFlight
<1>6. ASSUME NEW s \in Recs \ {t}
      PROVE  Owed(s)' <= Owed(s)
  <2>1. s # NoRec /\ due' \subseteq due
    BY ConstantsAssumption DEF Interrupt
  <2>2. ExecutorOwes(s)' => ExecutorOwes(s)
    BY <1>1, <1>2, <1>3, <1>4, <2>1, WorkerFacts DEF ExecutorOwes, ExecutorSpent
  <2> QED
    BY <1>5, <2>2, OwedShrinks
<1>7. Owed(t)' <= Owed(t) + 1
  <2>1. Cardinality(InFlight(t)') <= Cardinality(InFlight(t))
    BY <1>5, BudgetTypes, CountShrinks
  <2> QED
    BY <2>1, BudgetTypes, BudgetTypesNext DEF Owed
<1> QED
  BY <1>2, <1>6, <1>7, LedgerDies

LEMMA SyncSpends ==
    ASSUME LocalInv, LocalInv', NEW s \in Syncs, SyncBegin(s) \/ SyncStep(s)
    PROVE  LedgerStep
<1>1. \A t : ResolvedStatus(t) \in Statuses \ {"scheduled"}
  BY DEF ResolvedStatus
<1>2. UNCHANGED <<worker, due, approvals, calls, faults>>
  BY DEF SyncBegin, SyncPass, SyncStep, SyncResolveGone, SyncReadRow, SyncUpdateRow
<1>3. CASE UNCHANGED status
  BY <1>2, <1>3, LedgerStutters
<1>4. ASSUME NEW t \in Recs, SetStatus(t, ResolvedStatus(t))
      PROVE  LedgerStep
  BY <1>1, <1>2, <1>4, SetLeaves, LedgerTables
<1>5. SyncUpdateRow(s) => sync[s].row \in Recs
  BY DEF SyncUpdateRow, SyncRecord, LocalInv, TypeOK
<1> QED
  BY <1>3, <1>4, <1>5
  DEF SyncBegin, SyncPass, SyncStep, SyncResolveGone, SyncReadRow, SyncUpdateRow

LEMMA ElsewhereSpends ==
    ASSUME LocalInv, LocalInv', NEW t \in Recs,
           Click(t) \/ GraceElapses(t) \/ Elsewhere(t)
    PROVE  LedgerStep
<1>1. CASE Cancel(t)
  <2>1. OnlyLeaves(t) /\ UNCHANGED <<due, approvals, calls, faults>>
    BY <1>1, SetLeaves DEF Cancel
  <2>2. ASSUME NEW w \in Workers
        PROVE  worker'[w].rec = worker[w].rec /\ worker'[w].pc = worker[w].pc
    BY <1>1 DEF Cancel, WorkerRecord, LocalInv, TypeOK
  <2>3. \A r \in Recs : InFlight(r)' = InFlight(r)
    BY <2>2, WorkerFacts DEF InFlight
  <2>4. ExecutorOwes(t)' => ExecutorOwes(t)
    BY <2>1, <2>2, WorkerFacts DEF OnlyLeaves, ExecutorOwes, ExecutorSpent
  <2>5. \A r \in Recs \ {t} : ExecutorOwes(r)' <=> ExecutorOwes(r)
    BY <2>1, <2>2, WorkerFacts DEF OnlyLeaves, ExecutorOwes, ExecutorSpent
  <2>6. OthersKept(t) /\ Owed(t)' <= Owed(t)
    BY <2>3, <2>4, <2>5, OwedShrinks DEF OthersKept, Owed
  <2> QED
    BY <2>1, <2>6, LedgerLapses
<1>2. CASE ~Cancel(t)
  <2>1. OnlyLeaves(t)
    BY <1>2, SetLeaves
    DEF Click, Reject, Dismiss, Restore, GraceElapses, Elsewhere, PrSync,
        DetectorRevives, DetectorRetires, OwnerActs
  <2>2. UNCHANGED <<worker, due, approvals, calls, faults>>
    BY <1>2
    DEF Click, Reject, Dismiss, Restore, GraceElapses, Elsewhere, PrSync,
        DetectorRevives, DetectorRetires, OwnerActs
  <2> QED
    BY <2>1, <2>2, LedgerTables
<1> QED
  BY <1>1, <1>2

LEMMA NextSelected == LocalInv /\ RunSelected /\ [Next]_vars => RunSelected'
<1> SUFFICES ASSUME LocalInv, RunSelected, [Next]_vars
             PROVE  RunSelected'
  OBVIOUS
<1>1. CASE UNCHANGED due /\ worker'[Executor].pc = worker[Executor].pc
  BY <1>1 DEF RunSelected
<1>2. ASSUME UNCHANGED due, worker[Executor].pc # "idle",
             worker'[Executor].pc # "idle"
      PROVE  RunSelected'
  BY <1>2 DEF RunSelected
<1>3. ASSUME NEW q \in Requests, NEW x, worker' = [worker EXCEPT ![q] = x],
             UNCHANGED due
      PROVE  RunSelected'
  BY <1>1, <1>3, WorkerFacts
<1>4. ASSUME NEW w \in Workers, Execute(w) \/ RemediatorUnrecorded(w)
      PROVE  RunSelected'
  <2>1. worker[w] \in WorkerRecord
    BY DEF LocalInv, TypeOK
  <2>2. /\ UNCHANGED due /\ worker[w].pc # "idle"
        /\ \E x : worker' = [worker EXCEPT ![w] = x] /\ x.pc # "idle"
    BY <1>4, <2>1
    DEF Execute, ExecuteEc2, Refuse, Ended, Remediate, RemediatorCall,
        RemediatorFinalize, RemediatorUnrecorded, WorkerRecord
  <2>3. CASE w = Executor
    BY <1>2, <2>2, <2>3 DEF LocalInv, TypeOK
  <2>4. CASE w # Executor
    BY <1>3, <2>2, <2>4, WorkerFacts
  <2> QED
    BY <2>3, <2>4
<1>5. ASSUME NEW w \in Workers, Interrupt(w)
      PROVE  RunSelected'
  <2>1. CASE w = Executor
    BY <1>5, <2>1 DEF Interrupt, IdleWorker, RunSelected, LocalInv, TypeOK
  <2>2. CASE w # Executor
    BY <1>3, <1>5, <2>2, WorkerFacts DEF Interrupt
  <2> QED
    BY <2>1, <2>2
<1>6. CASE ExecutorStep
  <2>1. Executor \in Workers /\ worker[Executor] \in WorkerRecord
    BY WorkerFacts DEF LocalInv, TypeOK
  <2>2. due' \subseteq Recs
    BY <1>6, NextLocal DEF Next, LocalInv, TypeOK
  <2>3. CASE ExecutorSelect
    BY <2>1, <2>2, <2>3 DEF ExecutorSelect, IdleWorker, RunSelected, LocalInv, TypeOK
  <2>4. CASE ExecutorDone
    BY <2>1, <2>4 DEF ExecutorDone, IdleWorker, RunSelected, LocalInv, TypeOK
  <2>5. CASE ExecutorRecord \/ \E r \in Recs : ExecutorRow(r)
    <3>1. \E x : worker' = [worker EXCEPT ![Executor] = x] /\ x.pc # "idle"
      <4> DEFINE y(r)    == [worker[Executor] EXCEPT !.pc = "execute", !.rec = r]
                 z(r, o) == [worker[Executor] EXCEPT !.pc = "record", !.rec = r,
                                                     !.outcome = o]
                 u == [worker[Executor] EXCEPT !.pc = "next", !.rec = NoRec,
                                               !.outcome = "none"]
      <4>1. \/ worker' = [worker EXCEPT ![Executor] = u]
            \/ \E r : worker' = [worker EXCEPT ![Executor] = y(r)]
            \/ \E r, o : worker' = [worker EXCEPT ![Executor] = z(r, o)]
        <5>1. ASSUME NEW r \in Recs, ExecutorRow(r)
              PROVE  \/ worker' = [worker EXCEPT ![Executor] = y(r)]
                     \/ \E o : worker' = [worker EXCEPT ![Executor] = z(r, o)]
          BY <5>1 DEF ExecutorRow
        <5>2. CASE ExecutorRecord
          BY <5>2 DEF ExecutorRecord
        <5> HIDE DEF u, y, z
        <5> QED
          BY <2>5, <5>1, <5>2
      <4>2. /\ u.pc # "idle" /\ \A r : y(r).pc # "idle"
            /\ \A r, o : z(r, o).pc # "idle"
        BY <2>1 DEF WorkerRecord
      <4> HIDE DEF u, y, z
      <4> QED
        BY <4>1, <4>2
    <3>2. worker[Executor].pc # "idle"
      BY <2>5 DEF ExecutorRecord, ExecutorRow
    <3>3. worker'[Executor].pc # "idle"
      BY <2>1, <3>1 DEF LocalInv, TypeOK
    <3> QED
      BY <3>2, <3>3 DEF RunSelected
  <2> QED
    BY <1>6, <2>3, <2>4, <2>5 DEF ExecutorStep
<1>7. ASSUME NEW q \in Requests,
             ApproveStep(q) \/ \E r \in Recs : ApproveBegin(q, r)
      PROVE  RunSelected'
  <2>1. UNCHANGED due /\ \E x : worker' = [worker EXCEPT ![q] = x]
    BY <1>7 DEF ApproveStep, ApproveByPr, MarkToDo, Simulate, Schedule,
                ApproveNow, ApproveRecord, ApproveBegin
  <2> QED
    BY <1>3, <2>1
<1>8. ASSUME \/ \E r \in Recs : Click(r) \/ GraceElapses(r) \/ Elsewhere(r)
             \/ \E s \in Syncs : SyncBegin(s) \/ SyncStep(s)
             \/ SaveSettings \/ UNCHANGED vars
      PROVE  RunSelected'
  <2>1. ASSUME NEW r \in Recs, Cancel(r)
        PROVE  RunSelected'
    <3>1. worker'[Executor].pc = worker[Executor].pc
      BY <2>1, WorkerFacts DEF Cancel, WorkerRecord, LocalInv, TypeOK
    <3> QED
      BY <1>1, <2>1, <3>1 DEF Cancel
  <2>2. CASE UNCHANGED <<worker, due>>
    BY <1>1, <2>2
  <2> QED
    BY <1>8, <2>1, <2>2
    DEF Click, Reject, Dismiss, Restore, GraceElapses, Elsewhere, PrSync,
        DetectorRevives, DetectorRetires, OwnerActs, SyncBegin, SyncPass,
        SyncStep, SyncResolveGone, SyncReadRow, SyncUpdateRow, SaveSettings, vars
<1> QED
  BY <1>4, <1>5, <1>6, <1>7, <1>8 DEF Next

LEMMA NextLedger ==
    ASSUME LocalInv, RunSelected, [Next]_vars
    PROVE  LedgerStep
<1>1. LocalInv'
  BY NextLocal
<1>2. CASE SaveSettings \/ UNCHANGED vars
  BY <1>2, LedgerStutters DEF SaveSettings, vars
<1>3. CASE Next
  BY <1>1, <1>2, <1>3, ElsewhereSpends, ApproveSpends, ApproveBeginOpens,
     ExecutionSpends, InterruptDies, ExecutorSpends, SyncSpends DEF Next
<1> QED
  BY <1>2, <1>3

\* The detailed lifecycle, with its threads, tables, jobs and clicks, is an
\* implementation of the ledger: no interleaving of theirs opens a credit but
\* an approval or the death of a thread, nor spends one of another row.
THEOREM LifecycleKeepsLedger == Spec => ApprovalsAreCredits
<1>1. Init => RunSelected /\ Ledger!Init
  <2> SUFFICES ASSUME Init
               PROVE  RunSelected /\ Ledger!Init
    OBVIOUS
  <2>1. RunSelected
    BY WorkerFacts DEF Init, RunSelected, IdleWorker
  <2>2. ASSUME NEW r \in Recs
        PROVE  Owed(r) = 0
    <3>1. InFlight(r) = {}
      BY WorkerFacts DEF Init, InFlight, IdleWorker
    <3>2. ~ExecutorOwes(r)
      BY WorkerFacts, ConstantsAssumption DEF Init, ExecutorOwes, IdleWorker
    <3> QED
      BY <3>1, <3>2, FS_EmptySet DEF Owed
  <2>3. Ledger!Init
    BY <2>2 DEF Init, Ledger!Init
  <2> QED
    BY <2>1, <2>3
<1>2. LocalInv /\ RunSelected /\ [Next]_vars => [Ledger!Next]_(Ledger!ledger)
  BY NextLedger DEF LedgerStep
<1> QED
  BY <1>1, <1>2, InitLocal, NextLocal, NextSelected, PTL
  DEF Spec, ApprovalsAreCredits, Ledger!Spec

-----------------------------------------------------------------------------
(* Every write is recorded.                                                *)

\* The threads that hold a write of r and will record it.
Unrecorded(r) ==
    {w \in Workers :
        /\ worker[w].rec = r
        /\ \/ worker[w].pc = "finalize"
           \/ /\ worker[w].pc = "record"
              /\ ExecutionMode(r) = "boto3"
              /\ ~worker[w].dry
              /\ worker[w].outcome # "simulated"}

Logged(r) == log[r].success + log[r].failed

Recorded(r) == calls[r] <= Logged(r) + Cardinality(Unrecorded(r)) + faults

LiveRecord(x) == x.pc \in {"execute", "remediating", "finalize"} => ~x.dry

RunsAreLive == \A w \in Workers : LiveRecord(worker[w])

-----------------------------------------------------------------------------
(* Dry-run is looked at before anything is executed.                       *)

LEMMA OneWorkerLive ==
    ASSUME LocalInv, RunsAreLive, NEW w \in Workers, NEW x, LiveRecord(x),
           worker' = [worker EXCEPT ![w] = x]
    PROVE  RunsAreLive'
<1>1. \A v \in Workers : worker'[v] = IF v = w THEN x ELSE worker[v]
  BY DEF LocalInv, TypeOK
<1> QED
  BY <1>1 DEF RunsAreLive

LEMMA IdleIsLive == LiveRecord(IdleWorker)
  BY DEF LiveRecord, IdleWorker

LEMMA RequestsLive ==
    ASSUME LocalInv, RunsAreLive, NEW q \in Requests,
           ApproveStep(q) \/ \E r \in Recs : ApproveBegin(q, r)
    PROVE  RunsAreLive'
<1>1. q \in Workers /\ worker[q] \in WorkerRecord
  BY WorkerFacts DEF LocalInv, TypeOK
<1>2. CASE worker' = [worker EXCEPT ![q] = IdleWorker]
  BY <1>1, <1>2, OneWorkerLive, IdleIsLive
<1>3. CASE ApproveNow(q)
  <2> DEFINE x == [worker[q] EXCEPT !.pc = "execute"]
  <2>1. worker' = [worker EXCEPT ![q] = x] /\ LiveRecord(x)
    BY <1>1, <1>3 DEF ApproveNow, LiveRecord, WorkerRecord
  <2> HIDE DEF x
  <2> QED
    BY <1>1, <2>1, OneWorkerLive
<1>4. ASSUME NEW r \in Recs, ApproveBegin(q, r)
      PROVE  RunsAreLive'
  <2> DEFINE x == [IdleWorker EXCEPT !.pc = "routing", !.rec = r,
                                     !.dry = settings.dryRun]
  <2>1. worker' = [worker EXCEPT ![q] = x] /\ LiveRecord(x)
    BY <1>4 DEF ApproveBegin, LiveRecord, IdleWorker
  <2> HIDE DEF x
  <2> QED
    BY <1>1, <2>1, OneWorkerLive
<1> QED
  BY <1>2, <1>3, <1>4
  DEF ApproveStep, ApproveByPr, MarkToDo, Simulate, Schedule, ApproveRecord

LEMMA ExecutionLive ==
    ASSUME LocalInv, RunsAreLive, NEW w \in Workers,
           Execute(w) \/ RemediatorUnrecorded(w) \/ Interrupt(w)
    PROVE  RunsAreLive'
<1>1. worker[w] \in WorkerRecord /\ LiveRecord(worker[w])
  BY DEF LocalInv, TypeOK, RunsAreLive
<1>2. CASE ExecuteEc2(w) \/ Refuse(w)
  <2> DEFINE x(o) == [worker[w] EXCEPT !.pc = "record", !.outcome = o]
  <2>1. \E o : worker' = [worker EXCEPT ![w] = x(o)]
    BY <1>2 DEF ExecuteEc2, Refuse, Ended
  <2>2. \A o : LiveRecord(x(o))
    BY <1>1 DEF LiveRecord, WorkerRecord
  <2> HIDE DEF x
  <2> QED
    BY <2>1, <2>2, OneWorkerLive
<1>3. CASE Remediate(w)
  <2> DEFINE x == [worker[w] EXCEPT !.pc = "remediating", !.row = "pending"]
  <2>1. worker' = [worker EXCEPT ![w] = x] /\ LiveRecord(x)
    BY <1>1, <1>3 DEF Remediate, LiveRecord, WorkerRecord
  <2> HIDE DEF x
  <2> QED
    BY <2>1, OneWorkerLive
<1>4. CASE RemediatorCall(w)
  <2> DEFINE x(o) == [worker[w] EXCEPT !.pc = "finalize", !.outcome = o]
  <2>1. \E o : worker' = [worker EXCEPT ![w] = x(o)]
    BY <1>4 DEF RemediatorCall
  <2>2. \A o : LiveRecord(x(o))
    BY <1>1, <1>4 DEF RemediatorCall, LiveRecord, WorkerRecord
  <2> HIDE DEF x
  <2> QED
    BY <2>1, <2>2, OneWorkerLive
<1>5. CASE RemediatorFinalize(w)
  <2> DEFINE x == [worker[w] EXCEPT !.pc = "record", !.row = "none"]
  <2>1. worker' = [worker EXCEPT ![w] = x] /\ LiveRecord(x)
    BY <1>1, <1>5 DEF RemediatorFinalize, LiveRecord, WorkerRecord
  <2> HIDE DEF x
  <2> QED
    BY <2>1, OneWorkerLive
<1>6. CASE RemediatorUnrecorded(w)
  <2> DEFINE x == [worker[w] EXCEPT !.pc = "record", !.row = "none",
                                    !.outcome = "failed"]
  <2>1. worker' = [worker EXCEPT ![w] = x] /\ LiveRecord(x)
    BY <1>1, <1>6 DEF RemediatorUnrecorded, LiveRecord, WorkerRecord
  <2> HIDE DEF x
  <2> QED
    BY <2>1, OneWorkerLive
<1>7. CASE Interrupt(w)
  BY <1>7, OneWorkerLive, IdleIsLive DEF Interrupt
<1> QED
  BY <1>2, <1>3, <1>4, <1>5, <1>6, <1>7 DEF Execute

LEMMA ExecutorLive ==
    ASSUME LocalInv, RunsAreLive, ExecutorStep
    PROVE  RunsAreLive'
<1> DEFINE e == worker[Executor]
<1>1. Executor \in Workers /\ e \in WorkerRecord
  BY WorkerFacts DEF LocalInv, TypeOK
<1>2. CASE ExecutorSelect
  <2> DEFINE x == [IdleWorker EXCEPT !.pc = "next", !.dry = settings.dryRun]
  <2>1. worker' = [worker EXCEPT ![Executor] = x] /\ LiveRecord(x)
    BY <1>2 DEF ExecutorSelect, LiveRecord, IdleWorker
  <2> HIDE DEF x
  <2> QED
    BY <1>1, <2>1, OneWorkerLive
<1>3. ASSUME NEW r \in Recs, ExecutorRow(r)
      PROVE  RunsAreLive'
  <2> DEFINE y    == [e EXCEPT !.pc = "execute", !.rec = r]
             z(o) == [e EXCEPT !.pc = "record", !.rec = r, !.outcome = o]
  <2>1. \/ worker' = [worker EXCEPT ![Executor] = y] /\ ~e.dry
        \/ \E o : worker' = [worker EXCEPT ![Executor] = z(o)]
    BY <1>3 DEF ExecutorRow
  <2>2. (~e.dry => LiveRecord(y)) /\ \A o : LiveRecord(z(o))
    BY <1>1 DEF LiveRecord, WorkerRecord
  <2> HIDE DEF y, z
  <2> QED
    BY <1>1, <2>1, <2>2, OneWorkerLive
<1>4. CASE ExecutorRecord
  <2> DEFINE x == [e EXCEPT !.pc = "next", !.rec = NoRec, !.outcome = "none"]
  <2>1. worker' = [worker EXCEPT ![Executor] = x] /\ LiveRecord(x)
    BY <1>1, <1>4 DEF ExecutorRecord, LiveRecord, WorkerRecord
  <2> HIDE DEF x
  <2> QED
    BY <1>1, <2>1, OneWorkerLive
<1>5. CASE ExecutorDone
  BY <1>1, <1>5, OneWorkerLive, IdleIsLive DEF ExecutorDone
<1> QED
  BY <1>2, <1>3, <1>4, <1>5 DEF ExecutorStep

\* A step that touches no thread, but for the row Cancel closes under one.
LEMMA ElsewhereLive ==
    ASSUME LocalInv, RunsAreLive,
           \/ \E r \in Recs : Click(r) \/ GraceElapses(r) \/ Elsewhere(r)
           \/ \E s \in Syncs : SyncBegin(s) \/ SyncStep(s)
           \/ SaveSettings \/ UNCHANGED vars
    PROVE  RunsAreLive'
<1>1. CASE worker' = worker
  BY <1>1 DEF RunsAreLive
<1>2. ASSUME NEW r \in Recs, Cancel(r)
      PROVE  RunsAreLive'
  <2>1. ASSUME NEW w \in Workers
        PROVE  /\ worker'[w].pc = worker[w].pc
               /\ worker'[w].dry = worker[w].dry
    BY <1>2 DEF Cancel, WorkerRecord, LocalInv, TypeOK
  <2> QED
    BY <2>1 DEF RunsAreLive, LiveRecord
<1> QED
  BY <1>1, <1>2
  DEF Click, Reject, Dismiss, Restore, GraceElapses, Elsewhere, PrSync,
      DetectorRevives, DetectorRetires, OwnerActs, SyncBegin, SyncPass, SyncStep,
      SyncResolveGone, SyncReadRow, SyncUpdateRow, SaveSettings, vars

-----------------------------------------------------------------------------
(* Counting the writes that are not recorded yet.                          *)

LEMMA UnrecordedType ==
    ASSUME NEW A \in SUBSET Workers
    PROVE  Cardinality(A) \in Nat /\ IsFiniteSet(A)
<1>1. IsFiniteSet(Workers)
  BY ConstantsAssumption, FS_AddElement DEF Workers
<1> QED
  BY <1>1, FS_Subset, FS_CardinalityType

LEMMA UnrecordedShrinks ==
    ASSUME NEW A \in SUBSET Workers, NEW B \in SUBSET Workers, NEW w \in Workers,
           A \ {w} \subseteq B
    PROVE  /\ Cardinality(A) <= Cardinality(B) + 1
           /\ w \notin A \/ w \in B => Cardinality(A) <= Cardinality(B)
           /\ w \notin A /\ w \in B => Cardinality(A) + 1 <= Cardinality(B)
<1>1. /\ A \ {w} \in SUBSET Workers /\ B \ {w} \in SUBSET Workers
      /\ Cardinality(A) \in Nat /\ Cardinality(B) \in Nat
      /\ Cardinality(A \ {w}) \in Nat /\ Cardinality(B \ {w}) \in Nat
  BY UnrecordedType
<1>2. Cardinality(A \ {w}) <= Cardinality(B \ {w})
  BY UnrecordedType, FS_Subset
<1>3. /\ w \in A => Cardinality(A \ {w}) = Cardinality(A) - 1
      /\ w \in B => Cardinality(B \ {w}) = Cardinality(B) - 1
  BY UnrecordedType, FS_RemoveElement
<1>4. /\ w \notin A => A \ {w} = A
      /\ w \notin B => B \ {w} = B
  OBVIOUS
<1> QED
  BY <1>1, <1>2, <1>3, <1>4

LEMMA RecordedTypes ==
    ASSUME LocalInv, NEW r \in Recs
    PROVE  /\ Unrecorded(r) \in SUBSET Workers
           /\ Cardinality(Unrecorded(r)) \in Nat
           /\ Logged(r) \in Nat /\ calls[r] \in Nat /\ faults \in Nat
<1>1. Unrecorded(r) \in SUBSET Workers
  BY DEF Unrecorded
<1>2. log[r].success \in Nat /\ log[r].failed \in Nat
  BY DEF LocalInv, TypeOK
<1>3. Logged(r) \in Nat
  BY <1>2 DEF Logged
<1>4. calls[r] \in Nat /\ faults \in Nat
  BY DEF LocalInv, TypeOK
<1> QED
  BY <1>1, <1>3, <1>4, UnrecordedType

LEMMA RecordedTypesNext ==
    ASSUME LocalInv', NEW r \in Recs
    PROVE  /\ Unrecorded(r)' \in SUBSET Workers
           /\ Cardinality(Unrecorded(r)') \in Nat
           /\ Logged(r)' \in Nat /\ calls'[r] \in Nat /\ faults' \in Nat
<1>1. Unrecorded(r)' \in SUBSET Workers
  BY DEF Unrecorded
<1>2. log'[r].success \in Nat /\ log'[r].failed \in Nat
  BY DEF LocalInv, TypeOK
<1>3. Logged(r)' \in Nat
  BY <1>2 DEF Logged
<1>4. calls'[r] \in Nat /\ faults' \in Nat
  BY DEF LocalInv, TypeOK
<1> QED
  BY <1>1, <1>3, <1>4, UnrecordedType

\* A step that moves no thread past a record.
LEMMA AuditKept ==
    ASSUME LocalInv, LocalInv', NEW r \in Recs, Recorded(r),
           Unrecorded(r)' = Unrecorded(r), calls'[r] = calls[r],
           Logged(r)' = Logged(r), faults' = faults
    PROVE  Recorded(r)'
  BY RecordedTypes, RecordedTypesNext DEF Recorded

\* One thread moves: the write it records, or loses to a fault, is paid for.
LEMMA AuditMoves ==
    ASSUME LocalInv, LocalInv', NEW r \in Recs, Recorded(r), NEW w \in Workers,
           Unrecorded(r) \ {w} \subseteq Unrecorded(r)',
           calls'[r] = calls[r],
           Logged(r)' + faults' >= Logged(r) + faults,
           w \in Unrecorded(r) /\ w \notin Unrecorded(r)' =>
              Logged(r)' + faults' >= Logged(r) + faults + 1
    PROVE  Recorded(r)'
<1>1. /\ Cardinality(Unrecorded(r)) <= Cardinality(Unrecorded(r)') + 1
      /\ w \notin Unrecorded(r) \/ w \in Unrecorded(r)' =>
            Cardinality(Unrecorded(r)) <= Cardinality(Unrecorded(r)')
  BY RecordedTypes, RecordedTypesNext, UnrecordedShrinks
<1> QED
  BY <1>1, RecordedTypes, RecordedTypesNext DEF Recorded

\* One thread writes to AWS, and is about to record it.
LEMMA AuditCall ==
    ASSUME LocalInv, LocalInv', NEW r \in Recs, Recorded(r), NEW w \in Workers,
           Unrecorded(r) \ {w} \subseteq Unrecorded(r)',
           w \notin Unrecorded(r), w \in Unrecorded(r)',
           calls'[r] = calls[r] + 1, Logged(r)' = Logged(r), faults' = faults
    PROVE  Recorded(r)'
<1>1. Cardinality(Unrecorded(r)) + 1 <= Cardinality(Unrecorded(r)')
  BY RecordedTypes, RecordedTypesNext, UnrecordedShrinks
<1> QED
  BY <1>1, RecordedTypes, RecordedTypesNext DEF Recorded

\* What a row adds to the count.
LEMMA RowIsLogged ==
    ASSUME LocalInv, NEW t \in Recs, NEW s \in LogStatuses, AddRow(t, s),
           NEW r \in Recs
    PROVE  /\ Logged(r)' >= Logged(r)
           /\ t # r \/ s \notin {"success", "failed"} => Logged(r)' = Logged(r)
           /\ t = r /\ s \in {"success", "failed"} => Logged(r)' = Logged(r) + 1
<1>1. log[r] \in [LogStatuses -> Nat]
  BY DEF LocalInv, TypeOK
<1>2. log'[r] = IF r = t THEN [log[r] EXCEPT ![s] = @ + 1] ELSE log[r]
  BY DEF AddRow, LocalInv, TypeOK
<1>3. log[r].success \in Nat /\ log[r].failed \in Nat
  BY <1>1
<1>4. CASE r # t
  <2>1. Logged(r)' = Logged(r) /\ Logged(r) \in Nat
    BY <1>2, <1>3, <1>4 DEF Logged
  <2> QED
    BY <1>4, <2>1
<1>5. CASE r = t /\ s = "success"
  <2>1. log'[r].success = log[r].success + 1 /\ log'[r].failed = log[r].failed
    BY <1>1, <1>2, <1>5
  <2> QED
    BY <1>3, <1>5, <2>1 DEF Logged
<1>6. CASE r = t /\ s = "failed"
  <2>1. log'[r].success = log[r].success /\ log'[r].failed = log[r].failed + 1
    BY <1>1, <1>2, <1>6
  <2> QED
    BY <1>3, <1>6, <2>1 DEF Logged
<1>7. CASE r = t /\ s \notin {"success", "failed"}
  <2>1. log'[r].success = log[r].success /\ log'[r].failed = log[r].failed
    BY <1>1, <1>2, <1>7
  <2> QED
    BY <1>3, <1>7, <2>1 DEF Logged
<1> QED
  BY <1>4, <1>5, <1>6, <1>7

\* Who holds an unrecorded write after a thread moved.
LEMMA OthersUnrecorded ==
    ASSUME LocalInv, NEW r \in Recs, NEW w \in Workers, NEW x,
           worker' = [worker EXCEPT ![w] = x]
    PROVE  /\ Unrecorded(r) \ {w} \subseteq Unrecorded(r)'
           /\ w \in Unrecorded(r)' <=>
                /\ x.rec = r
                /\ \/ x.pc = "finalize"
                   \/ /\ x.pc = "record" /\ ExecutionMode(r) = "boto3"
                      /\ ~x.dry /\ x.outcome # "simulated"
<1>1. \A v \in Workers : worker'[v] = IF v = w THEN x ELSE worker[v]
  BY DEF LocalInv, TypeOK
<1> QED
  BY <1>1 DEF Unrecorded

\* Who held one before: only a thread with a record of its own to write.
LEMMA HoldsOne ==
    ASSUME NEW r \in Recs, NEW w \in Workers
    PROVE  w \in Unrecorded(r) <=>
                /\ worker[w].rec = r
                /\ \/ worker[w].pc = "finalize"
                   \/ /\ worker[w].pc = "record" /\ ExecutionMode(r) = "boto3"
                      /\ ~worker[w].dry /\ worker[w].outcome # "simulated"
  BY DEF Unrecorded

\* A thread that held no write moves on without one, and logs what it likes.
LEMMA AuditPasses ==
    ASSUME LocalInv, LocalInv', NEW r \in Recs, Recorded(r), NEW w \in Workers,
           NEW x, worker' = [worker EXCEPT ![w] = x],
           worker[w].pc \notin {"finalize", "record"} \/ worker[w].rec # r,
           calls'[r] = calls[r], Logged(r)' >= Logged(r), faults' >= faults
    PROVE  Recorded(r)'
<1>1. Unrecorded(r) \ {w} \subseteq Unrecorded(r)'
  BY OthersUnrecorded
<1>2. w \notin Unrecorded(r)
  BY HoldsOne
<1>3. Logged(r)' + faults' >= Logged(r) + faults
  BY RecordedTypes, RecordedTypesNext
<1> QED
  BY <1>1, <1>2, <1>3, AuditMoves

\* A thread that held a write of r pays for it with a row or with a fault.
LEMMA AuditPays ==
    ASSUME LocalInv, LocalInv', NEW r \in Recs, Recorded(r), NEW w \in Workers,
           NEW x, worker' = [worker EXCEPT ![w] = x],
           calls'[r] = calls[r],
           \/ Logged(r)' >= Logged(r) + 1 /\ faults' = faults
           \/ Logged(r)' >= Logged(r) /\ faults' = faults + 1
    PROVE  Recorded(r)'
<1>1. Unrecorded(r) \ {w} \subseteq Unrecorded(r)'
  BY OthersUnrecorded
<1>2. Logged(r)' + faults' >= Logged(r) + faults + 1
  BY RecordedTypes, RecordedTypesNext
<1>3. Logged(r)' + faults' >= Logged(r) + faults
  BY <1>2, RecordedTypes, RecordedTypesNext
<1> QED
  BY <1>1, <1>2, <1>3, AuditMoves

LEMMA SameLog ==
    ASSUME NEW r \in Recs, UNCHANGED log
    PROVE  Logged(r)' = Logged(r)
  BY DEF Logged

-----------------------------------------------------------------------------
(* The actions.                                                            *)

LEMMA AuditRequests ==
    ASSUME LocalInv, LocalInv', NEW r \in Recs, Recorded(r), NEW q \in Requests,
           ApproveStep(q) \/ \E t \in Recs : ApproveBegin(q, t)
    PROVE  Recorded(r)'
<1> DEFINE t == worker[q].rec
<1>1. /\ q \in Workers /\ worker[q] \in WorkerRecord
      /\ ConsistentRecord(q, worker[q], due)
  BY WorkerFacts DEF LocalInv, TypeOK, WorkersConsistent
<1>2. ASSUME worker[q].pc \in {"routing", "record"}
      PROVE  t \in Recs
  BY <1>1, <1>2 DEF WorkerRecord, ConsistentRecord
<1>3. faults \in Nat /\ Logged(r) \in Nat
  BY RecordedTypes
<1>4. ASSUME worker[q].pc \in {"idle", "routing"},
             \E x : worker' = [worker EXCEPT ![q] = x],
             UNCHANGED <<calls, faults>>, Logged(r)' >= Logged(r)
      PROVE  Recorded(r)'
  <2>1. calls'[r] = calls[r] /\ faults' >= faults
    BY <1>3, <1>4
  <2>2. worker[q].pc \notin {"finalize", "record"}
    BY <1>4
  <2> QED
    BY <1>1, <1>4, <2>1, <2>2, AuditPasses
<1>5. CASE ApproveByPr(q) \/ Schedule(q)
  <2>1. t \in Recs
    BY <1>2, <1>5 DEF ApproveByPr, Schedule
  <2>2. UNCHANGED log \/ \E s \in LogStatuses : AddRow(t, s)
    BY <1>5 DEF ApproveByPr, Schedule, ScheduledRow
  <2>3. Logged(r)' >= Logged(r)
    BY <1>3, <2>1, <2>2, RowIsLogged, SameLog
  <2> QED
    BY <1>4, <1>5, <2>3 DEF ApproveByPr, Schedule
<1>6. CASE MarkToDo(q) \/ Simulate(q) \/ ApproveNow(q)
           \/ \E u \in Recs : ApproveBegin(q, u)
  <2>1. UNCHANGED <<log, calls, faults>>
    BY <1>6 DEF MarkToDo, Simulate, ApproveNow, ApproveBegin
  <2>2. Logged(r)' >= Logged(r)
    BY <1>3, <2>1, SameLog
  <2>3. \E x : worker' = [worker EXCEPT ![q] = x]
    BY <1>6 DEF MarkToDo, Simulate, ApproveNow, ApproveBegin
  <2>4. worker[q].pc \in {"idle", "routing"}
    BY <1>6 DEF MarkToDo, Simulate, ApproveNow, ApproveBegin
  <2> QED
    BY <1>4, <2>1, <2>2, <2>3, <2>4
<1>7. CASE ApproveRecord(q)
  <2>1. t \in Recs /\ UNCHANGED <<calls, faults>>
        /\ worker' = [worker EXCEPT ![q] = IdleWorker]
        /\ worker[q].pc = "record"
    BY <1>2, <1>7 DEF ApproveRecord
  <2>2. CASE ExecutionMode(t) = "boto3"
    <3>1. PICK s \in {"success", "failed"} : AddRow(t, s)
      BY <1>7, <2>2 DEF ApproveRecord
    <3>2. CASE t = r
      <4>1. Logged(r)' >= Logged(r) + 1
        BY <1>3, <2>1, <3>1, <3>2, RowIsLogged
      <4>2. faults' = faults /\ calls'[r] = calls[r]
        BY <2>1
      <4> QED
        BY <1>1, <2>1, <4>1, <4>2, AuditPays
    <3>3. CASE t # r
      <4>1. Logged(r)' >= Logged(r) /\ faults' >= faults
        BY <1>3, <2>1, <3>1, RowIsLogged
      <4> QED
        BY <1>1, <2>1, <3>3, <4>1, AuditPasses
    <3> QED
      BY <3>2, <3>3
  <2>3. CASE ExecutionMode(t) # "boto3"
    <3>1. q \notin Unrecorded(r)
      BY <1>1, <2>1, <2>3, HoldsOne
    <3>2. Unrecorded(r) \ {q} \subseteq Unrecorded(r)'
      BY <1>1, <2>1, OthersUnrecorded
    <3>3. Logged(r)' = Logged(r)
      BY <1>7, <2>3, SameLog DEF ApproveRecord
    <3> QED
      BY <1>1, <1>3, <2>1, <3>1, <3>2, <3>3, AuditMoves
  <2> QED
    BY <2>2, <2>3
<1> QED
  BY <1>5, <1>6, <1>7 DEF ApproveStep

LEMMA AuditExecute ==
    ASSUME LocalInv, LocalInv', RunsAreLive, NEW r \in Recs, Recorded(r),
           NEW w \in Workers, Execute(w)
    PROVE  Recorded(r)'
<1> DEFINE t == worker[w].rec
<1>1. /\ worker[w] \in WorkerRecord /\ LiveRecord(worker[w])
      /\ ConsistentRecord(w, worker[w], due)
  BY DEF LocalInv, TypeOK, WorkersConsistent, RunsAreLive
<1>2. ASSUME worker[w].pc \in {"execute", "remediating", "finalize"}
      PROVE  t \in Recs /\ ~worker[w].dry
  BY <1>1, <1>2 DEF WorkerRecord, ConsistentRecord, LiveRecord
<1>3. faults \in Nat /\ Logged(r) \in Nat
  BY RecordedTypes
<1>4. ASSUME Issue(t), t \in Recs
      PROVE  calls'[r] = IF t = r THEN calls[r] + 1 ELSE calls[r]
  BY <1>4 DEF Issue, LocalInv, TypeOK
<1>5. CASE ExecuteEc2(w)
  <2> DEFINE x(o) == [worker[w] EXCEPT !.pc = "record", !.outcome = o]
  <2>1. PICK o \in {"notFound", "failed", "success"} :
           worker' = [worker EXCEPT ![w] = x(o)]
    BY <1>5 DEF ExecuteEc2, Ended
  <2>2. x(o).rec = t /\ x(o).pc = "record" /\ x(o).outcome = o
        /\ x(o).dry = worker[w].dry
    BY <1>1 DEF WorkerRecord
  <2>3. /\ worker[w].pc = "execute" /\ ExecutionMode(t) = "boto3"
        /\ UNCHANGED <<log, faults>> /\ (UNCHANGED calls \/ Issue(t))
    BY <1>5 DEF ExecuteEc2
  <2> HIDE DEF x
  <2>4. t \in Recs /\ ~worker[w].dry /\ Logged(r)' = Logged(r)
    BY <1>2, <2>3, SameLog
  <2>5. CASE Issue(t) /\ t = r
    <3>1. w \notin Unrecorded(r) /\ calls'[r] = calls[r] + 1
      BY <1>4, <2>3, <2>4, <2>5, HoldsOne
    <3>2. Unrecorded(r) \ {w} \subseteq Unrecorded(r)' /\ w \in Unrecorded(r)'
      BY <2>1, <2>2, <2>3, <2>4, <2>5, OthersUnrecorded
    <3> QED
      BY <2>3, <2>4, <3>1, <3>2, AuditCall
  <2>6. CASE UNCHANGED calls \/ t # r
    <3>1. calls'[r] = calls[r]
      BY <1>4, <2>3, <2>4, <2>6
    <3>2. faults' >= faults /\ Logged(r)' >= Logged(r)
      BY <1>3, <2>3, <2>4
    <3>3. worker[w].pc \notin {"finalize", "record"}
      BY <2>3
    <3> QED
      BY <2>1, <3>1, <3>2, <3>3, AuditPasses
  <2> QED
    BY <2>3, <2>5, <2>6
<1>6. CASE Refuse(w) \/ Remediate(w)
  <2>1. \E x : worker' = [worker EXCEPT ![w] = x]
    BY <1>6 DEF Refuse, Remediate, Ended
  <2>2. worker[w].pc = "execute" /\ UNCHANGED <<log, calls, faults>>
    BY <1>6 DEF Refuse, Remediate
  <2>3. Logged(r)' >= Logged(r) /\ faults' >= faults
    BY <1>3, <2>2, SameLog
  <2> QED
    BY <2>1, <2>2, <2>3, AuditPasses
<1>7. CASE RemediatorCall(w)
  <2> DEFINE x(o) == [worker[w] EXCEPT !.pc = "finalize", !.outcome = o]
  <2>1. PICK o : worker' = [worker EXCEPT ![w] = x(o)]
    BY <1>7 DEF RemediatorCall
  <2>2. x(o).rec = t /\ x(o).pc = "finalize"
    BY <1>1 DEF WorkerRecord
  <2>3. worker[w].pc = "remediating" /\ UNCHANGED <<log, faults>> /\ Issue(t)
    BY <1>7 DEF RemediatorCall
  <2> HIDE DEF x
  <2>4. t \in Recs /\ Logged(r)' = Logged(r)
    BY <1>2, <2>3, SameLog
  <2>5. CASE t = r
    <3>1. w \notin Unrecorded(r) /\ calls'[r] = calls[r] + 1
      BY <1>4, <2>3, <2>4, <2>5, HoldsOne
    <3>2. Unrecorded(r) \ {w} \subseteq Unrecorded(r)' /\ w \in Unrecorded(r)'
      BY <2>1, <2>2, <2>5, OthersUnrecorded
    <3> QED
      BY <2>3, <2>4, <3>1, <3>2, AuditCall
  <2>6. CASE t # r
    <3>1. calls'[r] = calls[r]
      BY <1>4, <2>3, <2>4, <2>6
    <3>2. faults' >= faults /\ Logged(r)' >= Logged(r)
      BY <1>3, <2>3, <2>4
    <3>3. worker[w].pc \notin {"finalize", "record"}
      BY <2>3
    <3> QED
      BY <2>1, <3>1, <3>2, <3>3, AuditPasses
  <2> QED
    BY <2>5, <2>6
<1>8. CASE RemediatorFinalize(w)
  <2> DEFINE x == [worker[w] EXCEPT !.pc = "record", !.row = "none"]
  <2>1. /\ worker[w].pc = "finalize" /\ worker' = [worker EXCEPT ![w] = x]
        /\ AddRow(t, worker[w].outcome) /\ UNCHANGED <<calls, faults>>
    BY <1>8 DEF RemediatorFinalize
  <2> HIDE DEF x
  <2>2. t \in Recs /\ worker[w].outcome \in {"success", "failed"}
    BY <1>1, <1>2, <2>1 DEF ConsistentRecord
  <2>3. CASE t = r
    <3>1. Logged(r)' >= Logged(r) + 1
      BY <1>3, <2>1, <2>2, <2>3, RowIsLogged
    <3>2. faults' = faults /\ calls'[r] = calls[r]
      BY <2>1
    <3> QED
      BY <2>1, <3>1, <3>2, AuditPays
  <2>4. CASE t # r
    <3>1. Logged(r)' >= Logged(r) /\ faults' >= faults
      BY <1>3, <2>1, <2>2, RowIsLogged
    <3> QED
      BY <2>1, <2>4, <3>1, AuditPasses
  <2> QED
    BY <2>3, <2>4
<1> QED
  BY <1>5, <1>6, <1>7, <1>8 DEF Execute

\* An interruption drops at most the write of the thread it hits.
LEMMA AuditFault ==
    ASSUME LocalInv, LocalInv', NEW r \in Recs, Recorded(r), NEW w \in Workers,
           RemediatorUnrecorded(w) \/ Interrupt(w)
    PROVE  Recorded(r)'
<1> DEFINE t == worker[w].rec
<1>1. /\ worker[w] \in WorkerRecord
      /\ ConsistentRecord(w, worker[w], due)
  BY DEF LocalInv, TypeOK, WorkersConsistent
<1>2. faults \in Nat /\ Logged(r) \in Nat
  BY RecordedTypes
<1>3. \E x : worker' = [worker EXCEPT ![w] = x]
  BY DEF RemediatorUnrecorded, Interrupt
<1>4. faults' = faults + 1 /\ UNCHANGED calls
  BY DEF RemediatorUnrecorded, Interrupt
<1>5. \/ UNCHANGED log
      \/ /\ AddRow(t, worker[w].row)
         /\ t \in Recs /\ worker[w].row \in LogStatuses
  BY <1>1 DEF RemediatorUnrecorded, Interrupt, ConsistentRecord, WorkerRecord
<1>6. Logged(r)' >= Logged(r)
  BY <1>2, <1>5, RowIsLogged, SameLog
<1> QED
  BY <1>3, <1>4, <1>6, AuditPays

LEMMA AuditExecutor ==
    ASSUME LocalInv, LocalInv', NEW r \in Recs, Recorded(r), ExecutorStep
    PROVE  Recorded(r)'
<1> DEFINE e == worker[Executor]
           t == e.rec
<1>1. /\ Executor \in Workers /\ e \in WorkerRecord
      /\ ConsistentRecord(Executor, e, due)
  BY WorkerFacts DEF LocalInv, TypeOK, WorkersConsistent
<1>2. faults \in Nat /\ Logged(r) \in Nat
  BY RecordedTypes
<1>3. /\ \E x : worker' = [worker EXCEPT ![Executor] = x]
      /\ UNCHANGED <<calls, faults>>
  BY DEF ExecutorStep, ExecutorSelect, ExecutorRow, ExecutorRecord, ExecutorDone
<1>4. faults' >= faults /\ faults' = faults /\ calls'[r] = calls[r]
  BY <1>2, <1>3
<1>5. CASE ExecutorSelect \/ ExecutorDone \/ \E u \in Recs : ExecutorRow(u)
  <2>1. e.pc \in {"idle", "next"} /\ UNCHANGED log
    BY <1>5 DEF ExecutorSelect, ExecutorDone, ExecutorRow
  <2>2. Logged(r)' >= Logged(r)
    BY <1>2, <2>1, SameLog
  <2>3. e.pc \notin {"finalize", "record"}
    BY <2>1
  <2> QED
    BY <1>1, <1>3, <1>4, <2>2, <2>3, AuditPasses
<1>6. CASE ExecutorRecord
  <2>1. t \in Recs /\ e.pc = "record"
    BY <1>1, <1>6 DEF ExecutorRecord, ConsistentRecord, WorkerRecord
  <2>2. CASE e.dry \/ e.outcome = "simulated"
    <3>1. Executor \notin Unrecorded(r)
      BY <1>1, <2>1, <2>2, HoldsOne
    <3>2. Unrecorded(r) \ {Executor} \subseteq Unrecorded(r)'
      BY <1>1, <1>3, OthersUnrecorded
    <3>3. Logged(r)' = Logged(r)
      BY <1>6, <2>2, SameLog DEF ExecutorRecord
    <3>4. Logged(r)' + faults' >= Logged(r) + faults
      BY <1>2, <1>4, <3>3
    <3> QED
      BY <1>1, <1>4, <3>1, <3>2, <3>4, AuditMoves
  <2>3. CASE ~(e.dry \/ e.outcome = "simulated")
    <3>1. PICK s \in {"success", "failed"} : AddRow(t, s)
      BY <1>6, <2>3 DEF ExecutorRecord
    <3>2. CASE t = r
      <4>1. Logged(r)' >= Logged(r) + 1
        BY <1>2, <2>1, <3>1, <3>2, RowIsLogged
      <4> QED
        BY <1>1, <1>3, <1>4, <4>1, AuditPays
    <3>3. CASE t # r
      <4>1. Logged(r)' >= Logged(r)
        BY <1>2, <2>1, <3>1, RowIsLogged
      <4> QED
        BY <1>1, <1>3, <1>4, <3>3, <4>1, AuditPasses
    <3> QED
      BY <3>2, <3>3
  <2> QED
    BY <2>2, <2>3
<1> QED
  BY <1>5, <1>6 DEF ExecutorStep

\* Nobody else records or writes; Cancel closes rows that were only pending.
LEMMA AuditElsewhere ==
    ASSUME LocalInv, LocalInv', NEW r \in Recs, Recorded(r),
           \/ \E t \in Recs : Click(t) \/ GraceElapses(t) \/ Elsewhere(t)
           \/ \E s \in Syncs : SyncBegin(s) \/ SyncStep(s)
           \/ SaveSettings \/ UNCHANGED vars
    PROVE  Recorded(r)'
<1>1. CASE UNCHANGED <<worker, log, calls, faults>>
  <2>1. Unrecorded(r)' = Unrecorded(r)
    BY <1>1 DEF Unrecorded
  <2> QED
    BY <1>1, <2>1, SameLog, AuditKept
<1>2. ASSUME NEW t \in Recs, Cancel(t)
      PROVE  Recorded(r)'
  <2>1. ASSUME NEW w \in Workers
        PROVE  /\ worker'[w].pc = worker[w].pc
               /\ worker'[w].rec = worker[w].rec
               /\ worker'[w].dry = worker[w].dry
               /\ worker'[w].outcome = worker[w].outcome
    BY <1>2 DEF Cancel, WorkerRecord, LocalInv, TypeOK
  <2>2. Unrecorded(r)' = Unrecorded(r)
    BY <2>1 DEF Unrecorded
  <2>3. log[r] \in [LogStatuses -> Nat]
    BY DEF LocalInv, TypeOK
  <2>4. log'[r].success = log[r].success /\ log'[r].failed = log[r].failed
    <3> DEFINE closed == [log[r] EXCEPT !.cancelled = @ + log[r].pending,
                                        !.pending = 0]
    <3>1. log'[r] = IF r = t THEN closed ELSE log[r]
      BY <1>2 DEF Cancel, LocalInv, TypeOK
    <3>2. closed.success = log[r].success /\ closed.failed = log[r].failed
      BY <2>3
    <3> QED
      BY <3>1, <3>2
  <2>5. UNCHANGED <<calls, faults>> /\ Logged(r)' = Logged(r)
    BY <1>2, <2>4 DEF Cancel, Logged
  <2> QED
    BY <2>2, <2>5, AuditKept
<1> QED
  BY <1>1, <1>2
  DEF Click, Reject, Dismiss, Restore, GraceElapses, Elsewhere, PrSync,
      DetectorRevives, DetectorRetires, OwnerActs, SyncBegin, SyncPass, SyncStep,
      SyncResolveGone, SyncReadRow, SyncUpdateRow, SaveSettings, vars

-----------------------------------------------------------------------------
LEMMA InitAudit == Init => RunsAreLive /\ \A r \in Recs : Recorded(r)
<1> SUFFICES ASSUME Init
             PROVE  RunsAreLive /\ \A r \in Recs : Recorded(r)
  OBVIOUS
<1>1. \A w \in Workers : worker[w] = IdleWorker
  BY DEF Init
<1>2. RunsAreLive
  BY <1>1, IdleIsLive DEF RunsAreLive
<1>3. ASSUME NEW r \in Recs
      PROVE  Recorded(r)
  <2>1. Unrecorded(r) = {}
    BY <1>1 DEF Unrecorded, IdleWorker
  <2>2. Logged(r) = 0 /\ calls[r] = 0 /\ faults = 0
    BY <1>3 DEF Init, Logged
  <2> QED
    BY <2>1, <2>2, FS_EmptySet DEF Recorded
<1> QED
  BY <1>2, <1>3

LEMMA NextLive == LocalInv /\ RunsAreLive /\ [Next]_vars => RunsAreLive'
  BY RequestsLive, ExecutionLive, ExecutorLive, ElsewhereLive DEF Next

LEMMA NextAudit ==
    ASSUME LocalInv, RunsAreLive, [Next]_vars, NEW r \in Recs, Recorded(r)
    PROVE  Recorded(r)'
<1>1. LocalInv'
  BY NextLocal
<1> QED
  BY <1>1, AuditRequests, AuditExecute, AuditFault, AuditExecutor,
     AuditElsewhere DEF Next

\* What a thread did to AWS is in the history, or will be: a remediator's row
\* outlives a cancellation, a direct write is recorded by whoever made it, the
\* executor included, and only an interruption can lose one.
THEOREM WritesAreRecorded == Spec => []AuditTrail
<1> DEFINE Inv == RunsAreLive /\ \A r \in Recs : Recorded(r)
<1>1. LocalInv /\ Inv /\ [Next]_vars => Inv'
  BY NextLive, NextAudit
<1>2. LocalInv /\ Inv => AuditTrail
  <2> SUFFICES ASSUME LocalInv, NEW r \in Recs, Recorded(r)
               PROVE  calls[r] <= log[r].success + log[r].failed
                                     + Cardinality(Unlogged(r)) + faults
    BY DEF AuditTrail
  <2>1. Unlogged(r) \in SUBSET Workers /\ Unrecorded(r) \subseteq Unlogged(r)
    BY DEF Unlogged, Unrecorded
  <2>2. /\ Cardinality(Unrecorded(r)) <= Cardinality(Unlogged(r))
        /\ Cardinality(Unlogged(r)) \in Nat
    BY <2>1, UnrecordedType, FS_Subset
  <2>3. log[r].success \in Nat /\ log[r].failed \in Nat
    BY DEF LocalInv, TypeOK
  <2> QED
    BY <2>2, <2>3, RecordedTypes DEF Recorded, Logged
<1> QED
  BY <1>1, <1>2, InitAudit, InitLocal, NextLocal, PTL DEF Spec
=============================================================================
