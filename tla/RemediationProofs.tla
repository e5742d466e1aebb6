-------------------------- MODULE RemediationProofs --------------------------
(***************************************************************************)
(* Theorems about Remediation, for any workers, resources, kinds, policies *)
(* and bounds.                                                             *)
(*                                                                         *)
(* Every step of an attempt is first described by what it does to its own  *)
(* place and to the tables (the Effect lemmas).  The invariants then say   *)
(* what an attempt knows at each place: which row of the history is its    *)
(* own (RowsOwned), that the state before is saved (StateSaved), that a    *)
(* volume is copied (CopyTaken), that the resource was seen as waste       *)
(* (Seen), and what AWS did (Done, Told).                                  *)
(***************************************************************************)
EXTENDS Remediation, SequenceTheorems, WellFoundedInduction, TLAPS

\* A set of natural numbers that is not empty has a least element.
LEMMA LeastNat ==
    ASSUME NEW T, T \subseteq Nat, T # {}
    PROVE  \E m \in T : \A n \in T : m <= n
<1>1. PICK x \in T : \A y \in T : ~ (<<y, x>> \in OpToRel(<, Nat))
  BY NatLessThanWellFounded, WFMin
<1>2. \A y \in T : ~(y < x)
  BY <1>1 DEF OpToRel
<1> QED
  BY <1>2

-----------------------------------------------------------------------------
(* Types.                                                                  *)

\* What the attempt of a worker, a row of actions_log and a row of
\* rollback_snapshots are.
AtRecord == [pc : Steps, res : Resources \cup {None}, dry : BOOLEAN,
             policy : Policies \cup {None}, row : Nat, since : BOOLEAN]

LogRow == [res : Resources, dry : BOOLEAN, status : {"pending", "success", "failed"}]

RollbackRow == [res : Resources, row : Nat \ {0}, copy : BOOLEAN]

\* The attempt has a row of its own in actions_log.
Holding(w) == at[w].pc \notin {"idle", "describe", "check", "log"}

\* Every attempt that has begun knows its resource and its policy.
AtTypes ==
    /\ at \in [Workers -> AtRecord]
    /\ \A w \in Workers :
          /\ at[w].pc # "idle" => at[w].res \in Resources /\ at[w].policy \in Policies
          /\ Holding(w) => at[w].row \in 1..Len(log)

CloudTypes ==
    /\ kind \in [Resources -> WatchedKinds]
    /\ cloud \in [Resources -> CloudStates]
    /\ copies \subseteq Resources /\ leftover \subseteq Resources
    /\ policy \in Policies
    /\ rec \in [Resources -> {"pending", "applied"}]
    /\ begun \in 0..MaxAttempts /\ faults \in 0..MaxFaults

LogTypes == log \in Seq(LogRow)

RollbackTypes == rollback \in Seq(RollbackRow)

\* The inductive invariant behind the types.
Types == AtTypes /\ CloudTypes /\ LogTypes /\ RollbackTypes

\* NoAttempt is an attempt.
LEMMA NoAttemptTyped == NoAttempt \in AtRecord /\ NoAttempt.pc = "idle"
  BY DEF NoAttempt, AtRecord, Steps

\* It holds when nothing was attempted.
LEMMA InitTypes == Init => Types
<1> SUFFICES ASSUME Init PROVE Types
  OBVIOUS
<1>1. AtTypes
  BY NoAttemptTyped DEF Init, AtTypes, Holding
<1>2. CloudTypes
  BY RemediationAssumption DEF Init, CloudTypes, CloudStates
<1>3. LogTypes /\ RollbackTypes
  BY EmptySeq DEF Init, LogTypes, RollbackTypes
<1> QED
  BY <1>1, <1>2, <1>3 DEF Types

-----------------------------------------------------------------------------
(* What each step does.                                                    *)

\* actions_log with another status in row i.
SetStatus(l, i, st) == [l EXCEPT ![i].status = st]

\* Only worker w moves, and while it goes on it deals with the same resource.
Moves(w) ==
    /\ at' \in [Workers -> AtRecord]
    /\ \A v \in Workers : v # w => at'[v] = at[v]
    /\ at'[w].pc # "idle" =>
          /\ at'[w].res = at[w].res /\ at'[w].dry = at[w].dry
          /\ at'[w].policy = at[w].policy /\ at'[w].since = at[w].since

\* It keeps the row it has in actions_log.
SameRow(w) == at'[w].pc # "idle" => at'[w].row = at[w].row

\* Goes moves a worker to a step and changes nothing else of its attempt.
LEMMA GoesEffect ==
    ASSUME AtTypes, NEW w \in Workers, NEW step \in Steps, Goes(w, step)
    PROVE  Moves(w) /\ SameRow(w) /\ at'[w].pc = step
<1> DEFINE a == [at[w] EXCEPT !.pc = step]
<1>1. at[w] \in AtRecord
  BY DEF AtTypes
<1>2. a \in AtRecord /\ a.pc = step /\ a.res = at[w].res /\ a.dry = at[w].dry
      /\ a.policy = at[w].policy /\ a.since = at[w].since /\ a.row = at[w].row
  BY <1>1 DEF AtRecord
<1>3. at' = [at EXCEPT ![w] = a]
  BY DEF Goes
<1> HIDE DEF a
<1>4. at' \in [Workers -> AtRecord] /\ at'[w] = a /\ \A v \in Workers : v # w => at'[v] = at[v]
  BY <1>2, <1>3 DEF AtTypes
<1> QED
  BY <1>2, <1>4 DEF Moves, SameRow

\* Ends takes the attempt of a worker away.
LEMMA EndsEffect ==
    ASSUME AtTypes, NEW w \in Workers, Ends(w)
    PROVE  Moves(w) /\ SameRow(w) /\ at'[w].pc = "idle"
<1>1. at' \in [Workers -> AtRecord] /\ at'[w] = NoAttempt
      /\ \A v \in Workers : v # w => at'[v] = at[v]
  BY NoAttemptTyped DEF Ends, AtTypes
<1> QED
  BY <1>1, NoAttemptTyped DEF Moves, SameRow

\* A fault leaves a mark; without one the counters stand still.
Counted == faults' \in 0..MaxFaults /\ faults' >= faults /\ begun' = begun

\* A step that counts a fault, and one that does not.
LEMMA CountedByFault ==
    ASSUME CloudTypes
    PROVE  (Fault => Counted /\ faults' > 0) /\ (UNCHANGED bounds => Counted)
  BY RemediationAssumption DEF CloudTypes, Fault, Counted, bounds

\* What each step of an attempt, a new attempt, the owner and a crash do.
LEMMA DescribeEffect ==
    ASSUME AtTypes, CloudTypes, NEW w \in Workers, Describe(w)
    PROVE  /\ Moves(w) /\ SameRow(w) /\ Counted
           /\ at[w].pc = "describe"
           /\ \/ at'[w].pc = "idle"
              \/ at'[w].pc = "check" /\ StillWasteful(at[w].res)
           /\ UNCHANGED <<world, policy, tables>>
  BY GoesEffect, EndsEffect, CountedByFault DEF Describe, Steps

LEMMA CheckEffect ==
    ASSUME AtTypes, CloudTypes, NEW w \in Workers, Check(w)
    PROVE  /\ Moves(w) /\ SameRow(w) /\ Counted
           /\ at[w].pc = "check" /\ at'[w].pc \in {"idle", "log"}
           /\ UNCHANGED <<world, policy, tables>>
  BY GoesEffect, EndsEffect, CountedByFault DEF Check, Steps

LEMMA LogEffect ==
    ASSUME AtTypes, CloudTypes, LogTypes, NEW w \in Workers, LogAction(w)
    PROVE  /\ Moves(w) /\ Counted
           /\ at[w].pc = "log"
           /\ \/ at'[w].pc = "idle" /\ log' = log
              \/ /\ at'[w].pc = "rollback" /\ at'[w].row = Len(log) + 1
                 /\ log' \in Seq(LogRow) /\ Len(log') = Len(log) + 1
                 /\ \A i \in 1..Len(log) : log'[i] = log[i]
                 /\ log'[Len(log) + 1] = Row(w)
           /\ UNCHANGED <<world, policy, rec, rollback>>
<1>1. at[w] \in AtRecord /\ at[w].pc = "log" /\ Len(log) \in Nat
      /\ UNCHANGED <<world, policy, rec, rollback>>
  BY LenProperties DEF LogAction, AtTypes, LogTypes
<1>2. CASE Fault /\ Ends(w) /\ UNCHANGED log
  BY <1>1, <1>2, EndsEffect, CountedByFault
<1>3. CASE /\ log' = Append(log, Row(w))
           /\ at' = [at EXCEPT ![w].pc = "rollback", ![w].row = Len(log) + 1]
           /\ UNCHANGED bounds
  <2> DEFINE b == [at[w] EXCEPT !.pc = "rollback"]
             a == [b EXCEPT !.row = Len(log) + 1]
  <2>1. b \in AtRecord /\ b.pc = "rollback" /\ b.res = at[w].res /\ b.dry = at[w].dry
        /\ b.policy = at[w].policy /\ b.since = at[w].since
    BY <1>1 DEF AtRecord, Steps
  <2>2. at' = [at EXCEPT ![w] = a]
    BY <1>3 DEF AtTypes
  <2> HIDE DEF b
  <2>3. a \in AtRecord /\ a.pc = "rollback" /\ a.res = at[w].res /\ a.dry = at[w].dry
        /\ a.policy = at[w].policy /\ a.since = at[w].since /\ a.row = Len(log) + 1
    BY <1>1, <2>1 DEF AtRecord
  <2> HIDE DEF a
  <2>4. at' \in [Workers -> AtRecord] /\ at'[w] = a
        /\ \A v \in Workers : v # w => at'[v] = at[v]
    BY <2>2, <2>3 DEF AtTypes
  <2>5. Row(w) \in LogRow
    BY <1>1 DEF Row, LogRow, AtRecord, AtTypes
  <2>6. /\ log' \in Seq(LogRow) /\ Len(log') = Len(log) + 1
        /\ \A i \in 1..Len(log) : log'[i] = log[i]
        /\ log'[Len(log) + 1] = Row(w)
    BY <1>3, <2>5, AppendProperties DEF LogTypes
  <2> QED
    BY <1>1, <1>3, <2>3, <2>4, <2>6, CountedByFault DEF Moves
<1> QED
  BY <1>2, <1>3 DEF LogAction

LEMMA RollbackEffect ==
    ASSUME AtTypes, CloudTypes, RollbackTypes, NEW w \in Workers, CreateRollback(w)
    PROVE  /\ Moves(w) /\ SameRow(w) /\ Counted
           /\ at[w].pc = "rollback"
           /\ \/ at'[w].pc = "idle" /\ rollback' = rollback
              \/ /\ at'[w].pc = AfterRollback(w)
                 /\ rollback' = Append(rollback, [res |-> at[w].res, row |-> at[w].row,
                                                  copy |-> FALSE])
           /\ UNCHANGED <<world, policy, rec, log>>
<1>1. AfterRollback(w) \in Steps
  BY DEF AfterRollback, Steps
<1> QED
  BY <1>1, GoesEffect, EndsEffect, CountedByFault DEF CreateRollback

LEMMA CopyEffect ==
    ASSUME AtTypes, CloudTypes, NEW w \in Workers, CopyVolume(w)
    PROVE  /\ Moves(w) /\ SameRow(w) /\ Counted
           /\ at[w].pc = "copy" /\ at'[w].pc \in {"attach", "fail"}
           /\ at'[w].pc = "attach" => copies' = copies \cup {at[w].res}
           /\ copies' \in {copies, copies \cup {at[w].res}}
           /\ UNCHANGED <<kind, cloud, leftover, policy, tables>>
  BY GoesEffect, CountedByFault DEF CopyVolume, Steps

LEMMA AttachEffect ==
    ASSUME AtTypes, CloudTypes, NEW w \in Workers, AttachCopy(w)
    PROVE  /\ Moves(w) /\ SameRow(w) /\ Counted
           /\ at[w].pc = "attach"
           /\ \/ at'[w].pc = "idle" /\ rollback' = rollback
              \/ /\ at'[w].pc = "act"
                 /\ rollback' = [rollback EXCEPT ![LastRollback(at[w].res)].copy = TRUE]
           /\ UNCHANGED <<world, policy, rec, log>>
  BY GoesEffect, EndsEffect, CountedByFault DEF AttachCopy, Steps

LEMMA ActEffect ==
    ASSUME AtTypes, CloudTypes, NEW w \in Workers, Act(w)
    PROVE  /\ Moves(w) /\ SameRow(w) /\ Counted
           /\ at[w].pc = "act"
           /\ \/ /\ ~Refused(at[w].res)
                 /\ cloud' = [cloud EXCEPT ![at[w].res] = "removed"]
                 /\ \/ at'[w].pc = IF kind[at[w].res] = "image" THEN "clean" ELSE "record"
                    \/ at'[w].pc = "fail" /\ faults' > 0
                 /\ leftover' = IF kind[at[w].res] = "image"
                                THEN leftover \cup {at[w].res} ELSE leftover
              \/ at'[w].pc = "fail" /\ UNCHANGED <<cloud, leftover>>
           /\ UNCHANGED <<kind, copies, policy, tables>>
<1>1. CASE /\ ~Refused(at[w].res)
           /\ cloud' = [cloud EXCEPT ![at[w].res] = "removed"]
           /\ Goes(w, IF kind[at[w].res] = "image" THEN "clean" ELSE "record")
           /\ UNCHANGED bounds
           /\ leftover' = IF kind[at[w].res] = "image"
                          THEN leftover \cup {at[w].res} ELSE leftover
  <2>1. (IF kind[at[w].res] = "image" THEN "clean" ELSE "record") \in Steps
    BY DEF Steps
  <2>2. Moves(w) /\ SameRow(w)
        /\ at'[w].pc = IF kind[at[w].res] = "image" THEN "clean" ELSE "record"
    BY <1>1, <2>1, GoesEffect
  <2> QED
    BY <1>1, <2>2, CountedByFault DEF Act
<1>2. CASE /\ ~Refused(at[w].res)
           /\ cloud' = [cloud EXCEPT ![at[w].res] = "removed"]
           /\ Goes(w, "fail") /\ Fault
           /\ leftover' = IF kind[at[w].res] = "image"
                          THEN leftover \cup {at[w].res} ELSE leftover
  BY <1>2, GoesEffect, CountedByFault DEF Act, Steps
<1>3. CASE Goes(w, "fail") /\ UNCHANGED <<cloud, leftover>>
           /\ (Fault \/ UNCHANGED bounds)
  BY <1>3, GoesEffect, CountedByFault DEF Act, Steps
<1> QED
  BY <1>1, <1>2, <1>3 DEF Act

LEMMA CleanEffect ==
    ASSUME AtTypes, CloudTypes, NEW w \in Workers, CleanImage(w)
    PROVE  /\ Moves(w) /\ SameRow(w) /\ Counted
           /\ at[w].pc = "clean"
           /\ \/ at'[w].pc = "record" /\ leftover' = leftover \ {at[w].res}
              \/ at'[w].pc = "fail" /\ leftover' = leftover /\ faults' > 0
           /\ UNCHANGED <<kind, cloud, copies, policy, tables>>
  BY GoesEffect, CountedByFault DEF CleanImage, Steps

LEMMA RecordEffect ==
    ASSUME AtTypes, CloudTypes, NEW w \in Workers, Record(w)
    PROVE  /\ Moves(w) /\ SameRow(w) /\ Counted
           /\ at[w].pc = "record" /\ at'[w].pc = "idle"
           /\ \/ /\ log' = SetStatus(log, at[w].row, "success")
                 /\ rec' = IF at[w].dry THEN rec ELSE [rec EXCEPT ![at[w].res] = "applied"]
              \/ UNCHANGED <<log, rec>> /\ faults' > 0
           /\ UNCHANGED <<world, policy, rollback>>
  BY EndsEffect, CountedByFault DEF Record, SetStatus

LEMMA FailEffect ==
    ASSUME AtTypes, CloudTypes, NEW w \in Workers, Fail(w)
    PROVE  /\ Moves(w) /\ SameRow(w) /\ Counted
           /\ at[w].pc = "fail" /\ at'[w].pc = "idle"
           /\ log' = SetStatus(log, at[w].row, "failed") \/ log' = log
           /\ UNCHANGED <<world, policy, rec, rollback>>
  BY EndsEffect, CountedByFault DEF Fail, UpdateActionStatus, SetStatus

LEMMA BeginEffect ==
    ASSUME AtTypes, CloudTypes, NEW w \in Workers, NEW r \in Resources,
           NEW dry \in BOOLEAN, Begin(w, r, dry)
    PROVE  /\ at' \in [Workers -> AtRecord]
           /\ \A v \in Workers : v # w => at'[v] = at[v]
           /\ at[w].pc = "idle" /\ at'[w].pc = "describe" /\ at'[w].res = r
           /\ at'[w].policy \in Policies /\ at'[w].since = (cloud[r] = "waste")
           /\ begun' \in 0..MaxAttempts
           /\ UNCHANGED <<world, policy, tables, faults>>
<1> DEFINE s == cloud[r] = "waste"
           a1 == [NoAttempt EXCEPT !.pc = "describe"]
           a2 == [a1 EXCEPT !.res = r]
           a3 == [a2 EXCEPT !.dry = dry]
           a4 == [a3 EXCEPT !.policy = policy]
           a == [a4 EXCEPT !.since = s]
<1>1. s \in BOOLEAN /\ policy \in Policies
  BY DEF CloudTypes
<1>2. at' = [at EXCEPT ![w] = a]
  BY DEF Begin
<1> HIDE DEF s
<1>3. a1 \in AtRecord /\ a1.pc = "describe"
  BY NoAttemptTyped DEF AtRecord, Steps
<1> HIDE DEF a1
<1>4. a2 \in AtRecord /\ a2.pc = "describe" /\ a2.res = r
  BY <1>3 DEF AtRecord
<1> HIDE DEF a2
<1>5. a3 \in AtRecord /\ a3.pc = "describe" /\ a3.res = r
  BY <1>4 DEF AtRecord
<1> HIDE DEF a3
<1>6. a4 \in AtRecord /\ a4.pc = "describe" /\ a4.res = r /\ a4.policy = policy
  BY <1>1, <1>5 DEF AtRecord
<1> HIDE DEF a4
<1>7. a \in AtRecord /\ a.pc = "describe" /\ a.res = r /\ a.policy = policy /\ a.since = s
  BY <1>1, <1>6 DEF AtRecord
<1> HIDE DEF a
<1>8. begun' \in 0..MaxAttempts
  BY RemediationAssumption DEF Begin, CloudTypes
<1>9. /\ at' \in [Workers -> AtRecord] /\ at'[w] = a
      /\ \A v \in Workers : v # w => at'[v] = at[v]
  BY <1>2, <1>7 DEF AtTypes
<1> QED
  BY <1>1, <1>7, <1>8, <1>9 DEF Begin, s

LEMMA OwnerEffect ==
    ASSUME AtTypes, CloudTypes, NEW r \in Resources, OwnerMoves(r)
    PROVE  /\ at' \in [Workers -> AtRecord]
           /\ \A v \in Workers :
                 /\ at'[v].pc = at[v].pc /\ at'[v].res = at[v].res
                 /\ at'[v].dry = at[v].dry /\ at'[v].row = at[v].row
                 /\ at'[v].policy = at[v].policy
                 /\ at[v].since => at'[v].since
                 /\ at[v].res = r /\ cloud'[r] = "waste" => at'[v].since
           /\ cloud[r] \in {"waste", "used"} /\ cloud' \in [Resources -> CloudStates]
           /\ cloud'[r] \in {"waste", "used", "gone"}
           /\ \A q \in Resources : q # r => cloud'[q] = cloud[q]
           /\ UNCHANGED <<kind, copies, leftover, policy, tables, bounds>>
<1>1. PICK s \in {"waste", "used", "gone"} :
           /\ cloud' = [cloud EXCEPT ![r] = s]
           /\ at' = [w \in Workers |->
                      IF at[w].res = r /\ s = "waste"
                      THEN [at[w] EXCEPT !.since = TRUE] ELSE at[w]]
  BY DEF OwnerMoves
<1>2. cloud'[r] = s /\ cloud' \in [Resources -> CloudStates]
      /\ \A q \in Resources : q # r => cloud'[q] = cloud[q]
  BY <1>1 DEF CloudTypes, CloudStates
<1>3. ASSUME NEW v \in Workers
      PROVE  /\ at'[v] \in AtRecord
             /\ at'[v].pc = at[v].pc /\ at'[v].res = at[v].res
             /\ at'[v].dry = at[v].dry /\ at'[v].row = at[v].row
             /\ at'[v].policy = at[v].policy
             /\ at[v].since => at'[v].since
             /\ at[v].res = r /\ s = "waste" => at'[v].since
  <2>1. at[v] \in AtRecord
    BY DEF AtTypes
  <2>2. CASE at[v].res = r /\ s = "waste"
    <3> DEFINE a == [at[v] EXCEPT !.since = TRUE]
    <3>1. a \in AtRecord /\ a.pc = at[v].pc /\ a.res = at[v].res /\ a.dry = at[v].dry
          /\ a.row = at[v].row /\ a.policy = at[v].policy /\ a.since
      BY <2>1 DEF AtRecord
    <3>2. at'[v] = a
      BY <1>1, <2>2
    <3> HIDE DEF a
    <3> QED
      BY <3>1, <3>2
  <2>3. CASE ~(at[v].res = r /\ s = "waste")
    <3>1. at'[v] = at[v]
      BY <1>1, <2>3
    <3> QED
      BY <2>1, <2>3, <3>1
  <2> QED
    BY <2>2, <2>3
<1>4. at' \in [Workers -> AtRecord]
  <2>1. at' = [w \in Workers |-> at'[w]]
    BY <1>1
  <2> QED
    BY <1>3, <2>1
<1> QED
  BY <1>2, <1>3, <1>4 DEF OwnerMoves

LEMMA CrashEffect ==
    ASSUME AtTypes, CloudTypes, Crash
    PROVE  /\ at' \in [Workers -> AtRecord] /\ \A v \in Workers : at'[v].pc = "idle"
           /\ Counted /\ faults' > 0
           /\ UNCHANGED <<world, policy, tables>>
  BY NoAttemptTyped, CountedByFault DEF Crash

-----------------------------------------------------------------------------
(* The tables keep what they hold.                                         *)

\* Giving a row of the history a status changes nothing else.
LEMMA StatusSet ==
    ASSUME NEW l \in Seq(LogRow), NEW i \in 1..Len(l),
           NEW st \in {"pending", "success", "failed"}
    PROVE  LET m == SetStatus(l, i, st)
           IN  /\ m \in Seq(LogRow) /\ Len(m) = Len(l)
               /\ \A j \in 1..Len(l) :
                     /\ m[j].res = l[j].res /\ m[j].dry = l[j].dry
                     /\ j # i => m[j] = l[j]
               /\ m[i].status = st
<1> DEFINE e == [l[i] EXCEPT !.status = st]
           m == [l EXCEPT ![i] = e]
<1>1. l[i] \in LogRow
  BY ElementOfSeq
<1>2. e \in LogRow /\ e.res = l[i].res /\ e.dry = l[i].dry /\ e.status = st
  BY <1>1 DEF LogRow
<1>3. SetStatus(l, i, st) = m
  BY DEF SetStatus
<1> HIDE DEF e
<1>4. m \in Seq(LogRow) /\ Len(m) = Len(l)
      /\ \A j \in 1..Len(l) : m[j] = IF j = i THEN e ELSE l[j]
  BY <1>2, ExceptSeq
<1> HIDE DEF m
<1> QED
  BY <1>2, <1>3, <1>4

\* Giving a row of the rollbacks its copy changes nothing else.
LEMMA CopySet ==
    ASSUME NEW l \in Seq(RollbackRow), NEW i
    PROVE  LET m == [l EXCEPT ![i].copy = TRUE]
           IN  /\ m \in Seq(RollbackRow) /\ Len(m) = Len(l)
               /\ \A j \in 1..Len(l) :
                     /\ m[j].res = l[j].res /\ m[j].row = l[j].row
                     /\ l[j].copy => m[j].copy
               /\ i \in 1..Len(l) => m[i].copy
<1> DEFINE e == [l[i] EXCEPT !.copy = TRUE]
           m == [l EXCEPT ![i] = e]
<1>1. [l EXCEPT ![i].copy = TRUE] = m
  OBVIOUS
<1>2. CASE i \in 1..Len(l)
  <2>1. l[i] \in RollbackRow
    BY <1>2, ElementOfSeq
  <2>2. e \in RollbackRow /\ e.res = l[i].res /\ e.row = l[i].row /\ e.copy
    BY <2>1 DEF RollbackRow
  <2> HIDE DEF e
  <2>3. m \in Seq(RollbackRow) /\ Len(m) = Len(l)
        /\ \A j \in 1..Len(l) : m[j] = IF j = i THEN e ELSE l[j]
    BY <1>2, <2>2, ExceptSeq
  <2> HIDE DEF m
  <2> QED
    BY <1>1, <1>2, <2>2, <2>3
<1>3. CASE i \notin 1..Len(l)
  <2>1. l = [j \in 1..Len(l) |-> l[j]] /\ DOMAIN l = 1..Len(l)
    BY LenProperties
  <2> HIDE DEF e
  <2>2. m = l
    BY <1>3, <2>1
  <2> HIDE DEF m
  <2> QED
    BY <1>1, <1>3, <2>2
<1> QED
  BY <1>2, <1>3

\* What a step does to actions_log: rows stay, with their resource and their run.
LEMMA LogStep ==
    ASSUME Types, [Next]_vars
    PROVE  /\ LogTypes' /\ Len(log) \in Nat /\ Len(log') \in Nat /\ Len(log') >= Len(log)
           /\ \A i \in 1..Len(log) : log'[i].res = log[i].res /\ log'[i].dry = log[i].dry
<1>0. Len(log) \in Nat
  BY LenProperties DEF Types, LogTypes
<1>1. ASSUME NEW w \in Workers, LogAction(w)
      PROVE  /\ LogTypes' /\ Len(log') >= Len(log)
             /\ \A i \in 1..Len(log) : log'[i] = log[i]
  BY <1>0, <1>1, LogEffect DEF Types, LogTypes
<1>2. ASSUME NEW w \in Workers, Record(w) \/ Fail(w), log' # log
      PROVE  /\ LogTypes' /\ Len(log') = Len(log)
             /\ \A i \in 1..Len(log) : log'[i].res = log[i].res /\ log'[i].dry = log[i].dry
  <2>1. PICK st \in {"success", "failed"} : log' = SetStatus(log, at[w].row, st)
    BY <1>2, RecordEffect, FailEffect DEF Types
  <2>2. at[w].row \in 1..Len(log)
    BY <1>2, RecordEffect, FailEffect DEF Types, AtTypes, Holding
  <2>3. log \in Seq(LogRow) /\ st \in {"pending", "success", "failed"}
    BY DEF Types, LogTypes
  <2>4. /\ log' \in Seq(LogRow) /\ Len(log') = Len(log)
        /\ \A j \in 1..Len(log) :
              log'[j].res = log[j].res /\ log'[j].dry = log[j].dry
    BY ONLY <2>1, <2>2, <2>3, StatusSet
  <2> QED
    BY <2>4 DEF LogTypes
<1>3. CASE log' = log
  BY <1>0, <1>3 DEF Types, LogTypes
<1>4. log' = log \/ \E w \in Workers : LogAction(w) \/ Record(w) \/ Fail(w)
  BY DEF Next, vars, Attempt, Describe, Check, CreateRollback, CopyVolume, AttachCopy, Act,
     CleanImage, Begin, OwnerMoves, EditPolicy, Crash, tables
<1>5. LogTypes' /\ Len(log') >= Len(log)
      /\ \A i \in 1..Len(log) : log'[i].res = log[i].res /\ log'[i].dry = log[i].dry
  BY <1>0, <1>1, <1>2, <1>3, <1>4
<1> QED
  BY <1>0, <1>5, LenProperties DEF LogTypes

\* What a step does to rollback_snapshots: rows stay, and a copy stays attached.
LEMMA RollbackStep ==
    ASSUME Types, [Next]_vars
    PROVE  /\ RollbackTypes' /\ Len(rollback) \in Nat /\ Len(rollback') \in Nat
           /\ Len(rollback') >= Len(rollback)
           /\ \A j \in 1..Len(rollback) :
                 /\ rollback'[j].res = rollback[j].res /\ rollback'[j].row = rollback[j].row
                 /\ rollback[j].copy => rollback'[j].copy
<1>0. Len(rollback) \in Nat
  BY LenProperties DEF Types, RollbackTypes
<1>1. ASSUME NEW w \in Workers, CreateRollback(w), rollback' # rollback
      PROVE  /\ RollbackTypes' /\ Len(rollback') >= Len(rollback)
             /\ \A j \in 1..Len(rollback) : rollback'[j] = rollback[j]
  <2> DEFINE e == [res |-> at[w].res, row |-> at[w].row, copy |-> FALSE]
  <2>1. at[w].pc = "rollback" /\ rollback' = Append(rollback, e)
    BY <1>1, RollbackEffect DEF Types
  <2>2. e \in RollbackRow
    <3>1. at[w].row \in 1..Len(log) /\ at[w].res \in Resources
      BY <2>1 DEF Types, AtTypes, Holding
    <3> QED
      BY <3>1, LogStep DEF RollbackRow
  <2> HIDE DEF e
  <2> QED
    BY <1>0, <2>1, <2>2, AppendProperties DEF Types, RollbackTypes
<1>2. ASSUME NEW w \in Workers, AttachCopy(w), rollback' # rollback
      PROVE  /\ RollbackTypes' /\ Len(rollback') = Len(rollback)
             /\ \A j \in 1..Len(rollback) :
                 /\ rollback'[j].res = rollback[j].res /\ rollback'[j].row = rollback[j].row
                 /\ rollback[j].copy => rollback'[j].copy
  <2>1. rollback' = [rollback EXCEPT ![LastRollback(at[w].res)].copy = TRUE]
    BY <1>2, AttachEffect DEF Types
  <2> QED
    BY <2>1, CopySet DEF Types, RollbackTypes
<1>3. CASE rollback' = rollback
  BY <1>0, <1>3 DEF Types, RollbackTypes
<1>4. rollback' = rollback \/ \E w \in Workers : CreateRollback(w) \/ AttachCopy(w)
  BY DEF Next, vars, Attempt, Describe, Check, LogAction, CopyVolume, Record, Fail, Act,
     CleanImage, Begin, OwnerMoves, EditPolicy, Crash, tables
<1>5. /\ RollbackTypes' /\ Len(rollback') >= Len(rollback)
      /\ \A j \in 1..Len(rollback) :
            /\ rollback'[j].res = rollback[j].res /\ rollback'[j].row = rollback[j].row
            /\ rollback[j].copy => rollback'[j].copy
  BY <1>0, <1>1, <1>2, <1>3, <1>4
<1> QED
  BY <1>0, <1>5, LenProperties DEF RollbackTypes

\* What a step does to the resources and their recommendations: what is removed
\* stays removed, and copies and applied recommendations stay.
LEMMA CloudStep ==
    ASSUME Types, [Next]_vars
    PROVE  /\ CloudTypes' /\ kind' = kind /\ faults' >= faults
           /\ \A r \in Resources : cloud[r] = "removed" => cloud'[r] = "removed"
           /\ copies \subseteq copies'
           /\ \A r \in Resources : rec[r] = "applied" => rec'[r] = "applied"
<1>0. AtTypes /\ CloudTypes /\ faults \in Nat /\ MaxAttempts \in Nat /\ MaxFaults \in Nat
  BY RemediationAssumption DEF Types, CloudTypes
<1> DEFINE Goal == /\ CloudTypes' /\ kind' = kind /\ faults' >= faults
                   /\ \A r \in Resources : cloud[r] = "removed" => cloud'[r] = "removed"
                   /\ copies \subseteq copies'
                   /\ \A r \in Resources : rec[r] = "applied" => rec'[r] = "applied"
<1>1. ASSUME UNCHANGED <<world, policy, rec>>, Counted PROVE Goal
  BY <1>0, <1>1 DEF CloudTypes, world, Counted
<1>2. ASSUME NEW w \in Workers, Attempt(w) PROVE Goal
  <2>1. CASE Describe(w) \/ Check(w)
    BY <1>0, <1>1, <2>1, DescribeEffect, CheckEffect DEF tables
  <2>2. CASE LogAction(w)
    BY <1>0, <1>1, <2>2, LogEffect DEF Types
  <2>3. CASE CreateRollback(w) \/ AttachCopy(w)
    BY <1>0, <1>1, <2>3, RollbackEffect, AttachEffect DEF Types
  <2>4. CASE CopyVolume(w)
    <3>1. at[w].res \in Resources
      BY <1>0, <2>4, CopyEffect DEF AtTypes
    <3> QED
      BY <1>0, <2>4, <3>1, CopyEffect DEF CloudTypes, Counted, tables
  <2>5. CASE Act(w)
    <3>1. at[w].res \in Resources
      BY <1>0, <2>5, ActEffect DEF AtTypes
    <3>2. cloud' \in [Resources -> CloudStates] /\ leftover' \subseteq Resources
          /\ \A r \in Resources : cloud[r] = "removed" => cloud'[r] = "removed"
      BY <1>0, <2>5, <3>1, ActEffect DEF CloudTypes, CloudStates
    <3> QED
      BY <1>0, <2>5, <3>2, ActEffect DEF CloudTypes, Counted, tables
  <2>6. CASE CleanImage(w)
    <3>1. leftover' \subseteq leftover
      BY <1>0, <2>6, CleanEffect
    <3> QED
      BY <1>0, <2>6, <3>1, CleanEffect DEF CloudTypes, Counted, tables
  <2>7. CASE Record(w)
    <3>1. at[w].res \in Resources
      BY <1>0, <2>7, RecordEffect DEF AtTypes
    <3>2. rec' \in [Resources -> {"pending", "applied"}]
          /\ \A r \in Resources : rec[r] = "applied" => rec'[r] = "applied"
      BY <1>0, <2>7, <3>1, RecordEffect DEF CloudTypes
    <3> QED
      BY <1>0, <2>7, <3>2, RecordEffect DEF CloudTypes, Counted, world
  <2>8. CASE Fail(w)
    BY <1>0, <1>1, <2>8, FailEffect
  <2> QED
    BY <1>2, <2>1, <2>2, <2>3, <2>4, <2>5, <2>6, <2>7, <2>8 DEF Attempt
<1>3. ASSUME NEW w \in Workers, NEW r \in Resources, NEW dry \in BOOLEAN, Begin(w, r, dry)
      PROVE  Goal
  <2>1. begun' \in 0..MaxAttempts /\ UNCHANGED <<world, policy, tables, faults>>
    BY <1>0, <1>3, BeginEffect
  <2> QED
    BY <1>0, <2>1 DEF CloudTypes, world, tables
<1>4. ASSUME NEW r \in Resources, OwnerMoves(r) PROVE Goal
  <2>1. /\ cloud[r] \in {"waste", "used"} /\ cloud' \in [Resources -> CloudStates]
        /\ \A q \in Resources : q # r => cloud'[q] = cloud[q]
        /\ UNCHANGED <<kind, copies, leftover, policy, tables, bounds>>
    BY <1>0, <1>4, OwnerEffect
  <2> QED
    BY <1>0, <2>1 DEF CloudTypes, tables, bounds
<1>5. CASE EditPolicy
  BY <1>0, <1>5 DEF EditPolicy, CloudTypes, world, tables, bounds
<1>6. CASE Crash
  BY <1>0, <1>1, <1>6, CrashEffect DEF tables
<1>7. CASE UNCHANGED vars
  BY <1>0, <1>7 DEF CloudTypes, vars
<1> QED
  BY <1>2, <1>3, <1>4, <1>5, <1>6, <1>7 DEF Next

\* A step of an attempt is that of its worker alone.
LEMMA AttemptMoves ==
    ASSUME Types, NEW w \in Workers, Attempt(w)
    PROVE  Moves(w) /\ at[w].pc # "idle" /\ (SameRow(w) \/ LogAction(w))
  BY DescribeEffect, CheckEffect, LogEffect, RollbackEffect, CopyEffect, AttachEffect,
     ActEffect, CleanEffect, RecordEffect, FailEffect DEF Attempt, Types

\* Only the write to AWS removes a resource.
LEMMA RemovedByAct ==
    ASSUME Types, [Next]_vars, NEW r \in Resources, cloud'[r] = "removed", cloud[r] # "removed"
    PROVE  \E w \in Workers : Act(w) /\ at[w].res = r /\ ~Refused(r)
<1>1. ASSUME NEW w \in Workers, Act(w)
      PROVE  at[w].res = r /\ ~Refused(r)
  <2>1. at[w].res \in Resources
    BY <1>1, ActEffect DEF Types, AtTypes
  <2> QED
    BY <1>1, <2>1, ActEffect DEF Types, CloudTypes
<1>2. ~ \E q \in Resources : OwnerMoves(q)
  BY OwnerEffect DEF Types
<1>3. \E w \in Workers : Act(w)
  BY <1>2 DEF Next, vars, Attempt, Describe, Check, LogAction, CreateRollback, CopyVolume,
     AttachCopy, CleanImage, Record, Fail, Begin, EditPolicy, Crash, world
<1> QED
  BY <1>1, <1>3

\* Every step keeps the attempts well formed.
LEMMA AtStep == ASSUME Types, [Next]_vars PROVE AtTypes'
<1>0. /\ Len(log) \in Nat /\ Len(log') \in Nat /\ Len(log') >= Len(log)
      /\ \A v \in Workers :
            /\ at[v].pc # "idle" => at[v].res \in Resources /\ at[v].policy \in Policies
            /\ Holding(v) => at[v].row \in 1..Len(log')
  BY LogStep DEF Types, AtTypes
<1>1. ASSUME NEW w \in Workers, Attempt(w) PROVE AtTypes'
  <2>1. Moves(w) /\ at[w].pc # "idle"
    BY <1>1, AttemptMoves
  <2>2. at'[w].pc # "idle" => at'[w].res \in Resources /\ at'[w].policy \in Policies
    BY <1>0, <2>1 DEF Moves
  <2>3. Holding(w)' => at'[w].row \in 1..Len(log')
    <3>1. CASE LogAction(w)
      <4>1. at'[w].pc = "idle" \/ (at'[w].row = Len(log) + 1 /\ Len(log') = Len(log) + 1)
        BY <3>1, LogEffect DEF Types
      <4> QED
        BY <1>0, <4>1 DEF Holding
    <3>2. CASE Describe(w) \/ Check(w)
      BY <3>2, DescribeEffect, CheckEffect DEF Types, Holding
    <3>3. CASE ~LogAction(w) /\ ~Describe(w) /\ ~Check(w)
      <4>1. Holding(w)
        BY <1>1, <3>3, RollbackEffect, CopyEffect, AttachEffect, ActEffect, CleanEffect,
           RecordEffect, FailEffect DEF Types, Attempt, Holding
      <4>2. SameRow(w)
        BY <1>1, <3>3, AttemptMoves
      <4> QED
        BY <1>0, <4>1, <4>2 DEF SameRow, Holding
    <3> QED
      BY <3>1, <3>2, <3>3
  <2> QED
    BY <1>0, <2>1, <2>2, <2>3 DEF Moves, AtTypes, Holding
<1>2. ASSUME NEW w \in Workers, NEW r \in Resources, NEW dry \in BOOLEAN, Begin(w, r, dry)
      PROVE  AtTypes'
  <2>1. /\ at' \in [Workers -> AtRecord]
        /\ \A v \in Workers : v # w => at'[v] = at[v]
        /\ at'[w].pc = "describe" /\ at'[w].res = r /\ at'[w].policy \in Policies
    BY <1>2, BeginEffect DEF Types
  <2> QED
    BY <1>0, <2>1 DEF AtTypes, Holding
<1>3. ASSUME NEW r \in Resources, OwnerMoves(r) PROVE AtTypes'
  <2>1. /\ at' \in [Workers -> AtRecord]
        /\ \A v \in Workers :
              /\ at'[v].pc = at[v].pc /\ at'[v].res = at[v].res
              /\ at'[v].row = at[v].row /\ at'[v].policy = at[v].policy
    BY <1>3, OwnerEffect DEF Types
  <2> QED
    BY <1>0, <2>1 DEF AtTypes, Holding
<1>4. CASE Crash
  BY <1>4, CrashEffect DEF Types, AtTypes, Holding
<1>5. CASE at' = at
  BY <1>0, <1>5 DEF Types, AtTypes, Holding
<1> QED
  BY <1>1, <1>2, <1>3, <1>4, <1>5 DEF Next, vars, EditPolicy

\* Every step keeps the types.
LEMMA TypesStep == ASSUME Types, [Next]_vars PROVE Types'
  BY AtStep, CloudStep, LogStep, RollbackStep DEF Types

\* Types is an invariant of the specification.
THEOREM TypesHold == Spec => []Types
<1>1. Init => Types
  BY InitTypes
<1>2. Types /\ [Next]_vars => Types'
  BY TypesStep
<1> QED
  BY <1>1, <1>2, PTL DEF Spec

\* Every variable of Remediation always has its type.
THEOREM TypeCorrect == Spec => []TypeOK
<1>1. Types => TypeOK
  <2> SUFFICES ASSUME Types PROVE TypeOK
    OBVIOUS
  <2>1. ASSUME NEW w \in Workers
        PROVE  /\ at[w].pc \in Steps /\ at[w].row \in Nat
               /\ at[w].dry \in BOOLEAN /\ at[w].since \in BOOLEAN
               /\ at[w].pc # "idle" => at[w].res \in Resources /\ at[w].policy \in Policies
    BY DEF Types, AtTypes, AtRecord
  <2> QED
    BY <2>1 DEF Types, CloudTypes, LogTypes, RollbackTypes, LogRow, RollbackRow, TypeOK
<1> QED
  BY <1>1, TypesHold, PTL

-----------------------------------------------------------------------------
(* What an attempt knows of its rows.                                      *)

\* The row of an attempt is pending, about its resource, and its own.
Owned(w) ==
    /\ log[at[w].row].res = at[w].res /\ log[at[w].row].dry = at[w].dry
    /\ log[at[w].row].status = "pending"

\* No two attempts share a row.
RowsOwned ==
    /\ \A w \in Workers : Holding(w) => Owned(w)
    /\ \A v, w \in Workers : Holding(v) /\ Holding(w) /\ at[v].row = at[w].row => v = w

\* An attempt gets its row from LogAction and keeps it until it ends.
LEMMA HoldingBefore ==
    ASSUME Types, NEW w \in Workers, Attempt(w), Holding(w)'
    PROVE  (Holding(w) /\ SameRow(w)) \/ LogAction(w)
<1>1. CASE Describe(w) \/ Check(w)
  BY <1>1, DescribeEffect, CheckEffect DEF Types, Holding
<1>2. CASE ~Describe(w) /\ ~Check(w) /\ ~LogAction(w)
  BY <1>2, RollbackEffect, CopyEffect, AttachEffect, ActEffect, CleanEffect,
     RecordEffect, FailEffect DEF Types, Attempt, Holding
<1> QED
  BY <1>1, <1>2

\* A step of an attempt changes no row but its own.
LEMMA OtherRowsStay ==
    ASSUME Types, RowsOwned, NEW w \in Workers, Attempt(w)
    PROVE  /\ \A v \in Workers : v # w /\ Holding(v) => log'[at[v].row] = log[at[v].row]
           /\ \A i \in 1..Len(log) : log[i].status = "success" => log'[i] = log[i]
<1>1. CASE log' = log
  BY <1>1
<1>2. CASE LogAction(w)
  BY <1>2, LogEffect DEF Types, AtTypes
<1>3. CASE (Record(w) \/ Fail(w)) /\ log' # log
  <2>1. Holding(w) /\ at[w].row \in 1..Len(log)
        /\ \E st \in {"success", "failed"} : log' = SetStatus(log, at[w].row, st)
    BY <1>3, RecordEffect, FailEffect DEF Types, AtTypes, Holding
  <2>2. \A j \in 1..Len(log) : j # at[w].row => log'[j] = log[j]
    BY <2>1, StatusSet DEF Types, LogTypes
  <2>3. log[at[w].row].status = "pending"
    BY <2>1 DEF RowsOwned, Owned
  <2>4. ASSUME NEW v \in Workers, v # w, Holding(v)
        PROVE  at[v].row \in 1..Len(log) /\ at[v].row # at[w].row
    BY <2>1, <2>4 DEF RowsOwned, Types, AtTypes
  <2> QED
    BY <2>2, <2>3, <2>4
<1> QED
  BY <1>1, <1>2, <1>3 DEF Attempt, Describe, Check, CreateRollback, CopyVolume, AttachCopy,
     Act, CleanImage, tables

\* Every other step leaves the rows and their owners as they are.
LEMMA OthersQuiet ==
    ASSUME Types, [Next]_vars, ~ \E w \in Workers : Attempt(w)
    PROVE  /\ UNCHANGED <<kind, copies, leftover, tables>>
           /\ \A v \in Workers :
                 at'[v].pc \notin {"idle", "describe"} =>
                    /\ at'[v].pc = at[v].pc /\ at'[v].res = at[v].res
                    /\ at'[v].dry = at[v].dry /\ at'[v].row = at[v].row
           /\ \A r \in Resources : cloud'[r] = "removed" => cloud[r] = "removed"
           /\ faults' > 0 \/ \A v \in Workers :
                 at[v].pc # "idle" => at'[v].pc = at[v].pc /\ at'[v].res = at[v].res
                                      /\ at'[v].dry = at[v].dry
<1>0. AtTypes /\ CloudTypes
  BY DEF Types
<1>1. ASSUME NEW w \in Workers, NEW r \in Resources, NEW dry \in BOOLEAN, Begin(w, r, dry)
      PROVE  /\ UNCHANGED <<world, tables>> /\ at'[w].pc = "describe" /\ at[w].pc = "idle"
             /\ \A v \in Workers : v # w => at'[v] = at[v]
  BY <1>0, <1>1, BeginEffect
<1>2. ASSUME NEW r \in Resources, OwnerMoves(r)
      PROVE  /\ UNCHANGED <<kind, copies, leftover, tables>>
             /\ \A v \in Workers :
                   /\ at'[v].pc = at[v].pc /\ at'[v].res = at[v].res
                   /\ at'[v].dry = at[v].dry /\ at'[v].row = at[v].row
             /\ \A q \in Resources : cloud'[q] = "removed" => cloud[q] = "removed"
  BY <1>0, <1>2, OwnerEffect
<1>3. CASE EditPolicy \/ UNCHANGED vars
  BY <1>3 DEF EditPolicy, vars, world, tables
<1>4. CASE Crash
  BY <1>0, <1>4, CrashEffect DEF world
<1> QED
  BY <1>1, <1>2, <1>3, <1>4 DEF Next, world

\* Every step keeps the rows owned.
LEMMA RowsOwnedStep ==
    ASSUME Types, RowsOwned, [Next]_vars
    PROVE  RowsOwned'
<1>1. ASSUME NEW w \in Workers, Attempt(w) PROVE RowsOwned'
  <2>1. Moves(w) /\ \A v \in Workers : v # w => at'[v] = at[v]
    BY <1>1, AttemptMoves DEF Moves
  <2>2. ASSUME NEW v \in Workers, v # w, Holding(v)' PROVE Holding(v) /\ Owned(v)'
    <3>1. Holding(v) /\ at'[v] = at[v] /\ log'[at[v].row] = log[at[v].row]
      BY <1>1, <2>1, <2>2, OtherRowsStay DEF Holding
    <3> QED
      BY <3>1 DEF RowsOwned, Owned
  <2>3. CASE LogAction(w)
    <3>1. ASSUME Holding(w)'
          PROVE  at'[w].row = Len(log) + 1 /\ Owned(w)'
      <4>1. at'[w].row = Len(log) + 1 /\ log'[Len(log) + 1] = Row(w)
            /\ at'[w].res = at[w].res /\ at'[w].dry = at[w].dry
        BY <2>3, <3>1, LogEffect DEF Types, Holding, Moves
      <4> QED
        BY <4>1 DEF Owned, Row
    <3>2. ASSUME NEW v \in Workers, v # w, Holding(v)'
          PROVE  at'[v].row # Len(log) + 1
      <4>1. at'[v].row \in 1..Len(log)
        BY <2>1, <2>2, <3>2 DEF Types, AtTypes, Holding
      <4> QED
        BY <4>1, LogStep
    <3> QED
      BY <2>1, <2>2, <3>1, <3>2 DEF RowsOwned
  <2>4. CASE ~LogAction(w)
    <3>1. ASSUME Holding(w)'
          PROVE  Holding(w) /\ at'[w].row = at[w].row /\ Owned(w)'
      <4>1. Holding(w) /\ SameRow(w)
        BY <1>1, <2>4, <3>1, HoldingBefore
      <4>2. log' = log
        <5>1. ~Record(w) /\ ~Fail(w)
          BY <3>1, RecordEffect, FailEffect DEF Types, Holding
        <5> QED
          BY <1>1, <2>4, <5>1 DEF Attempt, Describe, Check, CreateRollback, CopyVolume,
             AttachCopy, Act, CleanImage, tables
      <4> QED
        BY <2>1, <3>1, <4>1, <4>2 DEF Moves, SameRow, Holding, RowsOwned, Owned
    <3> QED
      BY <2>1, <2>2, <3>1 DEF RowsOwned
  <2> QED
    BY <2>3, <2>4
<1>2. CASE ~ \E w \in Workers : Attempt(w)
  <2>1. ASSUME NEW v \in Workers, Holding(v)'
        PROVE  Holding(v) /\ at'[v].row = at[v].row /\ Owned(v)'
    BY <1>2, <2>1, OthersQuiet DEF Holding, RowsOwned, Owned, tables
  <2> QED
    BY <2>1 DEF RowsOwned
<1> QED
  BY <1>1, <1>2

\* The state before is saved under the row of the attempt.
Saved(w) == at[w].pc \in {"copy", "attach", "act", "clean", "record", "fail"}

\* From the call to AWS on, the state before is saved.
StateSaved ==
    \A w \in Workers :
        Saved(w) => \E j \in 1..Len(rollback) :
                       rollback[j].row = at[w].row /\ rollback[j].res = at[w].res

\* CreateRollback is the only way to those places.
LEMMA StateSavedStep ==
    ASSUME Types, StateSaved, [Next]_vars
    PROVE  StateSaved'
<1>0. /\ Len(rollback) \in Nat /\ Len(rollback') \in Nat /\ Len(rollback') >= Len(rollback)
      /\ \A j \in 1..Len(rollback) :
            rollback'[j].res = rollback[j].res /\ rollback'[j].row = rollback[j].row
  BY RollbackStep
<1>1. ASSUME NEW v \in Workers, Saved(v), at'[v].row = at[v].row, at'[v].res = at[v].res
      PROVE  \E j \in 1..Len(rollback') :
                rollback'[j].row = at'[v].row /\ rollback'[j].res = at'[v].res
  BY <1>0, <1>1 DEF StateSaved
<1>2. ASSUME NEW w \in Workers, Attempt(w) PROVE StateSaved'
  <2>1. Moves(w) /\ \A v \in Workers : v # w => at'[v] = at[v]
    BY <1>2, AttemptMoves DEF Moves
  <2>2. ASSUME Saved(w)'
        PROVE  \E j \in 1..Len(rollback') :
                  rollback'[j].row = at'[w].row /\ rollback'[j].res = at'[w].res
    <3>1. CASE CreateRollback(w)
      <4> DEFINE e == [res |-> at[w].res, row |-> at[w].row, copy |-> FALSE]
      <4>1. /\ rollback' = Append(rollback, e)
            /\ at'[w].row = at[w].row /\ at'[w].res = at[w].res
        BY <2>2, <3>1, RollbackEffect DEF Types, Saved, Moves, SameRow
      <4>2. rollback'[Len(rollback) + 1] = e /\ Len(rollback') = Len(rollback) + 1
        BY <4>1 DEF Types, RollbackTypes
      <4> QED
        BY <1>0, <4>1, <4>2
    <3>2. CASE ~CreateRollback(w)
      <4>1. Saved(w) /\ SameRow(w)
        BY <1>2, <2>2, <3>2, DescribeEffect, CheckEffect, LogEffect, CopyEffect, AttachEffect,
           ActEffect, CleanEffect, RecordEffect, FailEffect DEF Attempt, Types, Saved
      <4> QED
        BY <1>1, <2>1, <2>2, <4>1 DEF Saved, Moves, SameRow
    <3> QED
      BY <3>1, <3>2
  <2> QED
    BY <1>1, <2>1, <2>2 DEF StateSaved, Saved
<1>3. CASE ~ \E w \in Workers : Attempt(w)
  BY <1>1, <1>3, OthersQuiet DEF StateSaved, Saved
<1> QED
  BY <1>2, <1>3

\* Only an attempt in earnest writes to AWS, and only volumes are copied.
Earnest(w) ==
    /\ at[w].pc \in {"copy", "attach", "act", "clean", "fail"} => ~at[w].dry
    /\ at[w].pc \in {"copy", "attach"} => kind[at[w].res] = "volume"

\* Every attempt is in earnest where it has to be.
InEarnest == \A w \in Workers : Earnest(w)

\* A dry run goes from its rollback straight to its record.
LEMMA InEarnestStep ==
    ASSUME Types, InEarnest, [Next]_vars
    PROVE  InEarnest'
<1>0. kind' = kind
  BY CloudStep
<1>1. ASSUME NEW w \in Workers, Attempt(w) PROVE InEarnest'
  <2>1. Moves(w) /\ \A v \in Workers : v # w => at'[v] = at[v]
    BY <1>1, AttemptMoves DEF Moves
  <2>2. Earnest(w)'
    <3>1. CASE CreateRollback(w)
      <4>1. at'[w].pc \in {"idle", AfterRollback(w)}
        BY <3>1, RollbackEffect DEF Types
      <4> QED
        BY <1>0, <2>1, <4>1 DEF AfterRollback, Earnest, Moves
    <3>2. CASE ~CreateRollback(w)
      <4>1. \/ at'[w].pc \in {"idle", "check", "log", "rollback", "record"}
            \/ at[w].pc = "copy" /\ at'[w].pc \in {"attach", "fail"}
            \/ at[w].pc \in {"attach", "act", "clean"} /\ at'[w].pc \in {"act", "clean", "fail"}
        BY <1>1, <3>2, DescribeEffect, CheckEffect, LogEffect, CopyEffect, AttachEffect,
           ActEffect, CleanEffect, RecordEffect, FailEffect DEF Attempt, Types
      <4> QED
        BY <1>0, <2>1, <4>1 DEF InEarnest, Earnest, Moves
    <3> QED
      BY <3>1, <3>2
  <2> QED
    BY <1>0, <2>1, <2>2 DEF InEarnest, Earnest
<1>2. CASE ~ \E w \in Workers : Attempt(w)
  <2>1. ASSUME NEW v \in Workers PROVE Earnest(v)'
    BY <1>0, <1>2, OthersQuiet DEF InEarnest, Earnest
  <2> QED
    BY <2>1 DEF InEarnest
<1> QED
  BY <1>1, <1>2

-----------------------------------------------------------------------------
(* Volumes are copied before they are deleted.                             *)

\* Some row of rollback_snapshots says which copy of r there is.
Attached(r) == \E j \in 1..Len(rollback) : rollback[j].res = r /\ rollback[j].copy

\* An attempt on a volume has a copy, and before its write an attached one.
CopyKnown(w) ==
    /\ at[w].pc = "attach" => at[w].res \in copies
    /\ (at[w].pc = "act" /\ kind[at[w].res] = "volume") =>
          at[w].res \in copies /\ Attached(at[w].res)

\* So it is for every attempt, and for every volume that is removed.
CopyTaken == \A w \in Workers : CopyKnown(w)

CopyKept ==
    \A r \in Volumes : cloud[r] = "removed" => r \in copies /\ Attached(r)

\* The newest row of a resource that has one is a row of that resource.
LEMMA LastRollbackIs ==
    ASSUME RollbackTypes, NEW r,
           \E j \in 1..Len(rollback) : rollback[j].res = r
    PROVE  LastRollback(r) \in 1..Len(rollback) /\ rollback[LastRollback(r)].res = r
<1> DEFINE rows == {i \in 1..Len(rollback) : rollback[i].res = r}
           T == {Len(rollback) - i : i \in rows}
<1>1. Len(rollback) \in Nat /\ DOMAIN rollback = 1..Len(rollback)
  BY LenProperties DEF RollbackTypes
<1>2. PICK m \in T : \A n \in T : m <= n
  <2>1. T \subseteq Nat /\ T # {}
    BY <1>1
  <2> HIDE DEF T
  <2> QED
    BY <2>1, LeastNat
<1>3. PICK i \in rows : m = Len(rollback) - i
  BY <1>2
<1>4. \A j \in rows : j <= i
  <2>1. ASSUME NEW j \in rows PROVE j <= i
    <3>1. Len(rollback) - j \in T
      OBVIOUS
    <3>2. Len(rollback) - i <= Len(rollback) - j
      BY <1>2, <1>3, <3>1
    <3> QED
      BY <1>1, <3>2
  <2> QED
    BY <2>1
<1>5. /\ i \in DOMAIN rollback /\ rollback[i].res = r
      /\ \A j \in DOMAIN rollback : rollback[j].res = r => j <= i
  BY <1>1, <1>4
<1>6. LastRollback(r) \in DOMAIN rollback /\ rollback[LastRollback(r)].res = r
  BY <1>5 DEF LastRollback
<1> QED
  BY <1>1, <1>6

\* Every step keeps both.
LEMMA CopyStep ==
    ASSUME Types, StateSaved, CopyTaken, CopyKept, [Next]_vars
    PROVE  CopyTaken' /\ CopyKept'
<1>0. /\ kind' = kind /\ copies \subseteq copies'
      /\ \A r : Attached(r) => Attached(r)'
  <2>1. kind' = kind /\ copies \subseteq copies'
    BY CloudStep
  <2>2. ASSUME NEW r, Attached(r) PROVE Attached(r)'
    <3>1. PICK j \in 1..Len(rollback) : rollback[j].res = r /\ rollback[j].copy
      BY <2>2 DEF Attached
    <3>2. j \in 1..Len(rollback') /\ rollback'[j].res = r /\ rollback'[j].copy
      BY <3>1, RollbackStep
    <3> QED
      BY <3>2 DEF Attached
  <2> QED
    BY <2>1, <2>2
<1>1. ASSUME NEW w \in Workers, Attempt(w) PROVE CopyTaken'
  <2>1. Moves(w) /\ \A v \in Workers : v # w => at'[v] = at[v]
    BY <1>1, AttemptMoves DEF Moves
  <2>2. CopyKnown(w)'
    <3>1. CASE CreateRollback(w)
      <4>1. at'[w].pc \in {"idle", AfterRollback(w)}
        BY <3>1, RollbackEffect DEF Types
      <4> QED
        BY <1>0, <2>1, <4>1 DEF AfterRollback, CopyKnown, Moves
    <3>2. CASE CopyVolume(w)
      <4>1. at'[w].pc \in {"attach", "fail"} /\ at'[w].res = at[w].res
            /\ (at'[w].pc = "attach" => at[w].res \in copies')
        BY <2>1, <3>2, CopyEffect DEF Types, Moves
      <4> QED
        BY <4>1 DEF CopyKnown
    <3>3. CASE AttachCopy(w)
      <4>1. SUFFICES ASSUME at'[w].pc = "act"
                     PROVE  /\ at'[w].res \in copies'
                            /\ \E j \in 1..Len(rollback') :
                                  rollback'[j].res = at'[w].res /\ rollback'[j].copy
        BY <3>3, AttachEffect DEF Types, CopyKnown, Attached
      <4> DEFINE r == at[w].res
                 last == LastRollback(r)
      <4>2. /\ at[w].pc = "attach" /\ at'[w].res = r
            /\ rollback' = [rollback EXCEPT ![last].copy = TRUE]
        BY <2>1, <3>3, <4>1, AttachEffect DEF Types, Moves
      <4>3. r \in copies'
        BY <1>0, <4>2 DEF CopyTaken, CopyKnown
      <4>4. last \in 1..Len(rollback) /\ rollback[last].res = r
        <5>1. \E j \in 1..Len(rollback) : rollback[j].res = r
          BY <4>2 DEF StateSaved, Saved
        <5> QED
          BY <5>1, LastRollbackIs DEF Types
      <4> HIDE DEF last
      <4>5. Len(rollback') = Len(rollback) /\ rollback'[last].res = r /\ rollback'[last].copy
        BY <4>2, <4>4, CopySet DEF Types, RollbackTypes
      <4> QED
        BY <4>2, <4>3, <4>4, <4>5
    <3>4. CASE ~CreateRollback(w) /\ ~CopyVolume(w) /\ ~AttachCopy(w)
      <4>1. at'[w].pc \notin {"attach", "act"}
        BY <1>1, <3>4, DescribeEffect, CheckEffect, LogEffect,
           ActEffect, CleanEffect, RecordEffect, FailEffect DEF Attempt, Types
      <4> QED
        BY <4>1 DEF CopyKnown
    <3> QED
      BY <3>1, <3>2, <3>3, <3>4
  <2>3. ASSUME NEW v \in Workers, v # w PROVE CopyKnown(v)'
    BY <1>0, <2>1, <2>3 DEF CopyTaken, CopyKnown
  <2> QED
    BY <2>2, <2>3 DEF CopyTaken
<1>2. ASSUME ~ \E w \in Workers : Attempt(w) PROVE CopyTaken'
  <2>1. ASSUME NEW v \in Workers PROVE CopyKnown(v)'
    <3>1. UNCHANGED <<kind, copies, rollback>>
      BY <1>2, OthersQuiet DEF tables
    <3>2. at'[v].pc \in {"attach", "act"} => at'[v].pc = at[v].pc /\ at'[v].res = at[v].res
      BY <1>2, OthersQuiet
    <3> QED
      BY <3>1, <3>2 DEF CopyTaken, CopyKnown, Attached
  <2> QED
    BY <2>1 DEF CopyTaken
<1>3. CopyKept'
  <2> SUFFICES ASSUME NEW r \in Volumes, cloud'[r] = "removed"
               PROVE  r \in copies' /\ Attached(r)'
    BY <1>0 DEF CopyKept, Volumes
  <2>1. CASE cloud[r] = "removed"
    BY <1>0, <2>1 DEF CopyKept
  <2>2. CASE cloud[r] # "removed"
    <3>1. PICK w \in Workers : Act(w) /\ at[w].res = r
      BY <2>2, RemovedByAct DEF Volumes
    <3>2. at[w].pc = "act" /\ kind[r] = "volume"
      BY <3>1 DEF Act, Volumes
    <3> QED
      BY <1>0, <3>1, <3>2 DEF CopyTaken, CopyKnown
  <2> QED
    BY <2>1, <2>2
<1> QED
  BY <1>1, <1>2, <1>3

\* The inductive invariant behind RollbackIsReal.
CopyInv == Types /\ StateSaved /\ CopyTaken /\ CopyKept

\* RollbackIsReal: a volume that execute_action of VolumeDeleteRemediator deleted was
\* copied before, and a row of rollback_snapshots says which snapshot it is.
THEOREM RollbackReal == Spec => []RollbackIsReal
<1>1. Init => CopyInv
  <2>1. SUFFICES ASSUME Init PROVE CopyInv
    OBVIOUS
  <2>2. /\ \A w \in Workers : at[w].pc = "idle"
        /\ \A r \in Resources : cloud[r] # "removed"
    BY <2>1, NoAttemptTyped DEF Init
  <2> QED
    BY <2>1, <2>2, InitTypes
       DEF CopyInv, StateSaved, Saved, CopyTaken, CopyKnown, CopyKept, Volumes
<1>2. CopyInv /\ [Next]_vars => CopyInv'
  BY TypesStep, StateSavedStep, CopyStep DEF CopyInv
<1>3. CopyInv => RollbackIsReal
  <2>1. SUFFICES ASSUME CopyInv PROVE RollbackIsReal
    OBVIOUS
  <2>2. DOMAIN rollback = 1..Len(rollback)
    BY <2>1, LenProperties DEF CopyInv, Types, RollbackTypes
  <2> QED
    BY <2>1, <2>2 DEF CopyInv, CopyKept, Attached, RollbackIsReal
<1> QED
  BY <1>1, <1>2, <1>3, PTL DEF Spec

-----------------------------------------------------------------------------
(* The resource is seen as waste before it is touched.                     *)

\* An attempt whose resource is waste now has seen it so, and one that was let pass
\* has seen it so or is about a gateway.
SeenBy(w) ==
    at[w].pc # "idle" =>
       /\ cloud[at[w].res] = "waste" => at[w].since
       /\ at[w].pc = "describe" \/ at[w].since \/ kind[at[w].res] = "nat"

\* So it is for every attempt.
Seen == \A w \in Workers : SeenBy(w)

\* The owner moves a resource back to waste in sight of its attempts.
LEMMA SeenStep ==
    ASSUME Types, Seen, [Next]_vars
    PROVE  Seen'
<1>0. kind' = kind /\ AtTypes /\ CloudTypes
  BY CloudStep DEF Types
<1>1. ASSUME NEW w \in Workers, Attempt(w) PROVE Seen'
  <2>1. Moves(w) /\ at[w].pc # "idle" /\ \A v \in Workers : v # w => at'[v] = at[v]
    BY <1>1, AttemptMoves DEF Moves
  <2>2. \A r \in Resources : cloud'[r] = "waste" => cloud[r] = "waste"
    <3>1. CASE Act(w)
      <4>1. at[w].res \in Resources
        BY <2>1 DEF Types, AtTypes
      <4> QED
        BY <1>0, <3>1, <4>1, ActEffect DEF CloudTypes
    <3>2. CASE ~Act(w)
      BY <1>1, <3>2 DEF Attempt, Describe, Check, LogAction, CreateRollback, CopyVolume,
         AttachCopy, CleanImage, Record, Fail, world
    <3> QED
      BY <3>1, <3>2
  <2>3. SeenBy(w)'
    <3>1. SUFFICES ASSUME at'[w].pc # "idle" PROVE SeenBy(w)'
      BY DEF SeenBy
    <3>2. at'[w].res = at[w].res /\ at'[w].since = at[w].since /\ at[w].res \in Resources
          /\ SeenBy(w)
      BY <2>1, <3>1 DEF Moves, Types, AtTypes, Seen
    <3>3. CASE Describe(w)
      <4>1. StillWasteful(at[w].res)
        BY <3>1, <3>3, DescribeEffect DEF Types
      <4> QED
        BY <1>0, <2>1, <2>2, <3>2, <4>1 DEF StillWasteful, SeenBy
    <3>4. CASE ~Describe(w)
      <4>1. at[w].pc # "describe"
        BY <1>1, <3>4, CheckEffect, LogEffect, RollbackEffect, CopyEffect, AttachEffect,
           ActEffect, CleanEffect, RecordEffect, FailEffect DEF Attempt, Types
      <4> QED
        BY <1>0, <2>1, <2>2, <3>2, <4>1 DEF SeenBy
    <3> QED
      BY <3>3, <3>4
  <2>4. ASSUME NEW v \in Workers, v # w PROVE SeenBy(v)'
    BY <1>0, <2>1, <2>2, <2>4 DEF Seen, SeenBy, Types, AtTypes
  <2> QED
    BY <2>3, <2>4 DEF Seen
<1>2. ASSUME NEW w \in Workers, NEW r \in Resources, NEW dry \in BOOLEAN, Begin(w, r, dry)
      PROVE  Seen'
  <2>1. /\ \A v \in Workers : v # w => at'[v] = at[v]
        /\ at'[w].pc = "describe" /\ at'[w].res = r /\ at'[w].since = (cloud[r] = "waste")
        /\ cloud' = cloud
    BY <1>0, <1>2, BeginEffect DEF world
  <2>2. SeenBy(w)'
    BY <2>1 DEF SeenBy
  <2>3. ASSUME NEW v \in Workers, v # w PROVE SeenBy(v)'
    BY <1>0, <2>1, <2>3 DEF Seen, SeenBy
  <2> QED
    BY <2>2, <2>3 DEF Seen
<1>3. ASSUME NEW r \in Resources, OwnerMoves(r) PROVE Seen'
  <2>1. ASSUME NEW v \in Workers PROVE SeenBy(v)'
    <3>1. SUFFICES ASSUME at'[v].pc # "idle" PROVE SeenBy(v)'
      BY DEF SeenBy
    <3>2. /\ at'[v].pc = at[v].pc /\ at'[v].res = at[v].res
          /\ at[v].since => at'[v].since
          /\ at[v].res = r /\ cloud'[r] = "waste" => at'[v].since
          /\ \A q \in Resources : q # r => cloud'[q] = cloud[q]
      BY <1>0, <1>3, OwnerEffect
    <3>3. at[v].res \in Resources /\ SeenBy(v)
      BY <3>1, <3>2 DEF Types, AtTypes, Seen
    <3> QED
      BY <1>0, <3>1, <3>2, <3>3 DEF SeenBy
  <2> QED
    BY <2>1 DEF Seen
<1>4. CASE Crash
  BY <1>0, <1>4, CrashEffect DEF Seen, SeenBy
<1>5. CASE EditPolicy \/ UNCHANGED vars
  BY <1>0, <1>5 DEF EditPolicy, vars, world, Seen, SeenBy
<1> QED
  BY <1>1, <1>2, <1>3, <1>4, <1>5 DEF Next

\* SeenAsWaste: an attempt that verify_still_wasteful let pass writes to AWS only
\* about a resource that was waste since it began, or a NAT gateway.
THEOREM OnlyWasteTouched == Spec => []SeenAsWaste
<1>1. Init => Types /\ Seen
  BY InitTypes, NoAttemptTyped DEF Init, Seen, SeenBy
<1>2. Types /\ Seen /\ [Next]_vars => Types' /\ Seen'
  BY TypesStep, SeenStep
<1>3. Types /\ Seen => SeenAsWaste
  BY DEF Seen, SeenBy, SeenAsWaste
<1> QED
  BY <1>1, <1>2, <1>3, PTL DEF Spec

-----------------------------------------------------------------------------
(* The history is true, and nothing is unlogged.                           *)

\* What an attempt knows once its write was answered.
DoneBy(w) ==
    /\ at[w].pc = "clean" => cloud[at[w].res] = "removed"
    /\ (at[w].pc = "record" /\ ~at[w].dry) =>
          cloud[at[w].res] = "removed" /\ at[w].res \notin leftover

\* Snapshots are left over only of images that are removed; an attempt that goes to
\* record a success in earnest has removed its resource, snapshots included.
Done ==
    /\ \A r \in leftover : cloud[r] = "removed"
    /\ \A w \in Workers : DoneBy(w)

\* What is removed with nothing left over stays so.
LEMMA RemovedWhole ==
    ASSUME Types, [Next]_vars, NEW r \in Resources, cloud[r] = "removed", r \notin leftover
    PROVE  cloud'[r] = "removed" /\ r \notin leftover'
<1>1. cloud'[r] = "removed"
  BY CloudStep
<1>2. ASSUME NEW w \in Workers, Act(w) PROVE r \notin leftover'
  <2>1. leftover' = leftover \/ (~Refused(at[w].res) /\ leftover' = leftover \cup {at[w].res})
    BY <1>2, ActEffect DEF Types
  <2> QED
    BY <2>1 DEF Refused
<1>3. ASSUME NEW w \in Workers, CleanImage(w) PROVE r \notin leftover'
  BY <1>3, CleanEffect DEF Types
<1>4. (\E w \in Workers : Act(w) \/ CleanImage(w)) \/ leftover' = leftover
  BY DEF Next, vars, Attempt, Describe, Check, LogAction, CreateRollback, CopyVolume,
     AttachCopy, Record, Fail, Begin, OwnerMoves, EditPolicy, Crash, world
<1> QED
  BY <1>1, <1>2, <1>3, <1>4

\* Every step keeps it: no attempt undoes what another one did.
LEMMA DoneStep ==
    ASSUME Types, Done, [Next]_vars
    PROVE  Done'
<1>0. AtTypes /\ CloudTypes /\ \A r \in Resources : cloud[r] = "removed" => cloud'[r] = "removed"
  BY CloudStep DEF Types
<1>1. \A r \in leftover' : cloud'[r] = "removed"
  <2>1. ASSUME NEW w \in Workers, Act(w) PROVE \A r \in leftover' : cloud'[r] = "removed"
    <3>1. at[w].res \in Resources
      BY <1>0, <2>1, ActEffect DEF AtTypes
    <3>2. \/ leftover' \subseteq leftover \cup {at[w].res} /\ cloud'[at[w].res] = "removed"
          \/ leftover' = leftover
      BY <1>0, <2>1, <3>1, ActEffect DEF CloudTypes
    <3> QED
      BY <1>0, <3>2 DEF Done, CloudTypes
  <2>2. ASSUME NEW w \in Workers, CleanImage(w) PROVE leftover' \subseteq leftover
    BY <1>0, <2>2, CleanEffect
  <2>3. (\E w \in Workers : Act(w) \/ CleanImage(w)) \/ leftover' = leftover
    BY DEF Next, vars, Attempt, Describe, Check, LogAction, CreateRollback, CopyVolume,
       AttachCopy, Record, Fail, Begin, OwnerMoves, EditPolicy, Crash, world
  <2> QED
    BY <1>0, <2>1, <2>2, <2>3 DEF Done, CloudTypes
<1>2. ASSUME NEW v \in Workers,
             at'[v].pc = at[v].pc, at'[v].res = at[v].res, at'[v].dry = at[v].dry
      PROVE  DoneBy(v)'
  <2>1. DoneBy(v) /\ (at[v].pc # "idle" => at[v].res \in Resources)
    BY <1>0 DEF Done, AtTypes
  <2> QED
    BY <1>0, <1>2, <2>1, RemovedWhole DEF DoneBy
<1>3. ASSUME NEW w \in Workers, Attempt(w) PROVE \A v \in Workers : DoneBy(v)'
  <2>1. Moves(w) /\ at[w].pc # "idle" /\ \A v \in Workers : v # w => at'[v] = at[v]
    BY <1>3, AttemptMoves DEF Moves
  <2>2. at[w].res \in Resources
    BY <1>0, <2>1 DEF AtTypes
  <2>3. DoneBy(w)'
    <3>1. CASE Act(w)
      <4>1. SUFFICES ASSUME at'[w].pc \in {"clean", "record"} PROVE DoneBy(w)'
        BY DEF DoneBy
      <4>2. /\ ~Refused(at[w].res) /\ cloud'[at[w].res] = "removed"
            /\ at'[w].pc = "record" => leftover' = leftover
            /\ at'[w].res = at[w].res
        BY <1>0, <2>1, <2>2, <3>1, <4>1, ActEffect DEF CloudTypes, Moves
      <4>3. at[w].res \notin leftover
        BY <4>2 DEF Done, Refused
      <4> QED
        BY <4>2, <4>3 DEF DoneBy
    <3>2. CASE CleanImage(w)
      <4>1. /\ at[w].pc = "clean" /\ cloud' = cloud
            /\ at'[w].pc = "record" => leftover' = leftover \ {at[w].res}
                                       /\ at'[w].res = at[w].res
            /\ at'[w].pc \in {"record", "fail"}
        BY <1>0, <2>1, <3>2, CleanEffect DEF Moves
      <4>2. cloud[at[w].res] = "removed"
        BY <4>1 DEF Done, DoneBy
      <4> QED
        BY <4>1, <4>2 DEF DoneBy
    <3>3. CASE CreateRollback(w)
      <4>1. at'[w].pc \in {"idle", AfterRollback(w)}
        BY <3>3, RollbackEffect DEF Types
      <4> QED
        BY <2>1, <4>1 DEF AfterRollback, Moves, DoneBy
    <3>4. CASE ~Act(w) /\ ~CleanImage(w) /\ ~CreateRollback(w)
      <4>1. at'[w].pc \notin {"clean", "record"}
        BY <1>3, <3>4, DescribeEffect, CheckEffect, LogEffect, CopyEffect, AttachEffect,
           RecordEffect, FailEffect DEF Attempt, Types
      <4> QED
        BY <4>1 DEF DoneBy
    <3> QED
      BY <3>1, <3>2, <3>3, <3>4
  <2> QED
    BY <1>2, <2>1, <2>3
<1>4. ASSUME ~ \E w \in Workers : Attempt(w) PROVE \A v \in Workers : DoneBy(v)'
  <2> SUFFICES ASSUME NEW v \in Workers PROVE DoneBy(v)'
    OBVIOUS
  <2>1. CASE at'[v].pc \in {"idle", "describe"}
    BY <2>1 DEF DoneBy
  <2>2. CASE at'[v].pc \notin {"idle", "describe"}
    BY <1>2, <1>4, <2>2, OthersQuiet
  <2> QED
    BY <2>1, <2>2
<1> QED
  BY <1>1, <1>3, <1>4 DEF Done

\* Row i says that r was dealt with in earnest, and with success.
RealSuccess(i, r) ==
    i \in 1..Len(log) /\ log[i].res = r /\ ~log[i].dry /\ log[i].status = "success"

\* The two halves of HistoryIsTrue.
TrueRows ==
    \A i \in 1..Len(log) :
        (log[i].status = "success" /\ ~log[i].dry) =>
            cloud[log[i].res] = "removed" /\ log[i].res \notin leftover

AppliedRows == \A r \in Resources : rec[r] = "applied" => \E i : RealSuccess(i, r)

\* A row that says success says it for good.
LEMMA SuccessStays ==
    ASSUME Types, RowsOwned, [Next]_vars, NEW i \in 1..Len(log), log[i].status = "success"
    PROVE  i \in 1..Len(log') /\ log'[i] = log[i]
<1>1. i \in 1..Len(log')
  BY LogStep
<1>2. CASE \E w \in Workers : Attempt(w)
  BY <1>1, <1>2, OtherRowsStay
<1>3. CASE ~ \E w \in Workers : Attempt(w)
  BY <1>1, <1>3, OthersQuiet DEF tables
<1> QED
  BY <1>2, <1>3

\* A row becomes a success only when its attempt records it.
LEMMA SuccessFromRecord ==
    ASSUME Types, RowsOwned, [Next]_vars, NEW i \in 1..Len(log'), log'[i].status = "success"
    PROVE  \/ i \in 1..Len(log) /\ log'[i] = log[i]
           \/ \E w \in Workers : /\ Record(w) /\ at[w].row = i /\ i \in 1..Len(log)
                                 /\ log'[i].res = at[w].res /\ log'[i].dry = at[w].dry
<1>1. CASE log' = log
  BY <1>1
<1>2. ASSUME NEW w \in Workers, LogAction(w), log' # log
      PROVE  i \in 1..Len(log) /\ log'[i] = log[i]
  <2>1. /\ Len(log') = Len(log) + 1
        /\ \A j \in 1..Len(log) : log'[j] = log[j]
        /\ log'[Len(log) + 1] = Row(w)
    BY <1>2, LogEffect DEF Types
  <2>2. Row(w).status = "pending"
    BY DEF Row
  <2> QED
    BY <2>1, <2>2, LogStep
<1>3. ASSUME NEW w \in Workers, Record(w) \/ Fail(w), log' # log
      PROVE  \/ i \in 1..Len(log) /\ log'[i] = log[i]
             \/ /\ Record(w) /\ at[w].row = i /\ i \in 1..Len(log)
                /\ log'[i].res = at[w].res /\ log'[i].dry = at[w].dry
  <2>1. Holding(w) /\ at[w].row \in 1..Len(log) /\ Owned(w)
    BY <1>3, RecordEffect, FailEffect DEF Types, AtTypes, Holding, RowsOwned
  <2>2. PICK st \in {"success", "failed"} :
           /\ log' = SetStatus(log, at[w].row, st)
           /\ st = "success" => Record(w)
    BY <1>3, RecordEffect, FailEffect DEF Types
  <2>3. /\ Len(log') = Len(log)
        /\ \A j \in 1..Len(log) :
              /\ log'[j].res = log[j].res /\ log'[j].dry = log[j].dry
              /\ j # at[w].row => log'[j] = log[j]
        /\ log'[at[w].row].status = st
    BY <2>1, <2>2, StatusSet DEF Types, LogTypes
  <2> QED
    BY <2>1, <2>2, <2>3 DEF Owned
<1>4. log' = log \/ \E w \in Workers : LogAction(w) \/ Record(w) \/ Fail(w)
  BY DEF Next, vars, Attempt, Describe, Check, CreateRollback, CopyVolume, AttachCopy, Act,
     CleanImage, Begin, OwnerMoves, EditPolicy, Crash, tables
<1> QED
  BY <1>1, <1>2, <1>3, <1>4

\* A success is recorded only of what is done.
LEMMA TrueRowsStep ==
    ASSUME Types, RowsOwned, Done, TrueRows, [Next]_vars
    PROVE  TrueRows'
<1> SUFFICES ASSUME NEW i \in 1..Len(log'), log'[i].status = "success", ~log'[i].dry
             PROVE  cloud'[log'[i].res] = "removed" /\ log'[i].res \notin leftover'
  BY DEF TrueRows
<1>1. CASE i \in 1..Len(log) /\ log'[i] = log[i]
  <2>1. log[i].res \in Resources
    <3>1. log[i] \in LogRow
      BY <1>1, ElementOfSeq DEF Types, LogTypes
    <3> QED
      BY <3>1 DEF LogRow
  <2> QED
    BY <1>1, <2>1, RemovedWhole DEF TrueRows
<1>2. ASSUME NEW w \in Workers, Record(w), log'[i].res = at[w].res, log'[i].dry = at[w].dry
      PROVE  cloud'[log'[i].res] = "removed" /\ log'[i].res \notin leftover'
  <2>1. at[w].pc = "record" /\ at[w].res \in Resources /\ ~at[w].dry
    BY <1>2, RecordEffect DEF Types, AtTypes
  <2>2. cloud[at[w].res] = "removed" /\ at[w].res \notin leftover
    BY <2>1 DEF Done, DoneBy
  <2> QED
    BY <1>2, <2>1, <2>2, RemovedWhole
<1> QED
  BY <1>1, <1>2, SuccessFromRecord

\* A recommendation is applied in the transaction that writes its success.
LEMMA AppliedRowsStep ==
    ASSUME Types, RowsOwned, AppliedRows, [Next]_vars
    PROVE  AppliedRows'
<1> SUFFICES ASSUME NEW r \in Resources, rec'[r] = "applied"
             PROVE  \E i : RealSuccess(i, r)'
  BY DEF AppliedRows
<1>1. CASE rec[r] = "applied"
  <2>1. PICK i : RealSuccess(i, r)
    BY <1>1 DEF AppliedRows
  <2>2. RealSuccess(i, r)'
    BY <2>1, SuccessStays DEF RealSuccess
  <2> QED
    BY <2>2
<1>2. CASE rec[r] # "applied"
  <2>1. PICK w \in Workers : Record(w)
    BY <1>2 DEF Next, vars, Attempt, Describe, Check, LogAction, CreateRollback, CopyVolume,
       AttachCopy, Act, CleanImage, Fail, Begin, OwnerMoves, EditPolicy, Crash, tables
  <2>2. /\ log' = SetStatus(log, at[w].row, "success") /\ at[w].res = r /\ ~at[w].dry
        /\ at[w].pc = "record"
    BY <1>2, <2>1, RecordEffect DEF Types, CloudTypes
  <2>3. at[w].row \in 1..Len(log) /\ Owned(w)
    BY <2>2 DEF Types, AtTypes, Holding, RowsOwned
  <2>4. PICK i \in 1..Len(log) : i = at[w].row
    BY <2>3
  <2>5. /\ Len(log') = Len(log) /\ log'[i].status = "success"
        /\ log'[i].res = r /\ ~log'[i].dry
    BY <2>2, <2>3, <2>4, StatusSet DEF Types, LogTypes, Owned
  <2>6. RealSuccess(i, r)'
    BY <2>5 DEF RealSuccess
  <2> QED
    BY <2>6
<1> QED
  BY <1>1, <1>2

\* The inductive invariant behind HistoryIsTrue.
HistoryInv == Types /\ RowsOwned /\ Done /\ TrueRows /\ AppliedRows

\* HistoryIsTrue: what remediate commits as a success in actions_log was done, with
\* the snapshots of an image, and only that makes a recommendation applied.
THEOREM HistoryTrue == Spec => []HistoryIsTrue
<1>1. Init => HistoryInv
  <2>1. SUFFICES ASSUME Init PROVE HistoryInv
    OBVIOUS
  <2>2. /\ \A w \in Workers : at[w].pc = "idle"
        /\ leftover = {} /\ Len(log) = 0 /\ 1..Len(log) = {}
        /\ \A r \in Resources : rec[r] = "pending"
    BY <2>1, NoAttemptTyped, EmptySeq DEF Init
  <2> QED
    BY <2>1, <2>2, InitTypes
       DEF HistoryInv, RowsOwned, Holding, Done, DoneBy, TrueRows, AppliedRows
<1>2. HistoryInv /\ [Next]_vars => HistoryInv'
  BY TypesStep, RowsOwnedStep, DoneStep, TrueRowsStep, AppliedRowsStep DEF HistoryInv
<1>3. HistoryInv => HistoryIsTrue
  <2>1. SUFFICES ASSUME HistoryInv PROVE HistoryIsTrue
    OBVIOUS
  <2>2. DOMAIN log = 1..Len(log)
    BY <2>1, LenProperties DEF HistoryInv, Types, LogTypes
  <2> QED
    BY <2>1, <2>2 DEF HistoryInv, TrueRows, AppliedRows, RealSuccess, HistoryIsTrue
<1> QED
  BY <1>1, <1>2, <1>3, PTL DEF Spec

\* Row i says that r was dealt with in earnest, and the state before is saved under it.
SavedUnder(i, r) ==
    /\ i \in 1..Len(log) /\ log[i].res = r /\ ~log[i].dry
    /\ \E j \in 1..Len(rollback) : rollback[j].row = i

\* Every resource that is removed or copied has such a row.
NoneUnlogged ==
    \A r \in Resources :
        (cloud[r] = "removed" \/ r \in copies) => \E i : SavedUnder(i, r)

\* A worker is between the removal of r and the row that tells of it.
Telling(w, r) == at[w].res = r /\ at[w].pc \in {"clean", "record"} /\ ~at[w].dry

\* Short of a fault, what is removed is told or about to be.
Told ==
    \A r \in Resources :
        cloud[r] = "removed" =>
            \/ faults > 0
            \/ \E i : RealSuccess(i, r)
            \/ \E w \in Workers : Telling(w, r)

\* Such a row stays.
LEMMA SavedUnderStays ==
    ASSUME Types, [Next]_vars, NEW i, NEW r, SavedUnder(i, r)
    PROVE  SavedUnder(i, r)'
<1>1. i \in 1..Len(log') /\ log'[i].res = r /\ ~log'[i].dry
  BY LogStep DEF SavedUnder
<1>2. PICK j \in 1..Len(rollback) : rollback[j].row = i
  BY DEF SavedUnder
<1>3. j \in 1..Len(rollback') /\ rollback'[j].row = i
  BY <1>2, RollbackStep
<1> QED
  BY <1>1, <1>3 DEF SavedUnder

\* A removal and a copy come after the row and the state before it.
LEMMA NoneUnloggedStep ==
    ASSUME Types, RowsOwned, StateSaved, InEarnest, NoneUnlogged, [Next]_vars
    PROVE  NoneUnlogged'
<1> SUFFICES ASSUME NEW r \in Resources, cloud'[r] = "removed" \/ r \in copies'
             PROVE  \E i : SavedUnder(i, r)'
  BY DEF NoneUnlogged
<1>1. CASE cloud[r] = "removed" \/ r \in copies
  BY <1>1, SavedUnderStays DEF NoneUnlogged
<1>2. CASE cloud[r] # "removed" /\ r \notin copies
  <2>1. PICK w \in Workers : at[w].res = r /\ at[w].pc \in {"copy", "act"}
    <3>1. CASE cloud'[r] = "removed"
      <4>1. PICK w \in Workers : Act(w) /\ at[w].res = r
        BY <1>2, <3>1, RemovedByAct
      <4> QED
        BY <4>1 DEF Act
    <3>2. CASE r \in copies'
      <4>1. PICK w \in Workers : CopyVolume(w)
        BY <1>2, <3>2, OthersQuiet DEF Attempt, Describe, Check, LogAction, CreateRollback,
           AttachCopy, Act, CleanImage, Record, Fail, world
      <4>2. at[w].pc = "copy" /\ copies' \in {copies, copies \cup {at[w].res}}
        BY <4>1, CopyEffect DEF Types
      <4> QED
        BY <1>2, <3>2, <4>2
    <3> QED
      BY <3>1, <3>2
  <2>2. Holding(w) /\ Saved(w) /\ ~at[w].dry
    BY <2>1 DEF Holding, Saved, InEarnest, Earnest
  <2>3. PICK i \in 1..Len(log) : i = at[w].row
    BY <2>2 DEF Types, AtTypes
  <2>4. log[i].res = r /\ ~log[i].dry
    BY <2>1, <2>2, <2>3 DEF RowsOwned, Owned
  <2>5. \E j \in 1..Len(rollback) : rollback[j].row = i
    BY <2>2, <2>3 DEF StateSaved
  <2>6. SavedUnder(i, r)
    BY <2>4, <2>5 DEF SavedUnder
  <2> QED
    BY <2>6, SavedUnderStays
<1> QED
  BY <1>1, <1>2

\* Whoever removed a resource tells of it, unless a fault comes between.
LEMMA ToldStep ==
    ASSUME Types, RowsOwned, InEarnest, Told, [Next]_vars
    PROVE  Told'
<1>0. AtTypes /\ CloudTypes /\ faults \in Nat /\ faults' \in Nat /\ faults' >= faults
  BY CloudStep, RemediationAssumption DEF Types, CloudTypes
<1> SUFFICES ASSUME NEW r \in Resources, cloud'[r] = "removed", ~(faults' > 0)
             PROVE  \/ \E i : RealSuccess(i, r)'
                    \/ \E w \in Workers : Telling(w, r)'
  BY DEF Told
<1>1. ~(faults > 0)
  BY <1>0
<1>2. ASSUME NEW i, RealSuccess(i, r) PROVE RealSuccess(i, r)'
  BY <1>2, SuccessStays DEF RealSuccess
<1>3. ASSUME NEW v \in Workers, Telling(v, r)
      PROVE  (\E i : RealSuccess(i, r)') \/ Telling(v, r)'
  <2>1. ASSUME NEW w \in Workers, Attempt(w), w # v PROVE Telling(v, r)'
    <3>1. at'[v] = at[v]
      BY <2>1, AttemptMoves DEF Moves
    <3> QED
      BY <1>3, <3>1 DEF Telling
  <2>2. ASSUME Attempt(v) PROVE (\E i : RealSuccess(i, r)') \/ Telling(v, r)'
    <3>1. CASE CleanImage(v)
      <4>1. at'[v].pc = "record" /\ at'[v].res = at[v].res /\ at'[v].dry = at[v].dry
        BY <1>0, <3>1, CleanEffect DEF Moves
      <4> QED
        BY <1>3, <4>1 DEF Telling
    <3>2. CASE Record(v)
      <4>1. /\ at[v].pc = "record" /\ log' = SetStatus(log, at[v].row, "success")
        BY <1>0, <3>2, RecordEffect
      <4>2. at[v].row \in 1..Len(log) /\ Owned(v)
        BY <4>1 DEF Types, AtTypes, Holding, RowsOwned
      <4>3. PICK i \in 1..Len(log) : i = at[v].row
        BY <4>2
      <4>4. log[i].res = r /\ ~log[i].dry
        BY <1>3, <4>2, <4>3 DEF Owned, Telling
      <4>5. log \in Seq(LogRow) /\ log' = SetStatus(log, i, "success")
        BY <4>1, <4>3 DEF Types, LogTypes
      <4>6. /\ Len(log') = Len(log) /\ log'[i].status = "success"
            /\ log'[i].res = r /\ ~log'[i].dry
        BY <4>4, <4>5, StatusSet
      <4>7. RealSuccess(i, r)'
        BY <4>6 DEF RealSuccess
      <4> QED
        BY <4>7
    <3> QED
      BY <1>0, <1>3, <2>2, <3>1, <3>2, DescribeEffect, CheckEffect, LogEffect, RollbackEffect,
         CopyEffect, AttachEffect, ActEffect, FailEffect DEF Attempt, Telling, Types
  <2>3. ASSUME ~ \E w \in Workers : Attempt(w) PROVE Telling(v, r)'
    <3>1. at'[v].pc = at[v].pc /\ at'[v].res = at[v].res /\ at'[v].dry = at[v].dry
      BY <1>3, <2>3, OthersQuiet DEF Telling
    <3> QED
      BY <1>3, <3>1 DEF Telling
  <2> QED
    BY <2>1, <2>2, <2>3
<1>4. CASE cloud[r] = "removed"
  BY <1>1, <1>2, <1>3, <1>4 DEF Told
<1>5. CASE cloud[r] # "removed"
  <2>1. PICK w \in Workers : Act(w) /\ at[w].res = r
    BY <1>5, RemovedByAct
  <2>2. /\ at[w].pc = "act" /\ at'[w].pc \in {"clean", "record"}
        /\ at'[w].res = at[w].res /\ at'[w].dry = at[w].dry
    BY <1>0, <1>5, <2>1, ActEffect DEF Moves
  <2>3. ~at[w].dry
    BY <2>2 DEF InEarnest, Earnest
  <2>4. Telling(w, r)'
    BY <2>1, <2>2, <2>3 DEF Telling
  <2> QED
    BY <2>4
<1> QED
  BY <1>4, <1>5

\* The inductive invariant behind NothingUnlogged.
UnloggedInv ==
    Types /\ RowsOwned /\ StateSaved /\ InEarnest /\ NoneUnlogged /\ Told

\* NothingUnlogged: nothing is changed in AWS without a committed row and the state
\* before it, and without a fault what is removed ends as a success in the history.
THEOREM AllLogged == Spec => []NothingUnlogged
<1>1. Init => UnloggedInv
  <2>1. SUFFICES ASSUME Init PROVE UnloggedInv
    OBVIOUS
  <2>2. /\ \A w \in Workers : at[w].pc = "idle"
        /\ copies = {} /\ \A r \in Resources : cloud[r] # "removed"
    BY <2>1, NoAttemptTyped DEF Init
  <2> QED
    BY <2>1, <2>2, InitTypes DEF UnloggedInv, RowsOwned, Holding, StateSaved, Saved,
       InEarnest, Earnest, NoneUnlogged, Told
<1>2. UnloggedInv /\ [Next]_vars => UnloggedInv'
  BY TypesStep, RowsOwnedStep, StateSavedStep, InEarnestStep, NoneUnloggedStep, ToldStep
     DEF UnloggedInv
<1>3. UnloggedInv => NothingUnlogged
  <2>1. SUFFICES ASSUME UnloggedInv PROVE NothingUnlogged
    OBVIOUS
  <2>2. DOMAIN log = 1..Len(log) /\ DOMAIN rollback = 1..Len(rollback)
    BY <2>1, LenProperties DEF UnloggedInv, Types, LogTypes, RollbackTypes
  <2>3. ASSUME NEW r \in Resources, cloud[r] = "removed" \/ r \in copies
        PROVE  \E i \in RealRows(r) : \E j \in DOMAIN rollback : rollback[j].row = i
    BY <2>1, <2>2, <2>3 DEF UnloggedInv, NoneUnlogged, SavedUnder, RealRows
  <2>4. ASSUME NEW r \in Resources
        PROVE  \/ faults > 0 \/ cloud[r] # "removed"
               \/ \E i \in RealRows(r) : log[i].status = "success"
               \/ \E w \in Workers : at[w].res = r /\ at[w].pc \in {"clean", "record"}
    BY <2>1, <2>2 DEF UnloggedInv, Told, RealSuccess, RealRows, Telling
  <2> QED
    BY <2>3, <2>4 DEF NothingUnlogged
<1> QED
  BY <1>1, <1>2, <1>3, PTL DEF Spec
==============================================================================
