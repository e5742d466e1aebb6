--------------------------- MODULE DetectionProofs ---------------------------
(***************************************************************************)
(* Theorems about Detectors and Detection, for any resources, kinds, steps *)
(* of the pipeline, windows and bounds.                                    *)
(*                                                                         *)
(* First the arithmetic of ec2_idle, for any number of samples; then the   *)
(* types.  That a finding is one needs the arithmetic (a price and a       *)
(* percentage), that the sum of a group is a number (CpuSum is recursive:  *)
(* the least day at which it fails is none, LeastNat), and that the        *)
(* running step is a detector (StepKnown), for which Watching, recursive   *)
(* too, must choose names of steps.                                        *)
(*                                                                         *)
(* InsightOfAction is not inductive: an insight is stored by id, after the *)
(* row was read.  InsightInv adds that an insight fits its row whatever    *)
(* the status, for cleanups and restores bring rows back, and that no      *)
(* action changes while the model is asked (Asked).  HealthyLostNothing    *)
(* follows from LostIsFailed: what is not committed belongs to a step that *)
(* failed, or that is still running.                                       *)
(***************************************************************************)
EXTENDS Detection, SequenceTheorems, FiniteSetTheorems, WellFoundedInduction,
        TLAPS

-----------------------------------------------------------------------------
(* The arithmetic of ec2_idle.                                             *)

\* A quotient, from below and from above.
LEMMA Quotient ==
    ASSUME NEW a \in Int, NEW b \in Nat \ {0}
    PROVE  LET q == a \div b IN q \in Int /\ b * q <= a /\ a < b * q + b
<1> DEFINE q == a \div b
<1>1. a = b * q + (a % b) /\ (a % b) \in 0..(b - 1) /\ q \in Int
  OBVIOUS
<1> DEFINE p == b * q
<1>2. p \in Int
  BY <1>1
<1> HIDE DEF q, p
<1>3. p <= a /\ a < p + b
  <2>1. a % b \in Int /\ 0 <= a % b /\ a % b <= b - 1 /\ a = p + (a % b)
    BY <1>1 DEF p
  <2> QED
    BY <1>2, <2>1
<1> QED
  BY <1>1, <1>3 DEF p, q

\* A product grows with its factor.
LEMMA ProductOrder ==
    ASSUME NEW b \in Nat, NEW m \in Int, NEW n \in Int, m <= n
    PROVE  b * m <= b * n
  OBVIOUS

\* What is less than (m + 1) * b has a quotient of at most m.
LEMMA QuotientBounds ==
    ASSUME NEW a \in Nat, NEW b \in Nat \ {0}, NEW m \in Nat, a < b * m + b
    PROVE  a \div b \in 0..m
<1> DEFINE q == a \div b
<1>1. q \in Int /\ b * q <= a /\ a < b * q + b
  BY Quotient
<1> HIDE DEF q
<1>2. q >= 0
  <2> SUFFICES ASSUME q <= -1 PROVE FALSE
    BY <1>1
  <2>1. b * q <= b * (-1) /\ b * (-1) = -b
    BY <1>1, ProductOrder
  <2>2. b * q \in Int
    BY <1>1
  <2> QED
    BY <1>1, <2>1, <2>2
<1>3. q <= m
  <2> SUFFICES ASSUME m + 1 <= q PROVE FALSE
    BY <1>1
  <2>1. b * (m + 1) <= b * q /\ b * (m + 1) = b * m + b
    BY <1>1, ProductOrder
  <2>2. b * q \in Int /\ b * m \in Int
    BY <1>1
  <2> QED
    BY <1>1, <2>1, <2>2
<1> QED
  BY <1>1, <1>2, <1>3 DEF q

\* A quotient grows with what is divided.
LEMMA QuotientOrder ==
    ASSUME NEW a \in Int, NEW c \in Int, NEW b \in Nat \ {0}, a <= c
    PROVE  a \div b <= c \div b
<1> DEFINE q == a \div b
           r == c \div b
<1>1. q \in Int /\ b * q <= a /\ a < b * q + b
  BY Quotient
<1>2. r \in Int /\ b * r <= c /\ c < b * r + b
  BY Quotient
<1> HIDE DEF q, r
<1> SUFFICES ASSUME r + 1 <= q PROVE FALSE
  BY <1>1, <1>2 DEF q, r
<1>3. b * (r + 1) <= b * q /\ b * (r + 1) = b * r + b
  BY <1>1, <1>2, ProductOrder
<1>4. b * r \in Int /\ b * q \in Int
  BY <1>1, <1>2
<1> QED
  BY <1>1, <1>2, <1>3, <1>4

\* The confidence of an idle verdict is a percentage, and a window that is
\* not full caps it.
THEOREM ConfidenceIsCapped ==
    ASSUME NEW n \in Nat, NEW sum \in Nat, NEW days \in Nat, IsIdle(sum, n)
    PROVE  /\ IdleConfidence(sum, n, days) \in 0..100
           /\ n < days => IdleConfidence(sum, n, days) <= 85
           /\ n < 3 => IdleConfidence(sum, n, days) <= 70
<1>1. n > 0 /\ sum < 5 * n
  BY DEF IsIdle, CpuThreshold
<1>2. RawConfidence(sum, n) \in 0..100
  <2> DEFINE a == 200 * (5 * n - sum) + 5 * n
             b == 2 * 5 * n
  <2>1. a \in Nat /\ b \in Nat \ {0} /\ a < b * 100 + b
    BY <1>1
  <2> HIDE DEF a, b
  <2>2. a \div b \in 0..100
    BY <2>1, QuotientBounds
  <2>3. RawConfidence(sum, n) = a \div b
    BY DEF RawConfidence, CpuThreshold, a, b
  <2> QED
    BY <2>2, <2>3
<1> DEFINE raw == RawConfidence(sum, n)
<1> HIDE DEF raw
<1>3. raw \in 0..100
  BY <1>2 DEF raw
<1>4. Least(raw, 70) \in 0..70 /\ Least(raw, 85) \in 0..85
  BY <1>3 DEF Least
<1>5. /\ n < 3 => IdleConfidence(sum, n, days) = Least(raw, 70)
      /\ (n < days /\ n >= 3) => IdleConfidence(sum, n, days) = Least(raw, 85)
      /\ (n >= 3 /\ n >= days) => IdleConfidence(sum, n, days) = raw
  BY DEF IdleConfidence, raw
<1> QED
  BY <1>1, <1>3, <1>4, <1>5

\* Less CPU over the same samples never lowers the confidence of ec2_idle, and
\* never turns its stop_instance into a downsize: the idler, the bolder.
THEOREM IdlerIsBolder ==
    ASSUME NEW n \in Nat \ {0}, NEW sum \in Nat, NEW less \in 0..sum, NEW days \in Nat
    PROVE  /\ IdleConfidence(less, n, days) >= IdleConfidence(sum, n, days)
           /\ IdleAction(IdleConfidence(sum, n, days)) = "stop_instance"
                => IdleAction(IdleConfidence(less, n, days)) = "stop_instance"
<1> DEFINE a(s) == 200 * (5 * n - s) + 5 * n
           b == 2 * 5 * n
<1>1. a(sum) \in Int /\ a(less) \in Int /\ b \in Nat \ {0} /\ a(sum) <= a(less)
  OBVIOUS
<1>2. RawConfidence(sum, n) = a(sum) \div b /\ RawConfidence(less, n) = a(less) \div b
  BY DEF RawConfidence, CpuThreshold
<1> HIDE DEF a, b
<1>3. a(sum) \div b \in Int /\ a(less) \div b \in Int /\ a(sum) \div b <= a(less) \div b
  BY <1>1, Quotient, QuotientOrder
<1>4. /\ RawConfidence(sum, n) \in Int /\ RawConfidence(less, n) \in Int
      /\ RawConfidence(sum, n) <= RawConfidence(less, n)
  BY <1>2, <1>3
<1>5. /\ IdleConfidence(sum, n, days) \in Int /\ IdleConfidence(less, n, days) \in Int
      /\ IdleConfidence(less, n, days) >= IdleConfidence(sum, n, days)
  <2>1. CASE n < 3
    BY <1>4, <2>1 DEF IdleConfidence, Least
  <2>2. CASE n >= 3 /\ n < days
    BY <1>4, <2>2 DEF IdleConfidence, Least
  <2>3. CASE n >= 3 /\ n >= days
    BY <1>4, <2>3 DEF IdleConfidence
  <2> QED
    BY <2>1, <2>2, <2>3
<1> QED
  BY <1>5 DEF IdleAction

-----------------------------------------------------------------------------
(* What a detector holds.                                                  *)

\* What the record of a detector holds.
DetectorRecord(d) ==
    /\ d.kind \in Kinds
    /\ \A s \in DOMAIN d.cost : d.cost[s] \in Amounts
    /\ d.renames \in BOOLEAN /\ d.revives \in BOOLEAN /\ d.insights \in BOOLEAN

\* Both ways to write a detector give such a record...
LEMMA OfRecord ==
    ASSUME NEW k \in Kinds, NEW cost, \A s \in DOMAIN cost : cost[s] \in Amounts,
           NEW w, NEW a
    PROVE  DetectorRecord(Boto3(k, cost, w, a)) /\ DetectorRecord(Steampipe(k, cost, w, a))
  BY DEF DetectorRecord, Boto3, Steampipe, Of

\* ...of one of these kinds...
LEMMA KindsAre == {"instance", "volume", "snapshot", "database", "other"} \subseteq Kinds
  BY DEF Kinds, CloudStates

\* ...and all detectors are written so.
LEMMA DetectorsAreRecords == \A n \in Names : DetectorRecord(DetectorNamed[n])
<1>1. DetectorRecord(EC2IdleDetector)
  <2> DEFINE c == [s \in Running |-> 6205]
             b == Boto3("instance", c, "idle_compute", "stop_instance")
  <2>1. \A s \in DOMAIN c : c[s] \in Amounts
    BY DEF Amounts
  <2> HIDE DEF c
  <2>2. DetectorRecord(b) /\ b = [kind |-> "instance", cost |-> c, waste |-> "idle_compute",
           action |-> "stop_instance", revives |-> FALSE, renames |-> FALSE, insights |-> TRUE]
    BY <2>1, OfRecord, KindsAre DEF Boto3, Of
  <2>3. EC2IdleDetector = [b EXCEPT !.revives = TRUE]
    BY DEF EC2IdleDetector, c
  <2> QED
    BY <2>2, <2>3 DEF DetectorRecord
<1>2. DetectorRecord(EC2StoppedDetector)
  <2> DEFINE c == [stopped |-> 800]
             b == Boto3("instance", c, "stopped_instance", "terminate_instance")
  <2>1. \A s \in DOMAIN c : c[s] \in Amounts
    BY DEF Amounts
  <2> HIDE DEF c
  <2>2. DetectorRecord(b) /\ b = [kind |-> "instance", cost |-> c, waste |-> "stopped_instance",
           action |-> "terminate_instance", revives |-> FALSE, renames |-> FALSE, insights |-> TRUE]
    BY <2>1, OfRecord, KindsAre DEF Boto3, Of
  <2>3. EC2StoppedDetector = [b EXCEPT !.insights = FALSE]
    BY DEF EC2StoppedDetector, c
  <2> QED
    BY <2>2, <2>3 DEF DetectorRecord
<1>3. /\ DetectorRecord(EBSOrphanDetector) /\ DetectorRecord(EIPOrphanDetector)
      /\ DetectorRecord(SnapshotOrphanDetector)
  BY OfRecord, KindsAre DEF EBSOrphanDetector, EIPOrphanDetector, SnapshotOrphanDetector, Amounts
<1>4. /\ DetectorRecord(ELBUnusedDetector) /\ DetectorRecord(NATGatewayUnusedDetector)
      /\ DetectorRecord(VPCUnusedDetector) /\ DetectorRecord(EBSGp2MigrationDetector)
      /\ DetectorRecord(AMIOrphanDetector)
  BY OfRecord, KindsAre DEF ELBUnusedDetector, NATGatewayUnusedDetector, VPCUnusedDetector,
     EBSGp2MigrationDetector, AMIOrphanDetector, Amounts
<1>5. /\ DetectorRecord(RDSStoppedDetector) /\ DetectorRecord(RDSIdleDetector)
      /\ DetectorRecord(RDSSnapshotOrphanDetector)
  BY OfRecord, KindsAre DEF RDSStoppedDetector, RDSIdleDetector, RDSSnapshotOrphanDetector, Amounts
<1> QED
  BY <1>1, <1>2, <1>3, <1>4, <1>5 DEF Names, DetectorNamed

-----------------------------------------------------------------------------
(* Sums.                                                                   *)

\* A set of natural numbers that is not empty has a least element.
LEMMA LeastNat ==
    ASSUME NEW T, T \subseteq Nat, T # {}
    PROVE  \E m \in T : \A n \in T : m <= n
<1>1. \E x \in T : \A y \in T : ~ (<<y, x>> \in OpToRel(<, Nat))
  BY NatLessThanWellFounded, WFMin
<1>2. PICK x \in T : \A y \in T : ~ (<<y, x>> \in OpToRel(<, Nat))
  BY <1>1
<1>3. \A y \in T : ~(y < x)
  BY <1>2 DEF OpToRel
<1> QED
  BY <1>3

\* g[n] is what the first n entries of c add up to.
IsSum(g, c, last) ==
    /\ g \in [0..last -> Nat]
    /\ g[0] = 0
    /\ \A n \in 1..last : g[n] = g[n - 1] + c[n]

\* For any samples there is such a g: no number of days is the least without one.
LEMMA SumExists ==
    ASSUME NEW c, NEW last \in Nat, \A n \in 1..last : c[n] \in Nat
    PROVE  \E g : IsSum(g, c, last)
<1> DEFINE T == {n \in 0..last : ~ \E g : IsSum(g, c, n)}
<1> SUFFICES ASSUME T # {} PROVE FALSE
  OBVIOUS
<1>1. PICK n \in T : \A m \in T : n <= m
  <2>1. T \subseteq Nat
    OBVIOUS
  <2> HIDE DEF T
  <2> QED
    BY <2>1, LeastNat
<1>2. n \in 0..last /\ ~ \E g : IsSum(g, c, n)
  BY <1>1
<1>3. CASE n = 0
  <2>1. IsSum([d \in 0..0 |-> 0], c, 0)
    BY DEF IsSum
  <2> QED
    BY <1>2, <1>3, <2>1
<1>4. CASE n # 0
  <2>1. n - 1 \in 0..last /\ n - 1 \notin T
    BY <1>1, <1>2, <1>4
  <2>2. PICK g : IsSum(g, c, n - 1)
    BY <2>1
  <2> DEFINE h == [d \in 0..n |-> IF d = n THEN g[n - 1] + c[n] ELSE g[d]]
  <2>3. c[n] \in Nat /\ n - 1 \in 0..(n - 1) /\ g[n - 1] \in Nat
    BY <1>2, <1>4, <2>2 DEF IsSum
  <2>4. \A d \in 0..(n - 1) : g[d] \in Nat
    BY <2>2 DEF IsSum
  <2>5. h \in [0..n -> Nat]
    BY <1>2, <1>4, <2>3, <2>4
  <2>6. h[0] = 0
    BY <1>2, <1>4, <2>2 DEF IsSum
  <2>7. ASSUME NEW d \in 1..n PROVE h[d] = h[d - 1] + c[d]
    <3>1. d - 1 \in 0..n /\ d - 1 # n /\ h[d - 1] = g[d - 1]
      BY <1>2, <1>4
    <3>2. CASE d = n
      BY <3>1, <3>2
    <3>3. CASE d # n
      <4>1. d \in 1..(n - 1) /\ h[d] = g[d]
        BY <1>2, <1>4, <3>3
      <4> QED
        BY <3>1, <4>1, <2>2 DEF IsSum
    <3> QED
      BY <3>2, <3>3
  <2>8. IsSum(h, c, n)
    <3> HIDE DEF h
    <3> QED
      BY <2>5, <2>6, <2>7 DEF IsSum
  <2> QED
    BY <1>2, <2>8
<1> QED
  BY <1>3, <1>4

\* The samples of a set of days, as CpuSum adds them up.
LEMMA CpuSumIs ==
    ASSUME NEW r, NEW days \in SUBSET (1..Window),
           \A d \in days : samples[r][d].cpu \in Nat
    PROVE  CpuSum(r, days) \in Nat
<1> DEFINE D == 0..Window
           c == [d \in 1..Window |-> IF d \in days THEN samples[r][d].cpu ELSE 0]
           Eq(f) == f = [n \in D |-> IF n = 0 THEN 0
                            ELSE f[n - 1] + IF n \in days THEN samples[r][n].cpu ELSE 0]
           f == CHOOSE x : Eq(x)
<1>0. Window \in Nat \ {0}
  BY DetectionAssumption
<1>1. \A d \in 1..Window : c[d] \in Nat
  OBVIOUS
<1>2. PICK g : IsSum(g, c, Window)
  <2> HIDE DEF c
  <2> QED
    BY <1>0, <1>1, SumExists
<1>3. Eq(g)
  <2>1. \A n \in D : g[n] = IF n = 0 THEN 0
                            ELSE g[n - 1] + IF n \in days THEN samples[r][n].cpu ELSE 0
    <3> SUFFICES ASSUME NEW n \in D
                 PROVE  g[n] = IF n = 0 THEN 0
                            ELSE g[n - 1] + IF n \in days THEN samples[r][n].cpu ELSE 0
      OBVIOUS
    <3>1. CASE n = 0
      BY <1>2, <3>1 DEF IsSum
    <3>2. CASE n # 0
      <4>1. n \in 1..Window /\ g[n] = g[n - 1] + c[n]
        BY <1>0, <1>2, <3>2 DEF IsSum
      <4>2. c[n] = IF n \in days THEN samples[r][n].cpu ELSE 0
        BY <4>1
      <4> QED
        BY <3>2, <4>1, <4>2
    <3> QED
      BY <3>1, <3>2
  <2>2. g = [n \in D |-> g[n]]
    BY <1>2 DEF IsSum
  <2> QED
    BY <2>1, <2>2
<1>4. Eq(f)
  <2> HIDE DEF Eq
  <2> QED
    BY <1>3
<1>5. CpuSum(r, days) = f[Window]
  BY Zenon DEF CpuSum
<1> HIDE DEF f
<1> DEFINE T == {n \in D : f[n] \notin Nat}
<1>6. T = {}
  <2> SUFFICES ASSUME T # {} PROVE FALSE
    OBVIOUS
  <2>1. PICK n \in T : \A m \in T : n <= m
    <3>1. T \subseteq Nat
      BY <1>0
    <3> HIDE DEF T
    <3> QED
      BY <3>1, LeastNat
  <2>2. n \in D /\ f[n] \notin Nat
    BY <2>1
  <2>3. f[n] = IF n = 0 THEN 0
               ELSE f[n - 1] + IF n \in days THEN samples[r][n].cpu ELSE 0
    BY <1>4, <2>2
  <2>4. n # 0 /\ n - 1 \in D /\ n - 1 \notin T
    BY <1>0, <2>1, <2>2, <2>3
  <2>5. f[n - 1] \in Nat
    BY <2>4
  <2> QED
    BY <2>2, <2>3, <2>4, <2>5
<1> QED
  BY <1>0, <1>5, <1>6

-----------------------------------------------------------------------------
(* Findings.                                                               *)

\* The samples, as TypeOK has them.
SamplesTyped == samples \in [Resources -> [1..Window -> {None} \cup Samples]]

\* The group of an instance and a state: how many samples, and their sum.
LEMMA GroupCounts ==
    ASSUME SamplesTyped, NEW r \in Resources, NEW s
    PROVE  /\ Cardinality(Group(r, s)) \in Nat
           /\ CpuSum(r, Group(r, s)) \in Nat
<1> DEFINE days == Group(r, s)
<1>1. days \in SUBSET (1..Window)
  BY DEF Group
<1>2. IsFiniteSet(1..Window)
  BY DetectionAssumption, FS_Interval
<1>3. \A d \in days : samples[r][d].cpu \in Nat
  <2>1. \A d \in days : samples[r][d] \in Samples /\ samples[r][d].cpu # None
    BY DEF SamplesTyped, Group
  <2> QED
    BY <2>1 DEF Samples, Percents
<1> HIDE DEF days
<1>4. CpuSum(r, days) \in Nat
  BY <1>1, <1>3, CpuSumIs
<1>5. Cardinality(days) \in Nat
  BY <1>1, <1>2, FS_Subset, FS_CardinalityType
<1> QED
  BY <1>4, <1>5 DEF days

\* The state of the rows saved last is that of an idle group: of two groups, one
\* has the higher average.
LEMMA LastIsIdle ==
    ASSUME SamplesTyped, NEW r \in Resources, IdleStates(r) # {}
    PROVE  LastIdleState(r) \in IdleStates(r)
<1> DEFINE n(s) == Cardinality(Group(r, s))
           sum(s) == CpuSum(r, Group(r, s))
           Last(s) == \A t \in IdleStates(r) : sum(t) * n(s) <= sum(s) * n(t)
<1>1. LastIdleState(r) = CHOOSE s \in IdleStates(r) : Last(s)
  BY DEF LastIdleState
<1>2. IdleStates(r) \subseteq {"running", "stopped"}
  BY DEF IdleStates
<1>3. \A s \in IdleStates(r), t \in IdleStates(r) : sum(s) * n(t) \in Nat
  BY GroupCounts
<1>4. \A s \in IdleStates(r) : sum(s) * n(s) <= sum(s) * n(s)
  BY <1>3
<1>5. \E s \in IdleStates(r) : Last(s)
  <2>1. CASE \E s \in IdleStates(r) : \A t \in IdleStates(r) : t = s
    BY <1>4, <2>1
  <2>2. CASE "running" \in IdleStates(r) /\ "stopped" \in IdleStates(r)
    <3> DEFINE a == sum("running") * n("stopped")
               b == sum("stopped") * n("running")
    <3>1. a \in Nat /\ b \in Nat
      BY <1>3, <2>2
    <3> HIDE DEF a, b
    <3>2. CASE a <= b
      <4>1. sum("running") * n("stopped") <= sum("stopped") * n("running")
        BY <3>2 DEF a, b
      <4> HIDE DEF n, sum
      <4> QED
        BY <1>2, <1>4, <2>2, <4>1
    <3>3. CASE b <= a
      <4>1. sum("stopped") * n("running") <= sum("running") * n("stopped")
        BY <3>3 DEF a, b
      <4> HIDE DEF n, sum
      <4> QED
        BY <1>2, <1>4, <2>2, <4>1
    <3> QED
      BY <3>1, <3>2, <3>3
  <2> QED
    BY <1>2, <2>1, <2>2
<1> HIDE DEF Last
<1> QED
  BY <1>1, <1>5

\* The finding of ec2_idle costs at most the instance.
LEMMA IdleFindingType ==
    ASSUME NEW sum \in Nat, NEW n \in Nat, IsIdle(sum, n)
    PROVE  IdleFinding(sum, n) \in Findings
<1> DEFINE conf == IdleConfidence(sum, n, Window - 1)
           a == EC2IdleDetector.cost.zero * (100 * n - sum)
           b == 100 * n
<1>1. Window - 1 \in Nat
  BY DetectionAssumption
<1>2. conf \in Percents
  BY <1>1, ConfidenceIsCapped DEF Percents
<1>3. n > 0 /\ sum < 5 * n
  BY DEF IsIdle, CpuThreshold
<1>4. EC2IdleDetector.cost.zero = 6205
  BY DEF EC2IdleDetector, Boto3, Of, Running, Cpu
<1>5. a \in Nat /\ b \in Nat \ {0} /\ a < b * 6205 + b
  BY <1>3, <1>4
<1>6. IdleAction(conf) \in Actions
  <2>1. DetectorNamed["ec2_idle"].action = "stop_instance" /\ "ec2_idle" \in Names
    BY DEF DetectorNamed, EC2IdleDetector, Boto3, Of, Names
  <2> QED
    BY <2>1 DEF IdleAction, Actions
<1>7. IdleFinding(sum, n) = [cost |-> a \div b, conf |-> conf, action |-> IdleAction(conf)]
  BY DEF IdleFinding
<1> HIDE DEF a, b, conf
<1>8. a \div b \in Amounts
  BY <1>5, QuotientBounds DEF Amounts
<1> QED
  BY <1>2, <1>6, <1>7, <1>8 DEF Findings

\* What a detector reports, it can price.
LEMMA FindingType ==
    ASSUME SamplesTyped, NEW name \in Names, NEW r \in Reported(name)
    PROVE  r \in Resources /\ Finding(name, r) \in Findings
<1> DEFINE d == DetectorNamed[name]
<1>1. DetectorRecord(d) /\ d.action \in Actions /\ 95 \in Percents
  BY DetectorsAreRecords DEF Actions, Percents
<1>2. CASE name = "ec2_idle"
  <2>1. r \in Resources /\ IdleStates(r) # {} /\ Finding(name, r) = Idle(r)
    BY <1>2 DEF Reported, OfKind, Finding
  <2>2. LastIdleState(r) \in IdleStates(r)
    BY <2>1, LastIsIdle
  <2> DEFINE days == Group(r, LastIdleState(r))
  <2>3. IsIdle(CpuSum(r, days), Cardinality(days))
    BY <2>2 DEF IdleStates
  <2>4. CpuSum(r, days) \in Nat /\ Cardinality(days) \in Nat
    BY <2>1, GroupCounts
  <2>5. Idle(r) = IdleFinding(CpuSum(r, days), Cardinality(days))
    BY DEF Idle
  <2> QED
    BY <2>1, <2>3, <2>4, <2>5, IdleFindingType
<1>3. CASE name = "ec2_stopped"
  <2>1. r \in Resources
    BY <1>3 DEF Reported, OfKind
  <2>2. Finding(name, r) = [cost |-> d.cost.stopped, conf |-> 95, action |-> d.action]
    BY <1>3 DEF Finding
  <2>3. d.cost.stopped \in Amounts
    BY <1>3 DEF DetectorNamed, EC2StoppedDetector, Boto3, Of, Amounts
  <2> QED
    BY <1>1, <2>1, <2>2, <2>3 DEF Findings
<1>4. CASE name # "ec2_idle" /\ name # "ec2_stopped"
  <2>1. r \in Resources /\ cloud[r] \in DOMAIN d.cost
    BY <1>4 DEF Reported, QueryRows, OfKind
  <2>2. Finding(name, r) = [cost |-> d.cost[cloud[r]], conf |-> 95, action |-> d.action]
    BY <1>4 DEF Finding
  <2>3. d.cost[cloud[r]] \in Amounts
    BY <1>1, <2>1 DEF DetectorRecord
  <2> QED
    BY <1>1, <2>1, <2>2, <2>3 DEF Findings
<1> QED
  BY <1>2, <1>3, <1>4

-----------------------------------------------------------------------------
(* Types.                                                                  *)

\* Resources are of watched kinds, in a state that their kind has.
WorldTypes ==
    /\ kind \in [Resources -> WatchedKinds]
    /\ cloud \in [Resources -> UNION {CloudStates[k] : k \in Kinds}]
    /\ \A r \in Resources : cloud[r] \in CloudStates[kind[r]]

\* The running step knows its name, and holds findings it can save and actions of
\* rows that exist.
StepKnown ==
    /\ pc \in {"start", "save", "recommend", "enrich", "insight"} => steps # <<>>
    /\ pc \in {"save", "recommend"} => Head(steps) \in Names
    /\ \A r \in DOMAIN todo : rec[r] \in Proposals

\* The inductive invariant of the types.
Types == TypeOK /\ WorldTypes /\ StepKnown

\* The cloud moves within its states, and no resource changes its kind.
LEMMA WorldStep ==
    ASSUME WorldTypes, [Next]_vars
    PROVE  WorldTypes' /\ kind' = kind
<1>1. ASSUME NEW r \in Resources, CloudChanges(r) PROVE WorldTypes' /\ kind' = kind
  <2>1. kind' = kind /\ \E s \in CloudStates[kind[r]] : cloud' = [cloud EXCEPT ![r] = s]
    BY <1>1 DEF CloudChanges
  <2>2. PICK s \in CloudStates[kind[r]] : cloud' = [cloud EXCEPT ![r] = s]
    BY <2>1
  <2>3. kind[r] \in Kinds
    BY DetectionAssumption DEF WorldTypes
  <2>4. s \in UNION {CloudStates[k] : k \in Kinds}
    BY <2>3
  <2> QED
    BY <2>1, <2>2, <2>4 DEF WorldTypes
<1>2. CASE UNCHANGED world
  BY <1>2 DEF world, WorldTypes
<1>3. ASSUME NEW r \in Resources, Decide(r) \/ Restore(r) \/ SyncResolves(r) \/ RefreshMetrics(r)
             \/ WriteInsight(r)
      PROVE  UNCHANGED world
  BY <1>3 DEF Decide, Restore, SyncResolves, RefreshMetrics, WriteInsight
<1>4. CASE CleanupOrphans \/ StartRun \/ Collect \/ Detect \/ SaveWaste \/ Recommend \/ ReadPending
           \/ EnrichDone \/ RecordRun \/ DayPasses
  BY <1>2, <1>4 DEF CleanupOrphans, StartRun, Collect, Detect, SaveWaste, Recommend, ReadPending,
     EnrichDone, RecordRun, DayPasses
<1>5. CASE UNCHANGED vars
  BY <1>2, <1>5 DEF vars, world
<1> QED
  BY <1>1, <1>2, <1>3, <1>4, <1>5 DEF Next, Pipeline, Meanwhile

\* A sample stored over another one is a sample.
LEMMA UpsertedType ==
    ASSUME samples \in [Resources -> [1..Window -> {None} \cup Samples]],
           NEW r \in Resources, NEW cpu \in {None} \cup Percents
    PROVE  Upserted(r, cpu) \in [1..Window -> {None} \cup Samples]
<1> DEFINE old == samples[r][Window]
           new == IF old = None THEN Sample("running", cpu) ELSE Sample(old.state, cpu)
<1>1. old \in {None} \cup Samples
  BY DetectionAssumption
<1>2. new \in Samples
  BY <1>1 DEF Sample, Samples
<1>3. Upserted(r, cpu) = [samples[r] EXCEPT ![Window] = new]
  BY DEF Upserted
<1> HIDE DEF new
<1> QED
  BY <1>2, <1>3

\* Every step leaves samples.
LEMMA SamplesStep ==
    ASSUME TypeOK, [Next]_vars
    PROVE  samples' \in [Resources -> [1..Window -> {None} \cup Samples]]
<1> DEFINE S == [1..Window -> {None} \cup Samples]
<1>0. samples \in [Resources -> S] /\ Window \in Nat \ {0}
  BY DetectionAssumption DEF TypeOK
<1>1. CASE Collect
  <2>1. CASE samples' = samples
    BY <1>0, <2>1
  <2>2. ASSUME NEW unmeasured,
               samples' = [r \in Resources |->
                    IF r \in RunningInstances
                    THEN Upserted(r, CpuUtilization(r, unmeasured))
                    ELSE samples[r]]
        PROVE  samples' \in [Resources -> S]
    <3>1. ASSUME NEW r \in RunningInstances
          PROVE  r \in Resources /\ CpuUtilization(r, unmeasured) \in {None} \cup Percents
      BY <3>1 DEF RunningInstances, OfKind, CpuUtilization, Running, Cpu, Percents
    <3>2. \A r \in RunningInstances : Upserted(r, CpuUtilization(r, unmeasured)) \in S
      BY <1>0, <3>1, UpsertedType
    <3> QED
      BY <1>0, <2>2, <3>2
  <2> QED
    BY <1>1, <2>1, <2>2 DEF Collect
<1>2. CASE DayPasses
  <2>1. samples' = [r \in Resources |-> [d \in 1..Window |->
                      IF d = Window THEN None ELSE samples[r][d + 1]]]
    BY <1>2 DEF DayPasses
  <2>2. ASSUME NEW r \in Resources, NEW d \in 1..Window, d # Window
        PROVE  samples[r][d + 1] \in {None} \cup Samples
    <3>1. d + 1 \in 1..Window
      BY <1>0, <2>2
    <3> QED
      BY <1>0, <3>1
  <2> QED
    BY <2>1, <2>2
<1>3. ASSUME NEW r \in Resources, RefreshMetrics(r)
      PROVE  samples' \in [Resources -> S]
  <2> DEFINE now == IF cloud[r] \in Running THEN "running" ELSE "stopped"
             new(cpu) == [d \in 1..Window |-> IF cpu[d] = None THEN samples[r][d]
                                             ELSE Sample(now, cpu[d])]
  <2>1. PICK cpu \in [1..Window -> {None} \cup {Cpu[c] : c \in Running}] :
          samples' = [samples EXCEPT ![r] = new(cpu)]
    BY <1>3 DEF RefreshMetrics
  <2>2. new(cpu) \in S
    <3>1. now \in {"running", "stopped"}
      OBVIOUS
    <3>2. \A d \in 1..Window : cpu[d] # None => cpu[d] \in Percents
      BY <2>1 DEF Running, Cpu, Percents
    <3> HIDE DEF now
    <3> QED
      BY <1>0, <3>1, <3>2 DEF Sample, Samples
  <2> HIDE DEF new
  <2> QED
    BY <1>0, <2>1, <2>2
<1>4. CASE UNCHANGED samples
  BY <1>0, <1>4
<1>5. ASSUME NEW r \in Resources, Decide(r) \/ Restore(r) \/ SyncResolves(r) \/ CloudChanges(r)
             \/ WriteInsight(r)
      PROVE  UNCHANGED samples
  BY <1>5 DEF Decide, Restore, SyncResolves, CloudChanges, WriteInsight, database
<1>6. CASE CleanupOrphans \/ StartRun \/ Detect \/ SaveWaste \/ Recommend \/ ReadPending
           \/ EnrichDone \/ RecordRun
  BY <1>4, <1>6 DEF CleanupOrphans, StartRun, Detect, SaveWaste, Recommend, ReadPending,
     EnrichDone, RecordRun, database
<1>7. CASE UNCHANGED vars
  BY <1>4, <1>7 DEF vars
<1> QED
  BY <1>1, <1>2, <1>3, <1>4, <1>5, <1>6, <1>7 DEF Next, Pipeline, Meanwhile

\* Every step leaves rows of waste.
LEMMA WasteStep ==
    ASSUME Types, [Next]_vars
    PROVE  waste' \in [Resources -> {None} \cup WasteRows]
<1>1. CASE UNCHANGED waste
  BY <1>1 DEF Types, TypeOK
<1>2. CASE SaveWaste
  <2>1. SUFFICES ASSUME waste' = [r \in Resources |->
                IF r \notin DOMAIN items THEN waste[r]
                ELSE [type |-> IF waste[r] = None \/ Detector.renames
                               THEN Detector.waste ELSE waste[r].type,
                      cost |-> items[r].cost, conf |-> items[r].conf]]
                 PROVE  waste' \in [Resources -> {None} \cup WasteRows]
    BY <1>1, <1>2 DEF SaveWaste
  <2>2. Head(steps) \in Names
    BY <1>2 DEF SaveWaste, Types, StepKnown
  <2>3. Detector.waste \in {DetectorNamed[n].waste : n \in Names}
    BY <2>2 DEF Detector, Name
  <2> SUFFICES ASSUME NEW r \in Resources PROVE waste'[r] \in {None} \cup WasteRows
    BY <2>1
  <2>4. CASE r \notin DOMAIN items
    BY <2>1, <2>4 DEF Types, TypeOK
  <2>5. CASE r \in DOMAIN items
    <3> DEFINE type == IF waste[r] = None \/ Detector.renames
                       THEN Detector.waste ELSE waste[r].type
    <3>1. type \in {DetectorNamed[n].waste : n \in Names}
      BY <2>3 DEF Types, TypeOK, WasteRows
    <3>2. items[r] \in Findings
      BY <2>5 DEF Types, TypeOK
    <3>3. waste'[r] = [type |-> type, cost |-> items[r].cost, conf |-> items[r].conf]
      BY <2>1, <2>5
    <3> HIDE DEF type
    <3> QED
      BY <3>1, <3>2, <3>3 DEF WasteRows, Findings
  <2> QED
    BY <2>4, <2>5
<1>3. ASSUME NEW r \in Resources, Decide(r) \/ Restore(r) \/ SyncResolves(r) \/ CloudChanges(r)
             \/ WriteInsight(r) \/ RefreshMetrics(r)
      PROVE  UNCHANGED waste
  BY <1>3 DEF Decide, Restore, SyncResolves, CloudChanges, WriteInsight, RefreshMetrics, database
<1>4. CASE CleanupOrphans \/ StartRun \/ Collect \/ Detect \/ Recommend \/ ReadPending
           \/ EnrichDone \/ RecordRun \/ DayPasses
  BY <1>1, <1>4 DEF CleanupOrphans, StartRun, Collect, Detect, Recommend, ReadPending,
     EnrichDone, RecordRun, DayPasses, database
<1>5. CASE UNCHANGED vars
  BY <1>1, <1>5 DEF vars
<1> QED
  BY <1>1, <1>2, <1>3, <1>4, <1>5 DEF Next, Pipeline, Meanwhile

\* A row in any status but "absent" is a proposal.
LEMMA StatusType ==
    ASSUME NEW x \in Recommendations, x.status # "absent", NEW st \in Statuses \ {"absent"}
    PROVE  x \in Proposals /\ [x EXCEPT !.status = st] \in Proposals
  BY DEF Recommendations, Proposals, NoRec

\* What the upsert of a finding makes of any row is a proposal.
LEMMA UpsertType ==
    ASSUME NEW r, rec[r] \in Recommendations, NEW item \in Findings
    PROVE  Recommended(r, item) \in Proposals
<1> DEFINE old == rec[r]
<1>1. NewRec(item) \in Proposals
  BY DEF NewRec, Findings, Proposals, Statuses
<1>2. old.status # "absent" => old \in Proposals
  BY DEF Recommendations, NoRec
<1>3. CASE old.status = "absent"
  BY <1>1, <1>3 DEF Recommended
<1>4. CASE old.status # "absent" /\ Detector.revives /\ old.status \in {"pending", "obsolete"}
  <2> DEFINE i == IF \/ old.status = "obsolete"
                     \/ old.action # item.action
                     \/ Drifted(old.savings, item.cost)
                  THEN None ELSE old.insight
  <2>1. Recommended(r, item) = [NewRec(item) EXCEPT !.insight = i]
    BY <1>4 DEF Recommended
  <2>2. i \in {None} \cup Actions
    BY <1>2, <1>4 DEF Proposals
  <2> HIDE DEF i
  <2> QED
    BY <1>1, <2>1, <2>2 DEF Proposals
<1>5. CASE ~Detector.revives /\ old.status = "pending"
  <2> DEFINE o == [old EXCEPT !.savings = item.cost]
             i == IF Drifted(old.savings, item.cost) THEN None ELSE o.insight
  <2>1. o \in Proposals
    BY <1>2, <1>5 DEF Proposals, Findings
  <2>2. i \in {None} \cup Actions
    BY <2>1 DEF Proposals
  <2>3. Recommended(r, item) = [o EXCEPT !.insight = i]
    BY <1>5 DEF Recommended
  <2> HIDE DEF o, i
  <2> QED
    BY <2>1, <2>2, <2>3 DEF Proposals
<1>6. CASE /\ old.status # "absent"
           /\ ~(Detector.revives /\ old.status \in {"pending", "obsolete"})
           /\ ~(~Detector.revives /\ old.status = "pending")
  BY <1>2, <1>6 DEF Recommended
<1> QED
  BY <1>3, <1>4, <1>5, <1>6

\* The recommendations stay typed, and no row goes away.
RowsStay(f) == /\ f \in [Resources -> Recommendations]
               /\ \A r \in Resources : rec[r] \in Proposals => f[r] \in Proposals

\* Every step leaves recommendations, and keeps their rows.
LEMMA RowsStep ==
    ASSUME Types, [Next]_vars
    PROVE  RowsStay(rec')
<1>0. rec \in [Resources -> Recommendations]
  BY DEF Types, TypeOK
<1>1. CASE UNCHANGED rec
  BY <1>0, <1>1 DEF RowsStay
<1>2. ASSUME NEW R \in SUBSET Resources, \A r \in R : rec[r].status # "absent",
             rec' = [r \in Resources |-> IF r \in R THEN [rec[r] EXCEPT !.status = "obsolete"]
                                                    ELSE rec[r]]
      PROVE  RowsStay(rec')
  <2>1. \A r \in R : [rec[r] EXCEPT !.status = "obsolete"] \in Proposals
    BY <1>0, <1>2, StatusType DEF Statuses
  <2> QED
    BY <1>0, <1>2, <2>1 DEF RowsStay, Recommendations
<1>3. ASSUME NEW missed, MarkAmiBacked(missed)
      PROVE  RowsStay(rec')
  <2> DEFINE R == AmiBacked \ missed
  <2>1. rec' = [r \in Resources |-> IF r \in R THEN [rec[r] EXCEPT !.status = "obsolete"]
                                               ELSE rec[r]]
    BY <1>3 DEF MarkAmiBacked
  <2>2. R \in SUBSET Resources /\ \A r \in R : rec[r].status # "absent"
    BY DEF AmiBacked, Rows
  <2> QED
    BY <1>2, <2>1, <2>2
<1>4. CASE CleanupOrphans
  <2>1. rec' = [r \in Resources |-> IF r \in Orphaned THEN [rec[r] EXCEPT !.status = "obsolete"]
                                                      ELSE rec[r]]
    BY <1>4 DEF CleanupOrphans
  <2>2. Orphaned \in SUBSET Resources /\ \A r \in Orphaned : rec[r].status # "absent"
    BY DEF Orphaned, OfKind
  <2> QED
    BY <1>2, <2>1, <2>2
<1>5. ASSUME NEW r \in Resources, Decide(r) \/ Restore(r) \/ SyncResolves(r)
      PROVE  RowsStay(rec')
  <2>1. PICK st \in Statuses \ {"absent"} :
          rec' = [rec EXCEPT ![r] = [rec[r] EXCEPT !.status = st]]
    BY <1>5 DEF Decide, Restore, SyncResolves, Statuses
  <2>2. rec[r].status # "absent"
    BY <1>5 DEF Decide, Restore, SyncResolves
  <2> DEFINE new == [rec[r] EXCEPT !.status = st]
  <2>3. new \in Proposals
    BY <1>0, <2>2, StatusType
  <2> HIDE DEF new
  <2>4. rec' = [rec EXCEPT ![r] = new]
    BY <2>1 DEF new
  <2> QED
    BY <1>0, <2>3, <2>4 DEF RowsStay, Recommendations
<1>6. ASSUME NEW r \in Resources, WriteInsight(r)
      PROVE  RowsStay(rec')
  <2>1. r \in DOMAIN todo /\ rec[r] \in Proposals /\ todo[r] \in Actions
    BY <1>6 DEF WriteInsight, Types, TypeOK, StepKnown
  <2>2. SUFFICES ASSUME rec' # rec PROVE RowsStay(rec')
    BY <1>1
  <2> DEFINE new == [rec[r] EXCEPT !.insight = todo[r]]
  <2>3. rec' = [rec EXCEPT ![r] = new]
    BY <1>6, <2>2 DEF WriteInsight, GenerateInsight
  <2>4. new \in Proposals
    BY <2>1 DEF Proposals
  <2> HIDE DEF new
  <2> QED
    BY <1>0, <2>3, <2>4 DEF RowsStay, Recommendations
<1>7. CASE Recommend
  <2>1. SUFFICES ASSUME rec' = [r \in Resources |->
                IF r \in DOMAIN items THEN Recommended(r, items[r]) ELSE rec[r]]
                 PROVE  RowsStay(rec')
    BY <1>1, <1>7 DEF Recommend
  <2>2. \A r \in DOMAIN items : r \in Resources /\ items[r] \in Findings
    BY DEF Types, TypeOK
  <2>3. \A r \in DOMAIN items : Recommended(r, items[r]) \in Proposals
    BY <1>0, <2>2, UpsertType
  <2> QED
    BY <1>0, <2>1, <2>3 DEF RowsStay, Recommendations
<1>8. CASE Detect
  BY <1>1, <1>3, <1>8 DEF Detect
<1>9. CASE \/ StartRun \/ Collect \/ SaveWaste \/ ReadPending \/ EnrichDone \/ RecordRun
           \/ DayPasses
           \/ \E r \in Resources : CloudChanges(r) \/ RefreshMetrics(r)
  BY <1>1, <1>9 DEF StartRun, Collect, SaveWaste, ReadPending, EnrichDone, RecordRun,
     DayPasses, CloudChanges, RefreshMetrics, database
<1>10. CASE UNCHANGED vars
  BY <1>1, <1>10 DEF vars
<1> QED
  BY <1>4, <1>5, <1>6, <1>7, <1>8, <1>9, <1>10 DEF Next, Pipeline, Meanwhile

-----------------------------------------------------------------------------
(* The steps of a run.                                                     *)

\* g[n] is what Watching keeps of the first n entries.
IsChoice(g, kinds, all, last) ==
    /\ g \in [0..last -> Seq(StepNames)]
    /\ g[0] = <<>>
    /\ \A n \in 1..last : g[n] = IF Watches(kinds, all[n]) THEN Append(g[n - 1], all[n])
                                                            ELSE g[n - 1]

\* For any sequence there is such a g: no length is the least without one.
LEMMA ChoiceExists ==
    ASSUME NEW kinds, NEW all \in Seq(StepNames), NEW last \in Nat, last <= Len(all)
    PROVE  \E g : IsChoice(g, kinds, all, last)
<1> DEFINE T == {n \in 0..last : ~ \E g : IsChoice(g, kinds, all, n)}
<1>0. \A n \in 1..last : all[n] \in StepNames
  <2>1. Len(all) \in Nat
    BY LenProperties
  <2> QED
    BY <2>1, ElementOfSeq
<1>a. SUFFICES T = {}
  <2>1. last \in 0..last
    OBVIOUS
  <2> HIDE DEF IsChoice
  <2> QED
    BY <2>1
<1> SUFFICES ASSUME T # {} PROVE FALSE
  OBVIOUS
<1>1. PICK n \in T : \A m \in T : n <= m
  <2>1. T \subseteq Nat
    OBVIOUS
  <2> HIDE DEF T
  <2> QED
    BY <2>1, LeastNat
<1>2. n \in 0..last /\ ~ \E g : IsChoice(g, kinds, all, n)
  BY <1>1
<1>3. CASE n = 0
  <2>1. IsChoice([d \in 0..0 |-> <<>>], kinds, all, 0)
    BY DEF IsChoice
  <2> QED
    BY <1>2, <1>3, <2>1
<1>4. CASE n # 0
  <2>1. n - 1 \in 0..last /\ n - 1 \notin T
    BY <1>1, <1>2, <1>4
  <2>2. PICK g : IsChoice(g, kinds, all, n - 1)
    BY <2>1
  <2> DEFINE x == IF Watches(kinds, all[n]) THEN Append(g[n - 1], all[n]) ELSE g[n - 1]
             h == [d \in 0..n |-> IF d = n THEN x ELSE g[d]]
  <2>3. \A d \in 0..(n - 1) : g[d] \in Seq(StepNames)
    BY <2>2 DEF IsChoice
  <2>4. x \in Seq(StepNames)
    <3>1. g[n - 1] \in Seq(StepNames) /\ all[n] \in StepNames
      BY <1>0, <1>2, <1>4, <2>3
    <3> QED
      BY <3>1, AppendProperties
  <2>5. h \in [0..n -> Seq(StepNames)]
    <3> HIDE DEF x
    <3> QED
      BY <1>2, <1>4, <2>3, <2>4
  <2>6. h[0] = <<>>
    BY <1>2, <1>4, <2>2 DEF IsChoice
  <2>7. ASSUME NEW d \in 1..n
        PROVE  h[d] = IF Watches(kinds, all[d]) THEN Append(h[d - 1], all[d]) ELSE h[d - 1]
    <3>1. d - 1 \in 0..n /\ d - 1 # n /\ h[d - 1] = g[d - 1]
      BY <1>2, <1>4
    <3>2. CASE d = n
      BY <3>1, <3>2
    <3>3. CASE d # n
      <4>1. d \in 1..(n - 1) /\ h[d] = g[d]
        BY <1>2, <1>4, <3>3
      <4> QED
        BY <3>1, <4>1, <2>2 DEF IsChoice
    <3> QED
      BY <3>2, <3>3
  <2>8. IsChoice(h, kinds, all, n)
    <3> HIDE DEF h
    <3> QED
      BY <2>5, <2>6, <2>7 DEF IsChoice
  <2> QED
    BY <1>2, <2>8
<1> QED
  BY <1>3, <1>4

\* So a pipeline of some steps is a sequence of steps.
LEMMA WatchingType ==
    ASSUME NEW kinds, NEW all \in Seq(StepNames)
    PROVE  Watching(kinds, all) \in Seq(StepNames)
<1> DEFINE D == 0..Len(all)
           Eq(f) == f = [n \in D |-> IF n = 0 THEN <<>>
                            ELSE IF Watches(kinds, all[n]) THEN Append(f[n - 1], all[n])
                            ELSE f[n - 1]]
           f == CHOOSE x : Eq(x)
<1>0. Len(all) \in Nat /\ \A n \in 1..Len(all) : all[n] \in StepNames
  <2>1. Len(all) \in Nat
    BY LenProperties
  <2> QED
    BY <2>1, ElementOfSeq
<1>1. PICK g : IsChoice(g, kinds, all, Len(all))
  <2>1. Len(all) <= Len(all)
    BY <1>0
  <2> QED
    BY <1>0, <2>1, ChoiceExists
<1>2. Eq(g)
  <2>1. \A n \in D : g[n] = IF n = 0 THEN <<>>
                            ELSE IF Watches(kinds, all[n]) THEN Append(g[n - 1], all[n])
                            ELSE g[n - 1]
    <3> SUFFICES ASSUME NEW n \in D
                 PROVE  g[n] = IF n = 0 THEN <<>>
                            ELSE IF Watches(kinds, all[n]) THEN Append(g[n - 1], all[n])
                            ELSE g[n - 1]
      OBVIOUS
    <3>1. CASE n = 0
      BY <1>1, <3>1 DEF IsChoice
    <3>2. CASE n # 0
      <4>1. n \in 1..Len(all)
        BY <1>0, <3>2
      <4> QED
        BY <1>1, <3>2, <4>1 DEF IsChoice
    <3> QED
      BY <3>1, <3>2
  <2>2. g = [n \in D |-> g[n]]
    BY <1>1 DEF IsChoice
  <2> QED
    BY <2>1, <2>2
<1>3. Eq(f)
  <2> HIDE DEF Eq
  <2> QED
    BY <1>2
<1>4. Watching(kinds, all) = f[Len(all)]
  BY Zenon DEF Watching
<1> HIDE DEF f
<1> DEFINE T == {n \in D : f[n] \notin Seq(StepNames)}
<1>5. T = {}
  <2> SUFFICES ASSUME T # {} PROVE FALSE
    OBVIOUS
  <2>1. PICK n \in T : \A m \in T : n <= m
    <3>1. T \subseteq Nat
      BY <1>0
    <3> HIDE DEF T
    <3> QED
      BY <3>1, LeastNat
  <2>2. n \in D /\ f[n] \notin Seq(StepNames)
    BY <2>1
  <2>3. f[n] = IF n = 0 THEN <<>>
               ELSE IF Watches(kinds, all[n]) THEN Append(f[n - 1], all[n])
               ELSE f[n - 1]
    BY <1>3, <2>2
  <2>4. n # 0
    BY <2>2, <2>3
  <2>5. n - 1 \in D /\ n - 1 \notin T
    BY <1>0, <2>1, <2>2, <2>4
  <2>6. f[n - 1] \in Seq(StepNames) /\ all[n] \in StepNames
    BY <1>0, <2>2, <2>4, <2>5
  <2> QED
    BY <2>2, <2>3, <2>4, <2>6, AppendProperties
<1> QED
  BY <1>0, <1>4, <1>5

\* The pipeline is one.
LEMMA StepsType == Steps \in Seq(StepNames)
<1>1. Boto3Steps \o SteampipeSteps \in Seq(StepNames)
  BY DetectionAssumption, ConcatProperties
<1> QED
  BY <1>1, WatchingType DEF Steps

-----------------------------------------------------------------------------
(* What a step does to the run.                                            *)

\* Where the step is: its name, and what it holds.
InStep == {"start", "save", "recommend", "enrich", "insight"}

\* What the end of a step makes of the run.
ExitTypes ==
    /\ pc' \in {"start", "record"} /\ steps' \in Seq(StepNames)
    /\ pc' = "start" => steps' # <<>>
    /\ failed' \subseteq StepNames /\ faults' \in 0..MaxFaults
    /\ DOMAIN items' = {} /\ DOMAIN todo' = {}

\* A step ends well or badly: the next one starts, or the run is recorded.
LEMMA ExitStep ==
    ASSUME Types, pc \in InStep, ExitNonzero \/ (ExitZero /\ faults' \in 0..MaxFaults)
    PROVE  ExitTypes
<1>1. steps \in Seq(StepNames) /\ steps # <<>> /\ failed \subseteq StepNames
      /\ faults \in 0..MaxFaults
  BY DEF Types, TypeOK, StepKnown, InStep
<1>2. Head(steps) \in StepNames /\ Tail(steps) \in Seq(StepNames) /\ Len(steps) \in Nat
      /\ Len(Tail(steps)) = Len(steps) - 1
  <2>1. /\ Head(steps) \in StepNames /\ Tail(steps) \in Seq(StepNames)
        /\ Len(Tail(steps)) = Len(steps) - 1
    BY <1>1, HeadTailProperties
  <2>2. Len(steps) \in Nat
    BY <1>1, LenProperties
  <2> QED
    BY <2>1, <2>2
<1>3. Len(steps) # 1 => Tail(steps) # <<>>
  <2>1. Tail(steps) = <<>> => Len(Tail(steps)) = 0
    BY EmptySeq
  <2> QED
    BY <1>2, <2>1
<1>4. /\ failed' = failed \/ failed' = failed \cup {Head(steps)}
      /\ steps' = Tail(steps)
      /\ pc' = IF Len(steps) = 1 THEN "record" ELSE "start"
      /\ items' = <<>> /\ todo' = <<>>
      /\ faults' \in 0..MaxFaults
  BY <1>1, DetectionAssumption DEF ExitNonzero, ExitZero, Exit, Fault
<1>5. DOMAIN items' = {} /\ DOMAIN todo' = {}
  BY <1>4
<1> QED
  BY <1>1, <1>2, <1>3, <1>4, <1>5 DEF ExitTypes

\* What a step of a run makes of the run.
RunTyped ==
    /\ pc' \in Phases /\ steps' \in Seq(StepNames)
    /\ pc' \in InStep => steps' # <<>>
    /\ pc' \in {"save", "recommend"} => Head(steps') \in Names
    /\ \A r \in DOMAIN items' : r \in Resources /\ items'[r] \in Findings
    /\ \A r \in DOMAIN todo' : r \in Resources /\ todo'[r] \in Actions /\ rec[r] \in Proposals
    /\ failed' \subseteq StepNames /\ lost' \subseteq StepNames
    /\ faults' \in 0..MaxFaults

\* The end of a step is a step of the run.
LEMMA ExitIsTyped ==
    ASSUME ExitTypes, lost' \subseteq StepNames
    PROVE  RunTyped
  BY DEF ExitTypes, RunTyped, InStep, Phases

\* The bound on faults holds.
LEMMA FaultStep ==
    ASSUME Types, Fault \/ UNCHANGED faults
    PROVE  faults' \in 0..MaxFaults
  BY DetectionAssumption DEF Types, TypeOK, Fault

\* Every step leaves a run that knows where it is.
LEMMA RunStep ==
    ASSUME Types, [Next]_vars
    PROVE  RunTyped
<1>0. /\ pc \in Phases /\ steps \in Seq(StepNames)
      /\ pc \in InStep => steps # <<>>
      /\ pc \in {"save", "recommend"} => Head(steps) \in Names
      /\ \A r \in DOMAIN items : r \in Resources /\ items[r] \in Findings
      /\ \A r \in DOMAIN todo : r \in Resources /\ todo[r] \in Actions /\ rec[r] \in Proposals
      /\ failed \subseteq StepNames /\ lost \subseteq StepNames
      /\ faults \in 0..MaxFaults
  BY DEF Types, TypeOK, StepKnown, InStep
<1>1. CASE StartRun
  <2>1. /\ pc' = IF Steps = <<>> THEN "record" ELSE "start"
        /\ steps' = Steps
        /\ UNCHANGED <<items, todo, failed, lost, faults>>
    BY <1>1 DEF StartRun
  <2>2. Steps \in Seq(StepNames)
    BY StepsType
  <2> QED
    BY <1>0, <2>1, <2>2 DEF RunTyped, InStep, Phases
<1>2. CASE Collect
  <2>1. pc \in InStep /\ lost' = lost
    BY <1>2 DEF Collect, InStep
  <2>2. ExitNonzero \/ (ExitZero /\ (Fault \/ UNCHANGED faults))
    BY <1>2 DEF Collect
  <2>3. ExitTypes
    BY <2>1, <2>2, FaultStep, ExitStep
  <2> QED
    BY <1>0, <2>1, <2>3, ExitIsTyped
<1>3. CASE Detect
  <2>1. pc = "start" /\ Head(steps) # "aws_cloudwatch" /\ pc \in InStep
    BY <1>3 DEF Detect, Name, InStep
  <2>2. Head(steps) \in Names
    <3>1. Head(steps) \in StepNames
      BY <1>0, <2>1, HeadTailProperties
    <3> QED
      BY <2>1, <3>1 DEF StepNames
  <2>3. CASE (ExitNonzero \/ (ExitZero /\ (Fault \/ UNCHANGED faults))) /\ lost' = lost
    BY <1>0, <2>1, <2>3, FaultStep, ExitStep, ExitIsTyped
  <2>4. ASSUME NEW found \in SUBSET Reported(Name),
               items' = [r \in found |-> Finding(Name, r)],
               pc' = "save", lost' = lost \cup {Name}, Fault \/ UNCHANGED faults,
               UNCHANGED <<steps, failed, todo>>
        PROVE  RunTyped
    <3>1. SamplesTyped
      BY DEF Types, TypeOK, SamplesTyped
    <3>2. \A r \in found : r \in Resources /\ Finding(Name, r) \in Findings
      BY <2>2, <3>1, FindingType DEF Name
    <3>3. \A r \in DOMAIN items' : r \in Resources /\ items'[r] \in Findings
      BY <2>4, <3>2
    <3>4. faults' \in 0..MaxFaults
      BY <2>4, FaultStep
    <3>5. lost' \subseteq StepNames
      BY <1>0, <2>2, <2>4 DEF Name, StepNames
    <3> QED
      BY <1>0, <2>1, <2>2, <2>4, <3>3, <3>4, <3>5 DEF RunTyped, Phases
  <2>5. \/ (ExitNonzero \/ (ExitZero /\ (Fault \/ UNCHANGED faults))) /\ lost' = lost
        \/ \E found \in SUBSET Reported(Name) :
              /\ items' = [r \in found |-> Finding(Name, r)]
              /\ pc' = "save" /\ lost' = lost \cup {Name} /\ (Fault \/ UNCHANGED faults)
              /\ UNCHANGED <<steps, failed, todo>>
    <3>1. CASE ExitNonzero /\ UNCHANGED <<rec, lost>>
      BY <3>1
    <3>2. ASSUME NEW skipped \in SUBSET Reported(Name),
                 IF skipped = {} THEN UNCHANGED faults ELSE Fault /\ Name # "ec2_idle",
                 IF Reported(Name) \ skipped = {}
                   THEN ExitZero /\ UNCHANGED lost
                   ELSE /\ items' = [r \in Reported(Name) \ skipped |-> Finding(Name, r)]
                        /\ pc' = "save" /\ lost' = lost \cup {Name}
                        /\ UNCHANGED <<steps, failed, todo>>
          PROVE  \/ (ExitZero /\ (Fault \/ UNCHANGED faults)) /\ lost' = lost
                 \/ \E found \in SUBSET Reported(Name) :
                       /\ items' = [r \in found |-> Finding(Name, r)]
                       /\ pc' = "save" /\ lost' = lost \cup {Name} /\ (Fault \/ UNCHANGED faults)
                       /\ UNCHANGED <<steps, failed, todo>>
      <4>1. Fault \/ UNCHANGED faults
        BY <3>2
      <4>2. Reported(Name) \ skipped \in SUBSET Reported(Name)
        OBVIOUS
      <4> QED
        BY <3>2, <4>1, <4>2
    <3> QED
      BY <1>3, <3>1, <3>2 DEF Detect
  <2> QED
    BY <2>3, <2>4, <2>5
<1>4. CASE SaveWaste
  <2>1. pc = "save" /\ pc \in InStep /\ lost' = lost
    BY <1>4 DEF SaveWaste, InStep
  <2>2. CASE ExitNonzero
    BY <1>0, <2>1, <2>2, ExitStep, ExitIsTyped
  <2>3. CASE pc' = "recommend" /\ UNCHANGED <<steps, items, todo, failed, faults>>
    BY <1>0, <2>1, <2>3 DEF RunTyped, Phases
  <2> QED
    BY <1>4, <2>2, <2>3 DEF SaveWaste
<1>5. CASE Recommend
  <2>1. pc = "recommend" /\ pc \in InStep /\ (lost' = lost \/ lost' = lost \ {Name})
    BY <1>5 DEF Recommend, InStep
  <2>2. lost' \subseteq StepNames
    BY <1>0, <2>1
  <2>3. CASE ExitNonzero \/ (ExitZero /\ UNCHANGED faults)
    BY <1>0, <2>1, <2>2, <2>3, FaultStep, ExitStep, ExitIsTyped
  <2>4. CASE /\ pc' = "enrich" /\ items' = <<>>
             /\ UNCHANGED <<steps, todo, failed, faults>>
    BY <1>0, <2>1, <2>2, <2>4 DEF RunTyped, Phases
  <2> QED
    BY <1>5, <2>3, <2>4 DEF Recommend
<1>6. CASE ReadPending
  <2> DEFINE bare == {r \in Rows("pending") : rec[r].insight = None}
  <2>1. /\ pc = "enrich" /\ pc' = "insight" /\ todo' = [r \in bare |-> rec[r].action]
        /\ UNCHANGED <<steps, items, failed, lost, faults>>
    BY <1>6 DEF ReadPending
  <2>2. \A r \in bare : r \in Resources /\ rec[r].action \in Actions /\ rec[r] \in Proposals
    <3>1. \A r \in bare : r \in Resources /\ rec[r] \in Recommendations
                          /\ rec[r].status # "absent"
      BY DEF Rows, Types, TypeOK
    <3>2. \A r \in bare : rec[r] \in Proposals
      BY <3>1 DEF Recommendations, NoRec
    <3> QED
      BY <3>1, <3>2 DEF Proposals
  <2> HIDE DEF bare
  <2>3. \A r \in DOMAIN todo' : r \in Resources /\ todo'[r] \in Actions /\ rec[r] \in Proposals
    BY <2>1, <2>2
  <2> QED
    BY <1>0, <2>1, <2>3 DEF RunTyped, InStep, Phases
<1>7. ASSUME NEW r \in Resources, WriteInsight(r) PROVE RunTyped
  <2>1. /\ todo' = [s \in DOMAIN todo \ {r} |-> todo[s]]
        /\ UNCHANGED <<pc, steps, items, failed, lost, faults>>
    BY <1>7 DEF WriteInsight
  <2> QED
    BY <1>0, <2>1 DEF RunTyped
<1>8. CASE EnrichDone
  <2>1. pc \in InStep /\ lost' = lost /\ ExitZero /\ (Fault \/ UNCHANGED faults)
    BY <1>8 DEF EnrichDone, InStep
  <2> QED
    BY <1>0, <2>1, FaultStep, ExitStep, ExitIsTyped
<1>9. CASE RecordRun
  <2>1. /\ pc' \in {"idle", "night"} /\ failed' = {} /\ lost' = {}
        /\ UNCHANGED <<steps, items, todo>> /\ (Fault \/ UNCHANGED faults)
    BY <1>9 DEF RecordRun
  <2> QED
    BY <1>0, <2>1, FaultStep DEF RunTyped, InStep, Phases
<1>10. CASE UNCHANGED <<pc, steps, items, todo, failed, lost>> /\ (Fault \/ UNCHANGED faults)
  BY <1>0, <1>10, FaultStep DEF RunTyped
<1>11. CASE DayPasses
  <2>1. pc' = "idle" /\ UNCHANGED <<steps, items, todo, failed, lost, faults>>
    BY <1>11 DEF DayPasses
  <2> QED
    BY <1>0, <2>1 DEF RunTyped, InStep, Phases
<1>12. CASE Meanwhile \/ UNCHANGED vars
  BY <1>10, <1>12 DEF Meanwhile, CleanupOrphans, CloudChanges, Decide, Restore, SyncResolves,
     RefreshMetrics, run, vars
<1> QED
  BY <1>1, <1>2, <1>3, <1>4, <1>5, <1>6, <1>7, <1>8, <1>9, <1>11, <1>12 DEF Next, Pipeline

\* All types are right at first...
LEMMA InitTypes == Init => Types
<1> SUFFICES ASSUME Init PROVE Types
  OBVIOUS
<1>1. TypeOK
  BY DetectionAssumption DEF Init, TypeOK, Recommendations, Phases
<1>2. WorldTypes
  BY DEF Init, WorldTypes
<1>3. StepKnown
  BY DEF Init, StepKnown
<1> QED
  BY <1>1, <1>2, <1>3 DEF Types

\* ...and every step keeps them.
LEMMA TypesStep == ASSUME Types, [Next]_vars PROVE Types'
<1>1. WorldTypes'
  BY WorldStep DEF Types
<1>2. samples' \in [Resources -> [1..Window -> {None} \cup Samples]]
  BY SamplesStep DEF Types
<1>3. waste' \in [Resources -> {None} \cup WasteRows]
  BY WasteStep
<1>4. RowsStay(rec')
  BY RowsStep
<1>5. RunTyped
  BY RunStep
<1>6. TypeOK'
  BY <1>1, <1>2, <1>3, <1>4, <1>5 DEF TypeOK, WorldTypes, RowsStay, RunTyped
<1>7. StepKnown'
  BY <1>4, <1>5 DEF StepKnown, RowsStay, RunTyped, InStep
<1> QED
  BY <1>1, <1>6, <1>7 DEF Types

\* Whatever the order of pipeline, people, syncs and metrics, samples, waste
\* and recommendations stay of their types: no row with an action or a price
\* that no detector has, no confidence beyond a percentage, and the pipeline
\* holds only findings it can save, of steps it has.
THEOREM TypeCorrect == Spec => []TypeOK
<1>1. Init => Types
  BY InitTypes
<1>2. Types /\ [Next]_vars => Types'
  BY TypesStep
<1>3. Types => TypeOK
  BY DEF Types
<1> QED
  BY <1>1, <1>2, <1>3, PTL DEF Spec

-----------------------------------------------------------------------------
(* Recommendations.                                                        *)

\* A recommendation is a record of these fields, whatever their values.
IsRec(x) == x = [status |-> x.status, action |-> x.action, savings |-> x.savings,
                 insight |-> x.insight]

\* rec is a function of the resources, to such records.
Shaped == DOMAIN rec = Resources /\ rec = [r \in Resources |-> rec[r]]
          /\ \A r \in Resources : IsRec(rec[r])

\* An insight speaks of the action of its row, whatever the status of the row.
Speaks(x) == x.insight # None => x.insight = x.action

\* While the model is asked, the actions it was told are those of the rows.
Asked ==
    pc = "insight" => \A r \in DOMAIN todo : r \in Resources /\ todo[r] = rec[r].action

\* The inductive invariant of InsightOfAction.
InsightInv == Shaped /\ (\A r \in Resources : Speaks(rec[r])) /\ Asked

\* A row whose status alone changes.
WithStatus(x, st) == [x EXCEPT !.status = st]

\* A row whose status alone changes proposes what it proposed.
LEMMA StatusChanged ==
    ASSUME NEW x, IsRec(x), NEW st
    PROVE  LET y == WithStatus(x, st)
           IN  IsRec(y) /\ y.status = st /\ y.action = x.action
               /\ y.savings = x.savings /\ y.insight = x.insight
  BY DEF IsRec, WithStatus

\* And so for its insight...
LEMMA InsightChanged ==
    ASSUME NEW x, IsRec(x), NEW i
    PROVE  LET y == [x EXCEPT !.insight = i]
           IN  IsRec(y) /\ y.insight = i /\ y.action = x.action
               /\ y.savings = x.savings /\ y.status = x.status
  BY DEF IsRec

\* ...and for its savings.
LEMMA SavingsChanged ==
    ASSUME NEW x, IsRec(x), NEW s
    PROVE  LET y == [x EXCEPT !.savings = s]
           IN  IsRec(y) /\ y.savings = s /\ y.action = x.action
               /\ y.insight = x.insight /\ y.status = x.status
  BY DEF IsRec

\* The upsert of Recommended keeps what is decided, and drops an insight whenever
\* it changes the action.
LEMMA Upsert ==
    ASSUME NEW r, IsRec(rec[r]), Speaks(rec[r]), NEW item
    PROVE  LET new == Recommended(r, item)
           IN  /\ IsRec(new) /\ Speaks(new)
               /\ rec[r].status = "decided" => new = rec[r]
<1> DEFINE old == rec[r]
           new == Recommended(r, item)
<1>1. IsRec(NewRec(item)) /\ NewRec(item).action = item.action /\ NewRec(item).insight = None
  BY DEF NewRec, IsRec
<1>2. CASE old.status = "absent"
  <2>1. new = NewRec(item)
    BY <1>2 DEF Recommended
  <2> QED
    BY <1>1, <1>2, <2>1 DEF Speaks
<1>3. CASE old.status # "absent" /\ Detector.revives /\ old.status \in {"pending", "obsolete"}
  <2> DEFINE i == IF \/ old.status = "obsolete"
                     \/ old.action # item.action
                     \/ Drifted(old.savings, item.cost)
                  THEN None ELSE old.insight
  <2>1. new = [NewRec(item) EXCEPT !.insight = i]
    BY <1>3 DEF Recommended
  <2>2. i = None \/ (i = old.insight /\ old.action = item.action)
    OBVIOUS
  <2> HIDE DEF i
  <2>3. IsRec(new) /\ new.insight = i /\ new.action = item.action
    BY <1>1, <2>1, InsightChanged
  <2> QED
    BY <1>3, <2>2, <2>3 DEF Speaks
<1>4. CASE ~Detector.revives /\ old.status = "pending"
  <2> DEFINE o == [old EXCEPT !.savings = item.cost]
             i == IF Drifted(old.savings, item.cost) THEN None ELSE o.insight
  <2>1. IsRec(o) /\ o.action = old.action /\ o.insight = old.insight
    BY SavingsChanged
  <2>2. new = [o EXCEPT !.insight = i]
    BY <1>4 DEF Recommended
  <2>3. i = None \/ i = old.insight
    BY <2>1
  <2> HIDE DEF o, i
  <2>4. IsRec(new) /\ new.insight = i /\ new.action = old.action
    BY <2>1, <2>2, InsightChanged
  <2> QED
    BY <1>4, <2>3, <2>4 DEF Speaks
<1>5. CASE /\ old.status # "absent"
           /\ ~(Detector.revives /\ old.status \in {"pending", "obsolete"})
           /\ ~(~Detector.revives /\ old.status = "pending")
  <2>1. new = old
    BY <1>5 DEF Recommended
  <2> QED
    BY <2>1
<1> QED
  BY <1>2, <1>3, <1>4, <1>5

\* The recommendations after a step: rows of the same resources.
Kept(f) == /\ DOMAIN f = Resources /\ f = [r \in Resources |-> f[r]]
           /\ \A r \in Resources : IsRec(f[r]) /\ Speaks(f[r])

\* Statuses may change, of any rows, to anything: no insight becomes wrong.
LEMMA StatusesChange ==
    ASSUME InsightInv, NEW f, DOMAIN f = Resources, f = [r \in Resources |-> f[r]],
           \A r \in Resources : f[r] = rec[r] \/ \E st : f[r] = WithStatus(rec[r], st)
    PROVE  Kept(f) /\ \A r \in Resources : f[r].action = rec[r].action
<1> SUFFICES ASSUME NEW r \in Resources
             PROVE  IsRec(f[r]) /\ Speaks(f[r]) /\ f[r].action = rec[r].action
  BY DEF Kept
<1>1. IsRec(rec[r]) /\ Speaks(rec[r])
  BY DEF InsightInv, Shaped
<1>2. CASE f[r] = rec[r]
  BY <1>1, <1>2
<1>3. ASSUME NEW st, f[r] = WithStatus(rec[r], st)
      PROVE  IsRec(f[r]) /\ Speaks(f[r]) /\ f[r].action = rec[r].action
  BY <1>1, <1>3, StatusChanged DEF Speaks
<1> QED
  BY <1>2, <1>3

\* What a step does to the recommendations: only Recommend changes an action.
LEMMA RecStep ==
    ASSUME InsightInv, [Next]_vars
    PROVE  Kept(rec') /\ (pc = "recommend" \/ \A r \in Resources : rec'[r].action = rec[r].action)
<1> DEFINE Goal == Kept(rec') /\ (pc = "recommend"
                                  \/ \A r \in Resources : rec'[r].action = rec[r].action)
<1>0. /\ DOMAIN rec = Resources /\ rec = [r \in Resources |-> rec[r]]
      /\ \A r \in Resources : IsRec(rec[r]) /\ Speaks(rec[r])
  BY DEF InsightInv, Shaped
<1>1. CASE UNCHANGED rec
  BY <1>0, <1>1 DEF Kept
<1>2. ASSUME NEW missed, MarkAmiBacked(missed)
      PROVE  Goal
  <2>1. DOMAIN rec' = Resources /\ rec' = [r \in Resources |-> rec'[r]]
    BY <1>2 DEF MarkAmiBacked
  <2>2. \A r \in Resources : rec'[r] = rec[r] \/ rec'[r] = WithStatus(rec[r], "obsolete")
    BY <1>2 DEF MarkAmiBacked, WithStatus
  <2> QED
    BY <2>1, <2>2, StatusesChange
<1>3. CASE CleanupOrphans
  <2>1. DOMAIN rec' = Resources /\ rec' = [r \in Resources |-> rec'[r]]
    BY <1>3 DEF CleanupOrphans
  <2>2. \A r \in Resources : rec'[r] = rec[r] \/ rec'[r] = WithStatus(rec[r], "obsolete")
    BY <1>3 DEF CleanupOrphans, WithStatus
  <2> QED
    BY <2>1, <2>2, StatusesChange
<1>4. ASSUME NEW r \in Resources, Decide(r) \/ Restore(r) \/ SyncResolves(r) PROVE Goal
  <2>1. PICK st \in {"decided", "pending", "obsolete"} :
          rec' = [rec EXCEPT ![r] = WithStatus(rec[r], st)]
    BY <1>4 DEF Decide, Restore, SyncResolves, WithStatus
  <2>2. DOMAIN rec' = Resources /\ rec' = [q \in Resources |-> rec'[q]]
    BY <1>0, <2>1
  <2>3. \A q \in Resources : rec'[q] = rec[q] \/ rec'[q] = WithStatus(rec[q], st)
    BY <1>0, <2>1
  <2> QED
    BY <2>2, <2>3, StatusesChange
<1>5. ASSUME NEW r \in Resources, WriteInsight(r) PROVE Goal
  <2>1. /\ pc = "insight" /\ r \in DOMAIN todo
        /\ \E i \in GenerateInsight(todo[r]) :
              rec' = IF i = None THEN rec ELSE [rec EXCEPT ![r].insight = i]
    BY <1>5 DEF WriteInsight
  <2>2. CASE rec' = rec
    BY <1>1, <2>2
  <2>3. CASE rec' # rec
    <3>1. rec' = [rec EXCEPT ![r].insight = todo[r]]
      BY <2>1, <2>3 DEF GenerateInsight
    <3> DEFINE new == [rec[r] EXCEPT !.insight = todo[r]]
    <3>2. rec' = [rec EXCEPT ![r] = new]
      BY <3>1
    <3>3. IsRec(new) /\ new.insight = todo[r] /\ new.action = rec[r].action
      BY <1>0, InsightChanged
    <3>4. todo[r] = rec[r].action
      BY <2>1 DEF InsightInv, Asked
    <3> HIDE DEF new
    <3>5. DOMAIN rec' = Resources /\ rec' = [q \in Resources |-> rec'[q]]
          /\ rec'[r] = new /\ \A q \in Resources : q # r => rec'[q] = rec[q]
      BY <1>0, <3>2
    <3> QED
      BY <1>0, <3>3, <3>4, <3>5 DEF Kept, Speaks
  <2> QED
    BY <2>2, <2>3
<1>6. CASE Recommend
  <2>1. CASE UNCHANGED rec
    BY <1>1, <2>1
  <2>2. CASE rec' = [r \in Resources |->
                IF r \in DOMAIN items THEN Recommended(r, items[r]) ELSE rec[r]]
    <3>1. pc = "recommend" /\ DOMAIN rec' = Resources /\ rec' = [r \in Resources |-> rec'[r]]
      BY <1>6, <2>2 DEF Recommend
    <3>2. \A r \in Resources : IsRec(rec'[r]) /\ Speaks(rec'[r])
      BY <1>0, <2>2, Upsert
    <3> QED
      BY <3>1, <3>2 DEF Kept
  <2> QED
    BY <1>6, <2>1, <2>2 DEF Recommend
<1>7. CASE Detect
  BY <1>1, <1>2, <1>7 DEF Detect
<1>8. CASE \/ StartRun \/ Collect \/ SaveWaste \/ ReadPending \/ EnrichDone \/ RecordRun
           \/ DayPasses
           \/ \E r \in Resources : CloudChanges(r) \/ RefreshMetrics(r)
  BY <1>1, <1>8 DEF StartRun, Collect, SaveWaste, ReadPending, EnrichDone, RecordRun,
     DayPasses, CloudChanges, RefreshMetrics, database
<1>9. CASE UNCHANGED vars
  BY <1>1, <1>9 DEF vars
<1> QED
  BY <1>3, <1>4, <1>5, <1>6, <1>7, <1>8, <1>9 DEF Next, Pipeline, Meanwhile

\* Asked holds on: while the model is asked only this step and statuses move.
LEMMA AskedStep ==
    ASSUME InsightInv, [Next]_vars
    PROVE  Asked'
<1> SUFFICES ASSUME pc' = "insight", NEW r \in DOMAIN todo'
             PROVE  r \in Resources /\ todo'[r] = rec'[r].action
  BY DEF Asked
<1>1. CASE ReadPending
  BY <1>1 DEF ReadPending, Rows, database
<1>2. CASE ~ReadPending
  <2>1. /\ pc = "insight" /\ r \in DOMAIN todo /\ todo'[r] = todo[r]
    <3>1. ASSUME NEW q \in Resources, WriteInsight(q)
          PROVE  pc = "insight" /\ r \in DOMAIN todo /\ todo'[r] = todo[r]
      BY <3>1 DEF WriteInsight
    <3>2. CASE UNCHANGED <<pc, todo>>
      BY <3>2
    <3>3. ~EnrichDone /\ ~Collect /\ ~Detect /\ ~SaveWaste /\ ~Recommend /\ ~StartRun
          /\ ~RecordRun /\ ~DayPasses
      BY DEF EnrichDone, Collect, Detect, SaveWaste, Recommend, StartRun, RecordRun,
         DayPasses, ExitZero, ExitNonzero, Exit
    <3> QED
      BY <1>2, <3>1, <3>2, <3>3 DEF Next, Pipeline, Meanwhile, vars, run, CloudChanges, Decide,
         Restore, SyncResolves, RefreshMetrics, CleanupOrphans
  <2>2. r \in Resources /\ todo[r] = rec[r].action
    BY <2>1 DEF InsightInv, Asked
  <2> QED
    BY <2>1, <2>2, RecStep
<1> QED
  BY <1>1, <1>2

\* There is no insight at first...
LEMMA InitInsight == Init => InsightInv
<1> SUFFICES ASSUME Init PROVE InsightInv
  OBVIOUS
<1>1. IsRec(NoRec) /\ Speaks(NoRec)
  BY DEF IsRec, Speaks, NoRec
<1> QED
  BY <1>1 DEF Init, InsightInv, Shaped, Asked

\* ...and every step keeps them right.
LEMMA InsightStep == ASSUME InsightInv, [Next]_vars PROVE InsightInv'
<1>1. Kept(rec')
  BY RecStep
<1> QED
  BY <1>1, AskedStep DEF Kept, InsightInv, Shaped

\* InsightOfAction: whatever enrich_recommendations stores by id after its call of
\* the model, no row speaks of an action it does not propose.
THEOREM InsightsTrue == Spec => []InsightOfAction
<1>1. Init => InsightInv
  BY InitInsight
<1>2. InsightInv /\ [Next]_vars => InsightInv'
  BY InsightStep
<1>3. InsightInv => InsightOfAction
  BY DEF InsightInv, Speaks, InsightOfAction
<1> QED
  BY <1>1, <1>2, <1>3, PTL DEF Spec

-----------------------------------------------------------------------------
(* Decisions.                                                              *)

\* What a detector may do to a row that someone decided: give it an insight.
LeftAlone ==
    \A r \in Rows("decided") :
        /\ rec'[r].status = "decided"
        /\ <<rec'[r].action, rec'[r].savings>> = <<rec[r].action, rec[r].savings>>

\* DetectorsKeepDecisions: no step of the pipeline changes the status, the action or
\* the savings of a row that someone decided.
THEOREM DecisionsKept == Spec => DetectorsKeepDecisions
<1>1. ASSUME InsightInv, [Next]_vars
      PROVE  [(pc # "idle" /\ run' # run) => LeftAlone]_vars
  <2>0. /\ DOMAIN rec = Resources
        /\ \A r \in Resources : IsRec(rec[r]) /\ Speaks(rec[r])
    BY <1>1 DEF InsightInv, Shaped
  <2> SUFFICES ASSUME run' # run, Next PROVE LeftAlone
    BY <1>1 DEF vars, run
  <2>1. CASE rec' = rec
    BY <2>1 DEF LeftAlone, Rows
  <2>2. CASE Detect
    BY <2>1, <2>2 DEF Detect, MarkAmiBacked, AmiBacked, LeftAlone, Rows
  <2>3. CASE Recommend
    BY <2>0, <2>1, <2>3, Upsert DEF Recommend, LeftAlone, Rows
  <2>4. ASSUME NEW q \in Resources, WriteInsight(q) PROVE LeftAlone
    <3>1. rec' = rec \/ \E i : rec' = [rec EXCEPT ![q] = [rec[q] EXCEPT !.insight = i]]
      BY <2>4 DEF WriteInsight
    <3>2. ASSUME NEW i, rec' = [rec EXCEPT ![q] = [rec[q] EXCEPT !.insight = i]]
          PROVE  LeftAlone
      <4> DEFINE new == [rec[q] EXCEPT !.insight = i]
      <4>1. new.status = rec[q].status /\ new.action = rec[q].action
            /\ new.savings = rec[q].savings
        BY <2>0, InsightChanged
      <4> HIDE DEF new
      <4>2. rec' = [rec EXCEPT ![q] = new]
        BY <3>2 DEF new
      <4> QED
        BY <2>0, <4>1, <4>2 DEF LeftAlone, Rows
    <3> QED
      BY <2>1, <3>1, <3>2
  <2>5. CASE \/ StartRun \/ Collect \/ SaveWaste \/ ReadPending \/ EnrichDone \/ RecordRun
             \/ DayPasses
    BY <2>1, <2>5 DEF StartRun, Collect, SaveWaste, ReadPending, EnrichDone, RecordRun,
       DayPasses, database
  <2>6. ~Meanwhile
    BY DEF Meanwhile, CleanupOrphans, CloudChanges, Decide, Restore, SyncResolves,
       RefreshMetrics
  <2> QED
    BY <2>2, <2>3, <2>4, <2>5, <2>6 DEF Next, Pipeline
<1>2. Spec => []InsightInv
  BY InitInsight, InsightStep, PTL DEF Spec
<1> QED
  BY <1>1, <1>2, PTL DEF Spec, DetectorsKeepDecisions, LeftAlone

-----------------------------------------------------------------------------
(* The health of a run.                                                    *)

\* A detector whose findings are not committed has failed, or is still running.
LostIsFailed ==
    /\ lost \subseteq failed \cup (IF pc \in {"save", "recommend"} THEN {Head(steps)} ELSE {})
    /\ HealthyLostNothing

\* HealthyLostNothing: a run that record_run stores as healthy, with its failed steps,
\* committed all that its detectors found.
THEOREM HealthyIsWhole == Spec => []HealthyLostNothing
<1>1. Init => LostIsFailed
  BY DEF Init, LostIsFailed, HealthyLostNothing
<1>2. ASSUME LostIsFailed, [Next]_vars PROVE LostIsFailed'
  <2>1. CASE Detect
    BY <1>2, <2>1 DEF Detect, LostIsFailed, HealthyLostNothing, ExitZero, ExitNonzero, Exit, Name
  <2>2. CASE SaveWaste
    BY <1>2, <2>2 DEF SaveWaste, LostIsFailed, HealthyLostNothing, ExitNonzero, Exit
  <2>3. CASE Recommend
    <3>1. /\ lost \subseteq failed \cup {Head(steps)}
          /\ HealthyLostNothing /\ report' = report
      BY <1>2, <2>3 DEF Recommend, LostIsFailed
    <3>2. \/ lost' = lost \ {Head(steps)} /\ failed' = failed
          \/ lost' = lost /\ failed' = failed \cup {Head(steps)}
      BY <2>3 DEF Recommend, ExitZero, ExitNonzero, Exit, Name
    <3>3. lost' \subseteq failed'
      BY <3>1, <3>2
    <3>4. HealthyLostNothing'
      BY <3>1 DEF HealthyLostNothing
    <3> QED
      BY <3>3, <3>4 DEF LostIsFailed
  <2>4. CASE RecordRun
    <3>1. /\ failed' = {} /\ lost' = {} /\ lost \subseteq failed
          /\ HealthyLostNothing
      BY <1>2, <2>4 DEF RecordRun, LostIsFailed
    <3>2. CASE report' = [healthy |-> failed = {}, guessed |-> FALSE, lost |-> lost]
      <4>1. report'.lost = lost /\ (report'.healthy <=> failed = {})
        BY <3>2
      <4>2. HealthyLostNothing'
        BY <3>1, <4>1 DEF HealthyLostNothing
      <4> QED
        BY <3>1, <4>2 DEF LostIsFailed
    <3>3. CASE report' = [healthy |-> TRUE, guessed |-> TRUE, lost |-> lost]
      <4>1. report'.guessed
        BY <3>3
      <4>2. HealthyLostNothing'
        BY <4>1 DEF HealthyLostNothing
      <4> QED
        BY <3>1, <4>2 DEF LostIsFailed
    <3>4. CASE report' = report
      <4>1. HealthyLostNothing'
        BY <3>1, <3>4 DEF HealthyLostNothing
      <4> QED
        BY <3>1, <4>1 DEF LostIsFailed
    <3> QED
      BY <2>4, <3>2, <3>3, <3>4 DEF RecordRun
  <2>5. CASE StartRun
    BY <1>2, <2>5 DEF StartRun, LostIsFailed, HealthyLostNothing
  <2>6. CASE Collect
    BY <1>2, <2>6 DEF Collect, LostIsFailed, HealthyLostNothing, ExitZero, ExitNonzero, Exit
  <2>7. CASE EnrichDone
    BY <1>2, <2>7 DEF EnrichDone, LostIsFailed, HealthyLostNothing, ExitZero, Exit
  <2>8. CASE ReadPending \/ DayPasses \/ \E r \in Resources : WriteInsight(r)
    BY <1>2, <2>8 DEF ReadPending, DayPasses, WriteInsight, LostIsFailed, HealthyLostNothing
  <2>9. CASE Meanwhile \/ UNCHANGED vars
    BY <1>2, <2>9 DEF Meanwhile, CleanupOrphans, CloudChanges, Decide, Restore, SyncResolves,
       RefreshMetrics, vars, run, LostIsFailed, HealthyLostNothing
  <2> QED
    BY <1>2, <2>1, <2>2, <2>3, <2>4, <2>5, <2>6, <2>7, <2>8, <2>9 DEF Next, Pipeline
<1>3. LostIsFailed => HealthyLostNothing
  BY DEF LostIsFailed
<1> QED
  BY <1>1, <1>2, <1>3, PTL DEF Spec
==============================================================================
