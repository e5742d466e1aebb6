---------------------- MODULE SavingsVerificationProofs ----------------------
(***************************************************************************)
(* Theorems about SavingsVerification, for any instances, bills, windows,  *)
(* pools and bounds.                                                       *)
(*                                                                         *)
(* What the days of a bill add up to is a recursive function, so a claim   *)
(* about it is shown by induction: the least day for which it is false     *)
(* cannot be (LeastNat).  SumIs says that the function is the one its      *)
(* equation describes, SumBounds bounds it by the cheapest or the dearest  *)
(* day, and NoCheaperDayNoSaving compares two averages.                    *)
(***************************************************************************)
EXTENDS SavingsVerification, WellFoundedInduction, FiniteSetTheorems,
        SequenceTheorems, TLAPS

-----------------------------------------------------------------------------
(* Sums over the days of a bill.                                           *)

\* A set of natural numbers that is not empty has a least element.
LEMMA LeastNat ==
    ASSUME NEW T, T \subseteq Nat, T # {}
    PROVE  \E m \in T : \A n \in T : m <= n
<1>1. \E x \in T : \A y \in T : ~ (<<y, x>> \in OpToRel(<, Nat))
  BY NatLessThanWellFounded, WFMin
<1>2. PICK x \in T : \A y \in T : ~ (<<y, x>> \in OpToRel(<, Nat))
  BY <1>1
<1>3. \A y \in T : ~(y < x)
  BY <1>2 DEF OpToRel
<1> QED
  BY <1>3

\* g[d] is what the days first to d add up to.
IsSum(g, c, first, last) ==
    /\ g \in [(first - 1)..last -> Nat]
    /\ g[first - 1] = 0
    /\ \A d \in first..last : g[d] = g[d - 1] + c[d]

\* There is such a function: adding a day to the sum of the days before it.
LEMMA SumExists ==
    ASSUME NEW c, NEW first \in Nat \ {0}, NEW last \in Nat, first <= last,
           \A d \in first..last : c[d] \in Nat
    PROVE  \E g : IsSum(g, c, first, last)
<1> DEFINE T == {n \in (first - 1)..last : ~ \E g : IsSum(g, c, first, n)}
<1>1. SUFFICES T = {}
  <2>1. last \in (first - 1)..last
    OBVIOUS
  <2> QED
    BY <2>1
<1> SUFFICES ASSUME T # {} PROVE FALSE
  OBVIOUS
<1>2. PICK n \in T : \A m \in T : n <= m
  <2>1. T \subseteq Nat
    OBVIOUS
  <2> HIDE DEF T
  <2> QED
    BY <2>1, LeastNat
<1>3. n \in (first - 1)..last /\ ~ \E g : IsSum(g, c, first, n)
  BY <1>2
<1>4. CASE n = first - 1
  <2>1. IsSum([d \in (first - 1)..(first - 1) |-> 0], c, first, first - 1)
    BY DEF IsSum
  <2> QED
    BY <1>3, <1>4, <2>1
<1>5. CASE n # first - 1
  <2>1. n - 1 \in (first - 1)..last /\ n - 1 \notin T
    BY <1>2, <1>3, <1>5
  <2>2. PICK g : IsSum(g, c, first, n - 1)
    BY <2>1
  <2> DEFINE h == [d \in (first - 1)..n |-> IF d = n THEN g[n - 1] + c[n] ELSE g[d]]
  <2>3. c[n] \in Nat /\ n - 1 \in (first - 1)..(n - 1) /\ g[n - 1] \in Nat
    BY <1>3, <1>5, <2>2 DEF IsSum
  <2>4. \A d \in (first - 1)..(n - 1) : g[d] \in Nat
    BY <2>2 DEF IsSum
  <2>5. h \in [(first - 1)..n -> Nat]
    BY <1>3, <1>5, <2>3, <2>4
  <2>6. h[first - 1] = 0
    BY <1>3, <1>5, <2>2 DEF IsSum
  <2>7. ASSUME NEW d \in first..n PROVE h[d] = h[d - 1] + c[d]
    <3>1. d - 1 \in (first - 1)..n /\ d - 1 # n /\ h[d - 1] = g[d - 1]
      BY <1>3, <1>5
    <3>2. CASE d = n
      BY <3>1, <3>2
    <3>3. CASE d # n
      <4>1. d \in first..(n - 1) /\ h[d] = g[d]
        BY <1>3, <1>5, <3>3
      <4> QED
        BY <3>1, <4>1, <2>2 DEF IsSum
    <3> QED
      BY <3>2, <3>3
  <2>8. IsSum(h, c, first, n)
    <3> HIDE DEF h
    <3> QED
      BY <2>5, <2>6, <2>7 DEF IsSum
  <2> QED
    BY <1>3, <2>8
<1> QED
  BY <1>4, <1>5

\* CostOfDays is the last value of such a function.
LEMMA SumIs ==
    ASSUME NEW c, NEW first \in Nat \ {0}, NEW last \in Nat, first <= last,
           \A d \in first..last : c[d] \in Nat
    PROVE  \E g : IsSum(g, c, first, last) /\ CostOfDays(c, first, last) = g[last]
<1> DEFINE D == (first - 1)..last
           Eq(f) == f = [d \in D |-> IF d < first THEN 0 ELSE f[d - 1] + c[d]]
           f == CHOOSE x : Eq(x)
<1>1. PICK g : IsSum(g, c, first, last)
  BY SumExists
<1>2. Eq(g)
  <2>1. \A d \in D : g[d] = IF d < first THEN 0 ELSE g[d - 1] + c[d]
    BY <1>1 DEF IsSum
  <2>2. g = [d \in D |-> g[d]]
    BY <1>1 DEF IsSum
  <2> QED
    BY <2>1, <2>2
<1>3. Eq(f)
  <2> HIDE DEF Eq
  <2> QED
    BY <1>2
<1>4. CostOfDays(c, first, last) = f[last]
  BY Zenon DEF CostOfDays
<1>5. IsSum(f, c, first, last)
  <2> HIDE DEF f
  <2> DEFINE T == {n \in D : f[n] \notin Nat}
  <2>1. T = {}
    <3> SUFFICES ASSUME T # {} PROVE FALSE
      OBVIOUS
    <3>1. PICK n \in T : \A m \in T : n <= m
      <4>1. T \subseteq Nat
        OBVIOUS
      <4> HIDE DEF T
      <4> QED
        BY <4>1, LeastNat
    <3>2. n \in D /\ f[n] \notin Nat
      BY <3>1
    <3>3. f[n] = IF n < first THEN 0 ELSE f[n - 1] + c[n]
      BY <1>3, <3>2
    <3>4. n >= first /\ n - 1 \in D /\ n - 1 \notin T
      BY <3>1, <3>2, <3>3
    <3> QED
      BY <3>2, <3>3, <3>4
  <2>2. \A d \in D : f[d] \in Nat /\ f[d] = IF d < first THEN 0 ELSE f[d - 1] + c[d]
    BY <1>3, <2>1
  <2>3. f \in [D -> Nat]
    <3>1. f = [d \in D |-> f[d]]
      BY <1>3
    <3> QED
      BY <2>2, <3>1
  <2> QED
    BY <2>2, <2>3 DEF IsSum
<1> QED
  BY <1>4, <1>5

\* A sum is at most the dearest day, at least the cheapest day, times the days.
LEMMA SumBounds ==
    ASSUME NEW c, NEW first \in Nat \ {0}, NEW last \in Nat, first <= last,
           \A d \in first..last : c[d] \in Nat,
           NEW m \in Nat
    PROVE  /\ CostOfDays(c, first, last) \in Nat
           /\ (\A d \in first..last : c[d] <= m)
                => CostOfDays(c, first, last) <= m * (last - first + 1)
           /\ (\A d \in first..last : c[d] >= m)
                => CostOfDays(c, first, last) >= m * (last - first + 1)
<1> DEFINE D == (first - 1)..last
<1>1. PICK g : IsSum(g, c, first, last) /\ CostOfDays(c, first, last) = g[last]
  BY SumIs
<1>2. last \in D /\ g[last] \in Nat /\ \A d \in D : g[d] \in Nat
  BY <1>1 DEF IsSum
<1>3. ASSUME \A d \in first..last : c[d] <= m
      PROVE  g[last] <= m * (last - first + 1)
  <2> DEFINE T == {n \in D : ~(g[n] <= m * (n - first + 1))}
  <2>1. T = {}
    <3> SUFFICES ASSUME T # {} PROVE FALSE
      OBVIOUS
    <3>1. PICK n \in T : \A k \in T : n <= k
      <4>1. T \subseteq Nat
        OBVIOUS
      <4> HIDE DEF T
      <4> QED
        BY <4>1, LeastNat
    <3>2. n \in D /\ ~(g[n] <= m * (n - first + 1))
      BY <3>1
    <3>3. n # first - 1
      <4> SUFFICES ASSUME n = first - 1 PROVE FALSE
        OBVIOUS
      <4>1. m * (n - first + 1) = 0
        OBVIOUS
      <4>2. g[n] = 0
        BY <1>1 DEF IsSum
      <4> QED
        BY <3>2, <4>1, <4>2
    <3>4. n \in first..last /\ n - 1 \in D /\ n - 1 \notin T
      BY <3>1, <3>2, <3>3
    <3>5. g[n - 1] <= m * (n - 1 - first + 1)
      BY <3>4
    <3>6. g[n] = g[n - 1] + c[n] /\ c[n] <= m /\ c[n] \in Nat /\ g[n - 1] \in Nat
      BY <1>1, <1>2, <1>3, <3>4 DEF IsSum
    <3>7. m * (n - first + 1) = m * (n - 1 - first + 1) + m
      BY <3>4
    <3>8. m * (n - 1 - first + 1) \in Int /\ m * (n - first + 1) \in Int
      BY <3>4
    <3> QED
      BY <3>2, <3>5, <3>6, <3>7, <3>8
  <2> QED
    BY <1>2, <2>1
<1>4. ASSUME \A d \in first..last : c[d] >= m
      PROVE  g[last] >= m * (last - first + 1)
  <2> DEFINE T == {n \in D : ~(g[n] >= m * (n - first + 1))}
  <2>1. T = {}
    <3> SUFFICES ASSUME T # {} PROVE FALSE
      OBVIOUS
    <3>1. PICK n \in T : \A k \in T : n <= k
      <4>1. T \subseteq Nat
        OBVIOUS
      <4> HIDE DEF T
      <4> QED
        BY <4>1, LeastNat
    <3>2. n \in D /\ ~(g[n] >= m * (n - first + 1))
      BY <3>1
    <3>3. n # first - 1
      <4> SUFFICES ASSUME n = first - 1 PROVE FALSE
        OBVIOUS
      <4>1. m * (n - first + 1) = 0
        OBVIOUS
      <4>2. g[n] = 0
        BY <1>1 DEF IsSum
      <4> QED
        BY <3>2, <4>1, <4>2
    <3>4. n \in first..last /\ n - 1 \in D /\ n - 1 \notin T
      BY <3>1, <3>2, <3>3
    <3>5. g[n - 1] >= m * (n - 1 - first + 1)
      BY <3>4
    <3>6. g[n] = g[n - 1] + c[n] /\ c[n] >= m /\ c[n] \in Nat /\ g[n - 1] \in Nat
      BY <1>1, <1>2, <1>4, <3>4 DEF IsSum
    <3>7. m * (n - first + 1) = m * (n - 1 - first + 1) + m
      BY <3>4
    <3>8. m * (n - 1 - first + 1) \in Int /\ m * (n - first + 1) \in Int
      BY <3>4
    <3> QED
      BY <3>2, <3>5, <3>6, <3>7, <3>8
  <2> QED
    BY <1>2, <2>1
<1> QED
  BY <1>1, <1>2, <1>3, <1>4

\* Multiplying by a natural number keeps the order.
LEMMA MultiplyKeepsOrder ==
    ASSUME NEW a \in Nat, NEW b \in Nat, NEW k \in Nat, a <= b
    PROVE  a * k <= b * k
<1>1. b * k = a * k + (b - a) * k
  OBVIOUS
<1>2. b - a \in Nat /\ (b - a) * k \in Nat /\ a * k \in Nat
  OBVIOUS
<1> QED
  BY <1>1, <1>2

\* When no day after is cheaper than a day before, the days after do not cost less
\* on average, however many there are on either side.
LEMMA NoCheaperDayNoSaving ==
    ASSUME NEW c,
           NEW b \in Nat \ {0}, NEW n \in Nat \ {0},
           NEW f \in Nat \ {0}, NEW k \in Nat \ {0},
           \A d \in b..(b + n - 1) : c[d] \in Nat,
           \A e \in f..(f + k - 1) : c[e] \in Nat,
           \A d \in b..(b + n - 1), e \in f..(f + k - 1) : c[d] <= c[e]
    PROVE  CostOfDays(c, b, b + n - 1) * k <= CostOfDays(c, f, f + k - 1) * n
<1> DEFINE after == {c[e] : e \in f..(f + k - 1)}
<1>1. PICK m \in after : \A x \in after : m <= x
  <2>1. after \subseteq Nat /\ c[f] \in after
    OBVIOUS
  <2> HIDE DEF after
  <2> QED
    BY <2>1, LeastNat
<1>2. PICK e0 \in f..(f + k - 1) : m = c[e0]
  BY <1>1
<1>3. m \in Nat /\ (\A e \in f..(f + k - 1) : c[e] >= m)
      /\ \A d \in b..(b + n - 1) : c[d] <= m
  BY <1>1, <1>2
<1> DEFINE B == CostOfDays(c, b, b + n - 1)
           A == CostOfDays(c, f, f + k - 1)
<1>4. B \in Nat /\ B <= m * n
  <2>1. b + n - 1 \in Nat /\ b <= b + n - 1 /\ b + n - 1 - b + 1 = n
    OBVIOUS
  <2> QED
    BY <1>3, <2>1, SumBounds
<1>5. A \in Nat /\ m * k <= A
  <2>1. f + k - 1 \in Nat /\ f <= f + k - 1 /\ f + k - 1 - f + 1 = k
    OBVIOUS
  <2> QED
    BY <1>3, <2>1, SumBounds
<1> HIDE DEF A, B
<1>6. B * k <= (m * n) * k
  BY <1>3, <1>4, MultiplyKeepsOrder, m * n \in Nat
<1>7. (m * k) * n <= A * n
  BY <1>3, <1>5, MultiplyKeepsOrder, m * k \in Nat
<1>8. (m * n) * k = (m * k) * n /\ (m * n) * k \in Nat /\ B * k \in Nat /\ A * n \in Nat
  BY <1>3, <1>4, <1>5
<1>9. B * k <= A * n
  BY <1>6, <1>7, <1>8
<1> QED
  BY <1>9 DEF A, B

-----------------------------------------------------------------------------
(* Types, and the slots of the pool.                                       *)

\* What actions_log holds.
LogEntry == [rec : Recs, type : ActionTypes, status : {"success", "failed"},
             dry : BOOLEAN, day : 1..MaxDay]

\* Every day that is over has a cost.
CalendarTypes ==
    /\ today \in (Window + 1)..MaxDay
    /\ cost \in [Recs -> Seq(Nat)]
    /\ \A r \in Recs : Len(cost[r]) = today - 1

\* The window before an action is over when the action is logged.
LogTypes ==
    /\ log \in Seq(LogEntry) /\ Len(log) <= MaxActions
    /\ \A i \in 1..Len(log) : log[i].day \in (Window + 1)..today

\* What the job has on its list is logged, was executed, and is old enough.
JobTypes ==
    /\ job \in [pc : {"idle", "build", "list", "verify"}, todo : SUBSET (1..MaxActions)]
    /\ \A i \in job.todo : /\ i \in 1..Len(log) /\ ~log[i].dry
                           /\ today - log[i].day >= MinDays
    /\ job.pc # "verify" => job.todo = {}

\* The pool counts the remediators and the lost connections of the trackers.
PoolTypes ==
    /\ holders \subseteq Workers /\ IsFiniteSet(holders)
    /\ out \in 0..MaxConn /\ lost \in Nat /\ visits \in Nat
    /\ SlotsAccounted
    /\ attempts \in 0..MaxAttempts /\ faults \in 0..MaxFaults

\* The inductive invariant behind the types and SlotsAccounted.
Types == CalendarTypes /\ LogTypes /\ JobTypes /\ PoolTypes /\ savings \in Seq(Rows)

\* It holds when the process starts.
LEMMA InitTypes == Init => Types
<1> SUFFICES ASSUME Init PROVE Types
  OBVIOUS
<1>1. CalendarTypes
  <2>1. cost \in [Recs -> [1..Window -> UNION {Costs[r] : r \in Recs}]]
    BY DEF Init
  <2>2. UNION {Costs[r] : r \in Recs} \subseteq Nat
    BY SavingsAssumption
  <2>3. ASSUME NEW r \in Recs
        PROVE  cost[r] \in Seq(Nat) /\ Len(cost[r]) = Window
    <3>1. cost[r] \in [1..Window -> Nat]
      BY <2>1, <2>2
    <3> QED
      BY <3>1, SavingsAssumption, LenProperties, SeqDef
  <2> QED
    BY <2>1, <2>3, SavingsAssumption DEF Init, CalendarTypes
<1>2. LogTypes
  BY SavingsAssumption DEF Init, LogTypes
<1>3. JobTypes
  BY DEF Init, JobTypes
<1>4. PoolTypes
  BY FS_EmptySet, SavingsAssumption DEF Init, PoolTypes, SlotsAccounted
<1> QED
  BY <1>1, <1>2, <1>3, <1>4 DEF Types, Init

-----------------------------------------------------------------------------
\* A step forgets no day and changes no cost of a day that is over.
LEMMA CalendarStep ==
    ASSUME CalendarTypes, [Next]_vars
    PROVE  /\ CalendarTypes'
           /\ today' >= today
           /\ \A r \in Recs, d \in 1..(today - 1) : cost'[r][d] = cost[r][d]
<1>1. CASE DayPasses
  <2>1. today' = today + 1 /\ today' \in (Window + 1)..MaxDay
    BY <1>1, SavingsAssumption DEF DayPasses, CalendarTypes
  <2>2. PICK c : /\ \A r \in Recs : c[r] \in Costs[r]
                 /\ cost' = [r \in Recs |-> Append(cost[r], c[r])]
    BY <1>1 DEF DayPasses
  <2>3. ASSUME NEW r \in Recs
        PROVE  /\ cost'[r] \in Seq(Nat) /\ Len(cost'[r]) = today
               /\ \A d \in 1..(today - 1) : cost'[r][d] = cost[r][d]
    <3>1. cost'[r] = Append(cost[r], c[r]) /\ c[r] \in Nat /\ cost[r] \in Seq(Nat)
          /\ Len(cost[r]) = today - 1
      BY <2>2, SavingsAssumption DEF CalendarTypes
    <3> QED
      BY <3>1, AppendProperties, SavingsAssumption DEF CalendarTypes
  <2>4. cost' \in [Recs -> Seq(Nat)]
    <3>1. cost' = [r \in Recs |-> cost'[r]]
      BY <2>2
    <3> QED
      BY <2>3, <3>1
  <2> QED
    BY <2>1, <2>3, <2>4, SavingsAssumption DEF CalendarTypes
<1>2. CASE UNCHANGED calendar
  BY <1>2, SavingsAssumption DEF CalendarTypes, calendar
<1> QED
  BY <1>1, <1>2 DEF Next, vars, calendar, LogAction, BuildRemediator, DropRemediator,
     SaverStep, Look, BuildTracker, List, Verify, Close, Restart

\* A step takes nothing out of actions_log.
LEMMA LogStep ==
    ASSUME CalendarTypes, LogTypes, [Next]_vars
    PROVE  /\ LogTypes'
           /\ Len(log') >= Len(log)
           /\ \A i \in 1..Len(log) : log'[i] = log[i]
<1>0. today' \in Int /\ today' >= today /\ today \in (Window + 1)..MaxDay /\ Window \in Nat
  BY CalendarStep, SavingsAssumption DEF CalendarTypes
<1>1. ASSUME NEW r \in Recs, NEW e \in Entries, LogAction(r, e)
      PROVE  /\ LogTypes'
             /\ Len(log') >= Len(log)
             /\ \A i \in 1..Len(log) : log'[i] = log[i]
  <2> DEFINE entry == [rec |-> r, type |-> e.type, status |-> e.status,
                       dry |-> e.dry, day |-> today]
  <2>1. entry \in LogEntry /\ entry.day = today
    <3>1. e \in [type : ActionTypes, dry : BOOLEAN, status : {"success", "failed"}]
      BY SavingsAssumption
    <3> QED
      BY <3>1, <1>0 DEF LogEntry
  <2>2. log' = Append(log, entry) /\ today' = today /\ Len(log) < MaxActions
    BY <1>1 DEF LogAction, calendar
  <2> HIDE DEF entry
  <2>3. /\ log' \in Seq(LogEntry) /\ Len(log') = Len(log) + 1
        /\ log'[Len(log) + 1] = entry
        /\ \A i \in 1..Len(log) : log'[i] = log[i]
    BY <2>1, <2>2, AppendProperties DEF LogTypes
  <2>4. Len(log) \in Nat
    BY LenProperties DEF LogTypes
  <2>5. ASSUME NEW i \in 1..Len(log') PROVE log'[i].day \in (Window + 1)..today'
    BY <1>0, <2>1, <2>2, <2>3, <2>4 DEF LogTypes
  <2> QED
    BY <2>2, <2>3, <2>4, <2>5, SavingsAssumption DEF LogTypes
<1>2. ASSUME log' = log
      PROVE  /\ LogTypes'
             /\ Len(log') >= Len(log)
             /\ \A i \in 1..Len(log) : log'[i] = log[i]
  <2>1. Len(log) \in Nat
    BY LenProperties DEF LogTypes
  <2>2. ASSUME NEW i \in 1..Len(log) PROVE log[i].day \in (Window + 1)..today'
    BY <1>0 DEF LogTypes
  <2> QED
    BY <1>2, <2>1, <2>2 DEF LogTypes
<1> QED
  BY <1>1, <1>2 DEF Next, vars, DayPasses, BuildRemediator, DropRemediator,
     SaverStep, Look, BuildTracker, List, Verify, Close, Restart

\* The oldest action of a list that is not empty is on it.
LEMMA OldestIsListed ==
    ASSUME JobTypes, job.todo # {}
    PROVE  Oldest \in job.todo
<1>1. job.todo \subseteq Nat
  BY DEF JobTypes
<1>2. \E i \in job.todo : \A j \in job.todo : i <= j
  BY <1>1, LeastNat
<1> QED
  BY <1>2 DEF Oldest

\* Only List puts actions on the list of the job.
LEMMA JobStep ==
    ASSUME CalendarTypes, LogTypes, JobTypes, [Next]_vars
    PROVE  /\ JobTypes'
           /\ job'.todo \subseteq job.todo \/ List
<1>0. /\ LogTypes' /\ CalendarTypes' /\ today \in Int /\ today' \in Int /\ today' >= today
      /\ Len(log) \in Nat /\ Len(log') \in Nat /\ Len(log') >= Len(log)
      /\ \A i \in 1..Len(log) : log'[i] = log[i] /\ log[i].day \in Int
  BY CalendarStep, LogStep, LenProperties, SavingsAssumption DEF CalendarTypes, LogTypes
<1>1. CASE job' = job
  <2>1. ASSUME NEW i \in job.todo
        PROVE  i \in 1..Len(log') /\ ~log'[i].dry /\ today' - log'[i].day >= MinDays
    BY <1>0, SavingsAssumption DEF JobTypes
  <2> QED
    BY <1>1, <2>1 DEF JobTypes
<1>2. CASE Idle
  BY <1>2 DEF Idle, JobTypes
<1>3. CASE \E pc \in {"build", "list"} : Goes(pc) /\ job.pc # "verify"
  BY <1>3 DEF Goes, JobTypes
<1>4. CASE List
  <2>1. CASE Idle
    BY <1>2, <2>1
  <2>2. CASE job' = [pc |-> "verify", todo |-> {i \in DOMAIN log : Eligible(i)}]
    <3>1. log' = log /\ today' = today /\ DOMAIN log = 1..Len(log)
      BY <1>4, LenProperties DEF List, calendar, LogTypes
    <3>2. job'.pc = "verify" /\ job'.todo = {i \in 1..Len(log) : Eligible(i)}
      BY <2>2, <3>1
    <3>3. job'.todo \subseteq 1..MaxActions
      BY <1>0, <3>2, SavingsAssumption DEF LogTypes
    <3>4. \A i \in job'.todo : ~log'[i].dry /\ today' - log'[i].day >= MinDays
      BY <3>1, <3>2 DEF Eligible
    <3> QED
      BY <1>4, <2>2, <3>1, <3>2, <3>3, <3>4 DEF JobTypes
  <2> QED
    BY <1>4, <2>1, <2>2 DEF List
<1>5. CASE Verify
  <2>1. CASE Idle
    BY <1>2, <2>1
  <2>2. CASE job' = [job EXCEPT !.todo = @ \ {Oldest}]
    <3>1. job'.pc = job.pc /\ job.pc = "verify" /\ job'.todo = job.todo \ {Oldest}
      BY <1>5, <2>2 DEF Verify, JobTypes
    <3>2. log' = log /\ today' = today
      BY <1>5 DEF Verify, calendar
    <3> QED
      BY <2>2, <3>1, <3>2 DEF JobTypes
  <2> QED
    BY <1>5, <2>1, <2>2 DEF Verify
<1> QED
  BY <1>1, <1>2, <1>3, <1>4, <1>5 DEF Next, vars, DayPasses, LogAction, BuildRemediator,
     DropRemediator, SaverStep, Look, BuildTracker, Close, Restart

\* Every step keeps the count of the pool right.
LEMMA PoolStep ==
    ASSUME PoolTypes, [Next]_vars
    PROVE  PoolTypes'
<1>0. /\ MaxConn \in Nat /\ MaxAttempts \in Nat /\ MaxFaults \in Nat
      /\ attempts \in 0..MaxAttempts /\ faults \in 0..MaxFaults
      /\ Cardinality(holders) \in Nat
  BY SavingsAssumption, FS_CardinalityType DEF PoolTypes
<1>1. attempts' \in 0..MaxAttempts /\ faults' \in 0..MaxFaults
  <2>1. attempts' = attempts \/ (attempts < MaxAttempts /\ attempts' = attempts + 1)
    BY DEF Next, vars, DayPasses, LogAction, BuildRemediator, DropRemediator, SaverStep,
       Look, BuildTracker, List, Verify, Close, Restart
  <2>2. faults' = faults \/ (faults < MaxFaults /\ faults' = faults + 1)
    BY DEF Next, vars, DayPasses, LogAction, BuildRemediator, DropRemediator, SaverStep,
       Look, BuildTracker, List, Verify, Close, Restart, Fault
  <2> QED
    BY <1>0, <2>1, <2>2
<1>2. CASE UNCHANGED pool
  BY <1>1, <1>2 DEF pool, PoolTypes, SlotsAccounted
<1>3. ASSUME NEW w \in Workers, BuildRemediator(w) PROVE PoolTypes'
  <2>1. holders' = holders \cup {w} /\ w \notin holders
        /\ lost' = lost /\ visits' = visits
        /\ out' = out + 1 /\ out < MaxConn
    BY <1>3 DEF BuildRemediator, GetConnection
  <2>2. IsFiniteSet(holders') /\ Cardinality(holders') = Cardinality(holders) + 1
    BY <2>1, FS_AddElement DEF PoolTypes
  <2> QED
    BY <1>0, <1>1, <2>1, <2>2 DEF PoolTypes, SlotsAccounted
<1>4. ASSUME NEW w \in Workers, DropRemediator(w) PROVE PoolTypes'
  <2>1. holders' = holders \ {w} /\ w \in holders /\ out' = out - 1
        /\ lost' = lost /\ visits' = visits
    BY <1>4 DEF DropRemediator, ReleaseConnection
  <2>2. IsFiniteSet(holders') /\ Cardinality(holders') = Cardinality(holders) - 1
    BY <2>1, FS_RemoveElement DEF PoolTypes
  <2>3. Cardinality(holders') \in Nat
    BY <2>2, FS_CardinalityType
  <2> QED
    BY <1>0, <1>1, <2>1, <2>2, <2>3 DEF PoolTypes, SlotsAccounted
<1>5. CASE BuildTracker
  BY <1>0, <1>1, <1>2, <1>5 DEF BuildTracker, GetConnection, pool, PoolTypes, SlotsAccounted
<1>6. CASE Restart
  BY <1>0, <1>1, <1>6, FS_EmptySet DEF Restart, PoolTypes, SlotsAccounted
<1> QED
  BY <1>2, <1>3, <1>4, <1>5, <1>6 DEF Next, vars, pool, DayPasses, LogAction, SaverStep, Look,
     List, Verify, Close

\* The row of an action on the list: both periods are over and have their costs.
LEMMA MeasuredRow ==
    ASSUME CalendarTypes, LogTypes, JobTypes, visits \in Nat, NEW i \in job.todo
    PROVE  LET row == Measured(i) IN
           /\ row \in Rows
           /\ row.action = i /\ i \in 1..Len(log) /\ row.rec = log[i].rec
           /\ row.visit = visits
           /\ log[i].day <= row.first /\ row.first + row.days = today
           /\ log[i].day - Window \in Nat \ {0} /\ log[i].day \in Nat /\ row.first \in Nat \ {0}
           /\ row.before = CostOfDays(cost[row.rec], log[i].day - Window, log[i].day - 1)
           /\ row.after = CostOfDays(cost[row.rec], row.first, today - 1)
<1> DEFINE r == log[i].rec
           acted == log[i].day
           days == DaysAfter(i)
<1>1. /\ i \in 1..Len(log) /\ i \in 1..MaxActions /\ log[i] \in LogEntry
      /\ today - acted >= MinDays /\ acted \in (Window + 1)..today
      /\ today \in Nat /\ Window \in Nat \ {0} /\ MinDays \in Nat \ {0}
  <2>1. Window \in Nat \ {0} /\ MinDays \in Nat \ {0} /\ today \in Nat
    BY SavingsAssumption DEF CalendarTypes
  <2>2. i \in 1..Len(log) /\ i \in 1..MaxActions /\ today - acted >= MinDays
    BY DEF JobTypes
  <2> QED
    BY <2>1, <2>2, LenProperties, ElementOfSeq DEF LogTypes
<1>2. r \in Recs
  BY <1>1 DEF LogEntry
<1>3. days \in 1..Window /\ acted <= today - days
  BY <1>1 DEF DaysAfter
<1>4. \A d \in 1..(today - 1) : cost[r][d] \in Nat
  <2>1. cost[r] \in Seq(Nat) /\ Len(cost[r]) = today - 1
    BY <1>2 DEF CalendarTypes
  <2> QED
    BY <2>1, ElementOfSeq
<1> HIDE DEF days
<1>5. CostOfDays(cost[r], acted - Window, acted - 1) \in Nat
  <2>1. acted - Window \in Nat \ {0} /\ acted - 1 \in Nat /\ acted - Window <= acted - 1
        /\ acted - 1 <= today - 1
    BY <1>1
  <2>2. \A d \in (acted - Window)..(acted - 1) : cost[r][d] \in Nat
    BY <1>1, <1>4, <2>1
  <2> QED
    BY <2>1, <2>2, SumBounds
<1>6. CostOfDays(cost[r], today - days, today - 1) \in Nat
  <2>1. today - days \in Nat \ {0} /\ today - 1 \in Nat /\ today - days <= today - 1
    BY <1>1, <1>3
  <2>2. \A d \in (today - days)..(today - 1) : cost[r][d] \in Nat
    BY <1>1, <1>4, <2>1
  <2> QED
    BY <2>1, <2>2, SumBounds
<1>7. Measured(i) = [rec |-> r, action |-> i, visit |-> visits, days |-> days,
                     first |-> today - days,
                     before |-> CostOfDays(cost[r], acted - Window, acted - 1),
                     after |-> CostOfDays(cost[r], today - days, today - 1)]
  BY DEF Measured, days
<1>8. today - days \in Nat \ {0} /\ acted - Window \in Nat \ {0} /\ acted \in Nat
      /\ today - days + days = today
  BY <1>1, <1>3
<1>9. Measured(i) \in Rows
  BY <1>1, <1>2, <1>3, <1>5, <1>6, <1>7, <1>8 DEF Rows
<1> QED
  BY <1>1, <1>3, <1>7, <1>8, <1>9

\* Verify appends at most one row: the one of the oldest action on the list, a stop
\* that was executed and that leaves the list.
LEMMA VerifyAppends ==
    ASSUME JobTypes, Verify, savings' # savings
    PROVE  /\ Oldest \in job.todo /\ log[Oldest].type = "stop"
           /\ savings' = Append(savings, Measured(Oldest))
           /\ job'.todo = job.todo \ {Oldest} /\ job.pc = "verify"
           /\ UNCHANGED <<calendar, log, pool>>
<1>1. Oldest \in job.todo
  BY OldestIsListed DEF Verify
<1> QED
  BY <1>1 DEF Verify, JobTypes

\* Nothing but Verify writes to savings_realized.
LEMMA SavingsStep ==
    ASSUME Types, [Next]_vars
    PROVE  savings' = savings \/ (Verify /\ savings' # savings)
  BY DEF Next, vars, DayPasses, LogAction, BuildRemediator, DropRemediator, SaverStep,
     Look, BuildTracker, List, Close, Restart

\* Every step keeps the types.
LEMMA TypesStep == ASSUME Types, [Next]_vars PROVE Types'
<1>1. CalendarTypes' /\ LogTypes' /\ JobTypes' /\ PoolTypes'
  BY CalendarStep, LogStep, JobStep, PoolStep DEF Types
<1>2. ASSUME Verify, savings' # savings PROVE savings' \in Seq(Rows)
  <2>1. Measured(Oldest) \in Rows
    BY <1>2, VerifyAppends, MeasuredRow DEF Types, PoolTypes
  <2> QED
    BY <1>2, <2>1, VerifyAppends, AppendProperties DEF Types
<1> QED
  BY <1>1, <1>2, SavingsStep DEF Types

\* Types is an invariant of the specification.
THEOREM TypesHold == Spec => []Types
<1>1. Init => Types
  BY InitTypes
<1>2. Types /\ [Next]_vars => Types'
  BY TypesStep
<1> QED
  BY <1>1, <1>2, PTL DEF Spec

\* Types is stronger than TypeOK: the trackers never lose more slots than there are.
LEMMA TypesImplyTypeOK == Types => TypeOK
<1> SUFFICES ASSUME Types PROVE TypeOK
  OBVIOUS
<1>1. today \in 1..MaxDay /\ \A r \in Recs : DOMAIN cost[r] = 1..(today - 1)
  BY LenProperties, SavingsAssumption DEF Types, CalendarTypes
<1>2. lost \in 0..MaxConn /\ visits \in Nat
  <2>1. out = Cardinality(holders) + lost /\ Cardinality(holders) \in Nat
        /\ out \in 0..MaxConn /\ lost \in Nat /\ visits \in Nat
    BY FS_CardinalityType DEF Types, PoolTypes, SlotsAccounted
  <2> QED
    BY <2>1, SavingsAssumption
<1>3. log \in Seq(LogEntry) /\ savings \in Seq(Rows)
      /\ job \in [pc : {"idle", "build", "list", "verify"}, todo : SUBSET (1..MaxActions)]
      /\ holders \subseteq Workers /\ out \in 0..MaxConn
      /\ attempts \in 0..MaxAttempts /\ faults \in 0..MaxFaults
  BY DEF Types, LogTypes, JobTypes, PoolTypes
<1> QED
  BY <1>1, <1>2, <1>3 DEF TypeOK, LogEntry

\* Every variable of SavingsVerification always has its type.
THEOREM TypeCorrect == Spec => []TypeOK
  BY TypesHold, TypesImplyTypeOK, PTL

\* SlotsAccounted: every slot that get_connection_pool counts as taken is held by a
\* remediator or was lost to a tracker, whatever ended or failed in between.
THEOREM PoolAccounted == Spec => []SlotsAccounted
<1>1. Types => SlotsAccounted
  BY DEF Types, PoolTypes
<1> QED
  BY <1>1, TypesHold, PTL

-----------------------------------------------------------------------------
(* An action is verified once.                                             *)

\* A row is about an executed stop, and measures days after it that are over.
RowStands(s) ==
    LET row == savings[s]
        a == row.action
    IN  /\ a \in 1..Len(log) /\ log[a].rec = row.rec
        /\ log[a].type = "stop" /\ ~log[a].dry
        /\ log[a].day <= row.first /\ row.first + row.days <= today
        /\ row.first \in Nat \ {0} /\ row.days \in 1..Window /\ row.rec \in Recs

\* Every row of savings_realized stands.
RowsStand == \A s \in 1..Len(savings) : RowStands(s)

\* A row about the recommendation of an action on the list was written by this
\* run, and about another action.
ListIsFresh ==
    \A i \in job.todo, s \in 1..Len(savings) :
        savings[s].rec = log[i].rec =>
            savings[s].visit = visits /\ savings[s].action # i

\* Two rows about one recommendation are of one run and of two actions.
NoTwice ==
    \A i, j \in 1..Len(savings) :
        (i # j /\ savings[i].rec = savings[j].rec) =>
            /\ savings[i].action # savings[j].action
            /\ savings[i].visit = savings[j].visit

\* What a step does to the rows: none is lost or changed, and a new one is that of
\* the oldest action on the list.
LEMMA RowsStep ==
    ASSUME Types, [Next]_vars
    PROVE  /\ Len(savings) \in Nat
           /\ \/ savings' = savings
              \/ /\ Verify /\ savings' # savings
                 /\ Len(savings') = Len(savings) + 1
                 /\ \A s \in 1..Len(savings) : savings'[s] = savings[s]
                 /\ savings'[Len(savings) + 1] = Measured(Oldest)
<1>1. Len(savings) \in Nat
  BY LenProperties DEF Types
<1>2. ASSUME Verify, savings' # savings
      PROVE  /\ Len(savings') = Len(savings) + 1
             /\ \A s \in 1..Len(savings) : savings'[s] = savings[s]
             /\ savings'[Len(savings) + 1] = Measured(Oldest)
  <2>1. Measured(Oldest) \in Rows /\ savings' = Append(savings, Measured(Oldest))
    BY <1>2, VerifyAppends, MeasuredRow DEF Types, PoolTypes
  <2> QED
    BY <2>1, AppendProperties DEF Types
<1> QED
  BY <1>1, <1>2, SavingsStep

\* What a row says of the past stays true.
LEMMA RowsStandStep ==
    ASSUME Types, RowsStand, [Next]_vars
    PROVE  RowsStand'
<1>1. /\ Len(log) \in Nat /\ Len(log') \in Nat /\ Len(log') >= Len(log)
      /\ \A i \in 1..Len(log) : log'[i] = log[i]
      /\ today \in Int /\ today' \in Int /\ today' >= today /\ Window \in Nat
      /\ \A i \in 1..Len(log) : log[i].day \in Int
  BY LogStep, CalendarStep, LenProperties, SavingsAssumption
     DEF Types, LogTypes, CalendarTypes
<1>2. ASSUME NEW s \in 1..Len(savings), savings'[s] = savings[s] PROVE RowStands(s)'
  <2>1. RowStands(s)
    BY DEF RowsStand
  <2> QED
    BY <1>1, <1>2, <2>1 DEF RowStands
<1>3. ASSUME Verify, savings' # savings, NEW s, savings'[s] = Measured(Oldest)
      PROVE  RowStands(s)'
  <2> DEFINE i == Oldest
             row == Measured(i)
  <2>1. i \in job.todo /\ log[i].type = "stop" /\ log' = log /\ today' = today
    BY <1>3, VerifyAppends DEF Types, calendar
  <2>2. ~log[i].dry
    BY <2>1 DEF Types, JobTypes
  <2>3. /\ row \in Rows
        /\ row.action = i /\ i \in 1..Len(log) /\ row.rec = log[i].rec
        /\ log[i].day <= row.first /\ row.first + row.days = today
        /\ row.first \in Nat \ {0}
    BY <2>1, MeasuredRow DEF Types, PoolTypes
  <2>4. row.days \in 1..Window /\ row.rec \in Recs
    BY <2>3 DEF Rows
  <2> HIDE DEF row, i
  <2>5. savings'[s] = row
    BY <1>3 DEF row, i
  <2> QED
    BY <1>1, <2>1, <2>2, <2>3, <2>4, <2>5 DEF RowStands
<1>4. ASSUME NEW s \in 1..Len(savings')
      PROVE  \/ s \in 1..Len(savings) /\ savings'[s] = savings[s]
             \/ Verify /\ savings' # savings /\ savings'[s] = Measured(Oldest)
  BY RowsStep
<1> QED
  BY <1>2, <1>3, <1>4 DEF RowsStand

\* The list stays fresh: List takes no recommendation that has a row, and Verify
\* takes the action it writes about off the list.
LEMMA FreshStep ==
    ASSUME Types, ListIsFresh, [Next]_vars
    PROVE  ListIsFresh'
<1>0. /\ Len(savings) \in Nat
      /\ \A i \in job.todo : i \in 1..Len(log)
      /\ \A i \in 1..Len(log) : log'[i] = log[i]
  BY RowsStep, LogStep DEF Types, JobTypes
<1>1. CASE Verify /\ savings' # savings
  <2> DEFINE o == Oldest
             row == Measured(o)
  <2>1. o \in job.todo /\ job'.todo = job.todo \ {o} /\ log' = log /\ visits' = visits
    BY <1>1, VerifyAppends DEF Types, pool
  <2>2. row.action = o /\ row.visit = visits
    BY <2>1, MeasuredRow DEF Types, PoolTypes
  <2>3. /\ Len(savings') = Len(savings) + 1
        /\ \A s \in 1..Len(savings) : savings'[s] = savings[s]
        /\ savings'[Len(savings) + 1] = row
    BY <1>1, RowsStep
  <2> HIDE DEF row, o
  <2> SUFFICES ASSUME NEW i \in job'.todo, NEW s \in 1..Len(savings'),
                      savings'[s].rec = log'[i].rec
               PROVE  savings'[s].visit = visits' /\ savings'[s].action # i
    BY DEF ListIsFresh
  <2>4. CASE s \in 1..Len(savings)
    BY <2>1, <2>3, <2>4 DEF ListIsFresh
  <2>5. CASE s = Len(savings) + 1
    BY <2>1, <2>2, <2>3, <2>5
  <2> QED
    BY <1>0, <2>3, <2>4, <2>5
<1>2. CASE savings' = savings
  <2>1. CASE job'.todo = {}
    BY <2>1 DEF ListIsFresh
  <2>2. CASE job'.todo # {} /\ List
    <3>1. job' = [pc |-> "verify", todo |-> {i \in DOMAIN log : Eligible(i)}]
      BY <2>2 DEF List, Idle
    <3>2. DOMAIN savings = 1..Len(savings) /\ log' = log
      BY <2>2, LenProperties DEF Types, List, calendar
    <3>3. \A i \in job'.todo, s \in 1..Len(savings) : savings[s].rec # log[i].rec
      BY <3>1, <3>2 DEF Eligible, IsVerified
    <3> QED
      BY <1>2, <3>2, <3>3 DEF ListIsFresh
  <2>3. CASE job'.todo # {} /\ ~List
    <3>1. job'.todo \subseteq job.todo
      BY <2>3, JobStep DEF Types
    <3>2. visits' = visits
      <4>1. ~BuildTracker
        <5>1. SUFFICES ASSUME BuildTracker PROVE FALSE
          OBVIOUS
        <5>2. job.todo = {}
          BY <5>1 DEF BuildTracker, Types, JobTypes
        <5> QED
          BY <2>3, <3>1, <5>2
      <4> QED
        BY <4>1 DEF Next, vars, DayPasses, LogAction, BuildRemediator, DropRemediator,
           SaverStep, Look, List, Verify, Close, Restart, pool
    <3> QED
      BY <1>0, <1>2, <3>1, <3>2 DEF ListIsFresh
  <2> QED
    BY <2>1, <2>2, <2>3
<1> QED
  BY <1>1, <1>2, SavingsStep

\* A row is added only for an action that has none.
LEMMA NoTwiceStep ==
    ASSUME Types, ListIsFresh, NoTwice, [Next]_vars
    PROVE  NoTwice'
<1>0. Len(savings) \in Nat
  BY RowsStep
<1>1. CASE Verify /\ savings' # savings
  <2> DEFINE o == Oldest
             row == Measured(o)
             new == Len(savings) + 1
  <2>1. o \in job.todo
    BY <1>1, VerifyAppends DEF Types
  <2>2. row.action = o /\ row.visit = visits /\ row.rec = log[o].rec
    BY <2>1, MeasuredRow DEF Types, PoolTypes
  <2>3. /\ Len(savings') = new
        /\ \A s \in 1..Len(savings) : savings'[s] = savings[s]
        /\ savings'[new] = row
    BY <1>1, RowsStep
  <2>4. \A s \in 1..Len(savings) :
           savings[s].rec = row.rec => savings[s].visit = row.visit /\ savings[s].action # row.action
    BY <2>1, <2>2 DEF ListIsFresh
  <2> HIDE DEF row, o
  <2>5. \A s \in 1..Len(savings') : s \in 1..Len(savings) \/ s = new
    BY <1>0, <2>3
  <2> HIDE DEF new
  <2> SUFFICES ASSUME NEW i \in 1..Len(savings'), NEW j \in 1..Len(savings'),
                      i # j, savings'[i].rec = savings'[j].rec
               PROVE  /\ savings'[i].action # savings'[j].action
                      /\ savings'[i].visit = savings'[j].visit
    BY DEF NoTwice
  <2>6. CASE i \in 1..Len(savings) /\ j \in 1..Len(savings)
    BY <2>3, <2>6 DEF NoTwice
  <2>7. CASE i \in 1..Len(savings) /\ j = new
    BY <2>3, <2>4, <2>7
  <2>8. CASE i = new /\ j \in 1..Len(savings)
    BY <2>3, <2>4, <2>8
  <2> QED
    BY <2>5, <2>6, <2>7, <2>8
<1>2. CASE savings' = savings
  BY <1>2 DEF NoTwice
<1> QED
  BY <1>1, <1>2, SavingsStep

\* The inductive invariant behind VerifiedOnce.
OnceInv == Types /\ RowsStand /\ ListIsFresh /\ NoTwice

\* VerifiedOnce: the job of savings_verifier_job writes one row for an action, only
\* for an executed stop, and never for a recommendation an earlier run verified.
THEOREM EveryActionOnce == Spec => []VerifiedOnce
<1>1. Init => OnceInv
  <2>1. SUFFICES ASSUME Init PROVE OnceInv
    OBVIOUS
  <2>2. savings = <<>> /\ Len(savings) = 0 /\ 1..Len(savings) = {}
    BY <2>1, EmptySeq DEF Init
  <2> QED
    BY <2>1, <2>2, InitTypes DEF OnceInv, RowsStand, ListIsFresh, NoTwice
<1>2. OnceInv /\ [Next]_vars => OnceInv'
  BY TypesStep, RowsStandStep, FreshStep, NoTwiceStep DEF OnceInv
<1>3. OnceInv => VerifiedOnce
  <2>1. SUFFICES ASSUME OnceInv PROVE VerifiedOnce
    OBVIOUS
  <2>2. DOMAIN savings = 1..Len(savings)
    BY <2>1, LenProperties DEF OnceInv, Types
  <2> QED
    BY <2>1, <2>2 DEF OnceInv, RowsStand, RowStands, NoTwice, VerifiedOnce
<1> QED
  BY <1>1, <1>2, <1>3, PTL DEF Spec

-----------------------------------------------------------------------------
(* A saving is a saving.                                                   *)

\* Where row s claims a saving, a day after was cheaper than a day before.
SavingIsReal(s) ==
    LET row == savings[s]
        acted == log[row.action].day
    IN  row.before * row.days > row.after * Window =>
          \E d \in (acted - Window)..(acted - 1) :
             \E e \in row.first..(row.first + row.days - 1) :
                acted <= e /\ Cost(s, e) < Cost(s, d)

\* What Verify measures claims no saving that no day shows.
LEMMA MeasuredIsReal ==
    ASSUME CalendarTypes, LogTypes, JobTypes, visits \in Nat, NEW i \in job.todo
    PROVE  LET row == Measured(i)
               acted == log[i].day
           IN  row.before * row.days > row.after * Window =>
                 \E d \in (acted - Window)..(acted - 1) :
                    \E e \in row.first..(row.first + row.days - 1) :
                       acted <= e /\ cost[row.rec][e] < cost[row.rec][d]
<1> DEFINE row == Measured(i)
           acted == log[i].day
           b == acted - Window
           bill == cost[row.rec]
<1>1. /\ row \in Rows /\ i \in 1..Len(log) /\ acted <= row.first
      /\ row.first + row.days = today /\ b \in Nat \ {0} /\ acted \in Nat
      /\ row.first \in Nat \ {0}
      /\ row.before = CostOfDays(bill, b, acted - 1)
      /\ row.after = CostOfDays(bill, row.first, today - 1)
  BY MeasuredRow
<1> HIDE DEF row
<1>2. row.days \in Nat \ {0} /\ row.rec \in Recs /\ row.before \in Nat /\ row.after \in Nat
      /\ Window \in Nat \ {0} /\ today \in Nat
  <2>1. row.days \in 1..Window /\ row.rec \in Recs /\ row.before \in Nat /\ row.after \in Nat
    BY <1>1 DEF Rows
  <2>2. Window \in Nat \ {0} /\ today \in Nat
    BY SavingsAssumption DEF CalendarTypes
  <2> QED
    BY <2>1, <2>2
<1>3. \A d \in 1..(today - 1) : bill[d] \in Nat
  <2>1. bill \in Seq(Nat) /\ Len(bill) = today - 1
    BY <1>2 DEF CalendarTypes
  <2> QED
    BY <2>1, ElementOfSeq
<1>4. acted - 1 = b + Window - 1 /\ today - 1 = row.first + row.days - 1
      /\ acted <= today
  <2> DEFINE n == row.days
             g == row.first
  <2>1. n \in Nat \ {0} /\ g \in Nat \ {0} /\ g + n = today /\ acted \in Nat /\ acted <= g
        /\ Window \in Nat \ {0} /\ today \in Nat /\ b = acted - Window
    BY <1>1, <1>2
  <2> HIDE DEF n, g, acted, b
  <2>2. acted - 1 = b + Window - 1 /\ today - 1 = g + n - 1 /\ acted <= today
    BY <2>1
  <2> QED
    BY <2>2 DEF n, g, acted, b
<1> DEFINE k == row.days
           f == row.first
<1> SUFFICES ASSUME \A d \in b..(acted - 1) : \A e \in f..(f + k - 1) :
                       ~(acted <= e /\ bill[e] < bill[d])
             PROVE  ~(row.before * k > row.after * Window)
  BY DEF row
<1>5. \A d \in b..(b + Window - 1) : bill[d] \in Nat
  BY <1>1, <1>2, <1>3, <1>4
<1>6. \A e \in f..(f + k - 1) : bill[e] \in Nat
  BY <1>1, <1>2, <1>3, <1>4
<1>7. ASSUME NEW d \in b..(b + Window - 1), NEW e \in f..(f + k - 1)
      PROVE  bill[d] <= bill[e]
  <2>1. d \in b..(acted - 1)
    BY <1>4
  <2>2. f \in Nat /\ k \in Nat /\ acted \in Nat /\ acted <= f
    BY <1>1, <1>2
  <2>3. acted <= e
    BY <2>2
  <2>4. ~(bill[e] < bill[d])
    BY <2>1, <2>3
  <2>5. bill[d] \in Nat /\ bill[e] \in Nat
    BY <1>5, <1>6
  <2> QED
    BY <2>4, <2>5
<1>8. row.before = CostOfDays(bill, b, b + Window - 1)
      /\ row.after = CostOfDays(bill, f, f + k - 1)
  BY <1>1, <1>4
<1>9. k \in Nat \ {0} /\ f \in Nat \ {0} /\ b \in Nat \ {0} /\ Window \in Nat \ {0}
  BY <1>1, <1>2
<1> HIDE DEF k, f, b, bill
<1>10. CostOfDays(bill, b, b + Window - 1) * k <= CostOfDays(bill, f, f + k - 1) * Window
  BY <1>5, <1>6, <1>7, <1>9, NoCheaperDayNoSaving
<1>11. row.before * k <= row.after * Window
  BY <1>8, <1>10
<1>12. row.before * k \in Int /\ row.after * Window \in Int
  BY <1>2, <1>9
<1> QED
  BY <1>11, <1>12

\* A claim about days that are over stays true.
LEMMA RealStep ==
    ASSUME Types, RowsStand, \A s \in 1..Len(savings) : SavingIsReal(s), [Next]_vars
    PROVE  \A s \in 1..Len(savings') : SavingIsReal(s)'
<1>1. /\ \A i \in 1..Len(log) : log'[i] = log[i] /\ log[i].day \in (Window + 1)..today
      /\ today \in Nat /\ Window \in Nat \ {0}
      /\ \A r \in Recs, d \in 1..(today - 1) : cost'[r][d] = cost[r][d]
  BY LogStep, CalendarStep, SavingsAssumption DEF Types, LogTypes, CalendarTypes
<1>2. ASSUME NEW s \in 1..Len(savings), savings'[s] = savings[s] PROVE SavingIsReal(s)'
  <2> DEFINE row == savings[s]
             acted == log[row.action].day
  <2>1. /\ row.action \in 1..Len(log) /\ row.rec \in Recs
        /\ row.first + row.days <= today /\ row.first \in Nat \ {0} /\ row.days \in 1..Window
    BY DEF RowsStand, RowStands
  <2>2. acted \in (Window + 1)..today /\ log'[row.action].day = acted
    BY <1>1, <2>1
  <2> HIDE DEF acted
  <2>3. SUFFICES ASSUME row.before * row.days > row.after * Window
        PROVE \E d \in (acted - Window)..(acted - 1) :
                \E e \in row.first..(row.first + row.days - 1) :
                  acted <= e /\ cost'[row.rec][e] < cost'[row.rec][d]
    BY <1>2, <2>2 DEF SavingIsReal, Cost
  <2>4. PICK d \in (acted - Window)..(acted - 1),
             e \in row.first..(row.first + row.days - 1) :
               acted <= e /\ cost[row.rec][e] < cost[row.rec][d]
    BY <2>3 DEF SavingIsReal, Cost, acted
  <2>5. d \in 1..(today - 1) /\ e \in 1..(today - 1)
    <3> DEFINE n == row.days
               f == row.first
    <3>1. n \in Int /\ f \in Nat \ {0} /\ f + n <= today /\ e \in f..(f + n - 1)
          /\ today \in Nat /\ Window \in Nat
      BY <1>1, <2>1
    <3> HIDE DEF n, f
    <3> QED
      BY <2>2, <3>1
  <2>6. cost'[row.rec][d] = cost[row.rec][d] /\ cost'[row.rec][e] = cost[row.rec][e]
    BY <1>1, <2>1, <2>5
  <2> QED
    BY <2>4, <2>6
<1>3. ASSUME Verify, savings' # savings, NEW s, savings'[s] = Measured(Oldest)
      PROVE  SavingIsReal(s)'
  <2> DEFINE i == Oldest
             row == Measured(i)
  <2>1. i \in job.todo /\ log' = log /\ cost' = cost
    BY <1>3, VerifyAppends DEF Types, calendar
  <2>2. row.action = i
    BY <2>1, MeasuredRow DEF Types, PoolTypes
  <2>3. row.before * row.days > row.after * Window =>
          \E d \in (log[i].day - Window)..(log[i].day - 1) :
             \E e \in row.first..(row.first + row.days - 1) :
                log[i].day <= e /\ cost[row.rec][e] < cost[row.rec][d]
    BY <2>1, MeasuredIsReal DEF Types, PoolTypes
  <2>4. savings'[s] = row
    BY <1>3
  <2> HIDE DEF row, i
  <2> QED
    BY <2>1, <2>2, <2>3, <2>4 DEF SavingIsReal, Cost
<1>4. ASSUME NEW s \in 1..Len(savings')
      PROVE  \/ s \in 1..Len(savings) /\ savings'[s] = savings[s]
             \/ Verify /\ savings' # savings /\ savings'[s] = Measured(Oldest)
  BY RowsStep
<1> QED
  BY <1>2, <1>3, <1>4

\* The inductive invariant behind NoInventedSaving.
RealInv == Types /\ RowsStand /\ \A s \in 1..Len(savings) : SavingIsReal(s)

\* NoInventedSaving: verify_savings_for_action never claims a saving unless some day
\* after the action was cheaper than some day before it.
THEOREM SavingsAreReal == Spec => []NoInventedSaving
<1>1. Init => RealInv
  <2>1. SUFFICES ASSUME Init PROVE RealInv
    OBVIOUS
  <2>2. savings = <<>> /\ Len(savings) = 0 /\ 1..Len(savings) = {}
    BY <2>1, EmptySeq DEF Init
  <2> QED
    BY <2>1, <2>2, InitTypes DEF RealInv, RowsStand
<1>2. RealInv /\ [Next]_vars => RealInv'
  BY TypesStep, RowsStandStep, RealStep DEF RealInv
<1>3. RealInv => NoInventedSaving
  <2>1. SUFFICES ASSUME RealInv PROVE NoInventedSaving
    OBVIOUS
  <2>2. DOMAIN savings = 1..Len(savings)
    BY <2>1, LenProperties DEF RealInv, Types
  <2> QED
    BY <2>1, <2>2 DEF RealInv, SavingIsReal, NoInventedSaving
<1> QED
  BY <1>1, <1>2, <1>3, PTL DEF Spec
==============================================================================
