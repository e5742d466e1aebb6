------------------------- MODULE SavingsVerification -------------------------
(***************************************************************************)
(* The verification of savings: savings_verifier_job looks for stopped     *)
(* instances old enough, SavingsTracker compares what each cost before and *)
(* after, and savings_realized keeps the result.  The tracker takes its    *)
(* connection from the pool of core.database, which the remediators of the *)
(* same process share; it closes the connection instead of giving it back, *)
(* so the pool counts the slot as taken until the process ends.            *)
(***************************************************************************)
EXTENDS Integers, Sequences, FiniteSets

CONSTANTS
    Recs,           \* recommendations, each on an instance of its own
    Workers,        \* threads that run remediators
    Entries,        \* what actions_log may be told: type, status and dry_run
    Costs,          \* for each instance, what Cost Explorer may say of a day
    MinDays,        \* days before an action is verified (7 in the code)
    Window,         \* days of the longest measurement (30 in the code)
    MaxConn,        \* slots of the pool (10 in the code)
    MaxDay, MaxActions, MaxAttempts, MaxFaults    \* bounds, for TLC

ActionTypes == {"stop", "terminate", "downsize", "delete_volume"}

ASSUME SavingsAssumption ==
    /\ \A e \in Entries : e \in [type : ActionTypes, dry : BOOLEAN,
                                 status : {"success", "failed"}]
    /\ \A r \in Recs : Costs[r] \subseteq Nat
    /\ MinDays \in Nat \ {0} /\ Window \in Nat \ {0} /\ MaxConn \in Nat \ {0}
    /\ MaxDay \in Nat /\ Window < MaxDay
    /\ MaxActions \in Nat /\ MaxAttempts \in Nat /\ MaxFaults \in Nat

VARIABLES
    today,      \* number of the day
    cost,       \* for each instance and each day that is over, what it cost
    log,        \* actions_log
    savings,    \* savings_realized
    job,        \* the run of savings_verifier_job: its place, its list
    holders,    \* the remediators that have a connection of the pool
    out,        \* slots the pool counts as taken
    lost,       \* slots that trackers lost since the process started
    visits,     \* trackers built so far, the number of the run
    attempts, faults

vars == <<today, cost, log, savings, job, holders, out, lost, visits, attempts,
          faults>>

calendar == <<today, cost>>
pool == <<holders, out, lost, visits>>

Init ==
    /\ today = Window + 1
    /\ cost \in {c \in [Recs -> [1..Window -> UNION {Costs[r] : r \in Recs}]] :
                   \A r \in Recs, d \in 1..Window : c[r][d] \in Costs[r]}
    /\ log = <<>> /\ savings = <<>>
    /\ job = [pc |-> "idle", todo |-> {}]
    /\ holders = {} /\ out = 0 /\ lost = 0 /\ visits = 0
    /\ attempts = 0 /\ faults = 0

Fault == faults < MaxFaults /\ faults' = faults + 1

-----------------------------------------------------------------------------
(* The world: days pass, instances cost something, actions are logged.     *)

\* A day has to be over to have a cost.
DayPasses ==
    /\ today < MaxDay /\ today' = today + 1
    /\ \E c \in [Recs -> UNION {Costs[r] : r \in Recs}] :
          /\ \A r \in Recs : c[r] \in Costs[r]
          /\ cost' = [r \in Recs |-> Append(cost[r], c[r])]
    /\ UNCHANGED <<log, savings, job, pool, attempts, faults>>

\* The application records an action; RecommendationLifecycle says when.
LogAction(r, e) ==
    /\ Len(log) < MaxActions
    /\ log' = Append(log, [rec |-> r, type |-> e.type, status |-> e.status,
                           dry |-> e.dry, day |-> today])
    /\ UNCHANGED <<calendar, savings, job, pool, attempts, faults>>

-----------------------------------------------------------------------------
(* The pool.  getconn raises when maxconn connections are out.             *)

GetConnection == out < MaxConn /\ out' = out + 1

\* putconn takes back the connection it is given.
ReleaseConnection == out' = out - 1

\* A remediator is built and holds its connection until it is collected.
BuildRemediator(w) ==
    /\ w \notin holders /\ attempts < MaxAttempts /\ attempts' = attempts + 1
    /\ GetConnection /\ holders' = holders \cup {w}
    /\ UNCHANGED <<calendar, log, savings, job, lost, visits, faults>>

\* Mutant: an attempt that was blocked or failed keeps its connection.
DropRemediatorLeaky(w) ==
    /\ w \in holders /\ holders' = holders \ {w}
    /\ out' \in {out, out - 1}
    /\ UNCHANGED <<calendar, log, savings, job, lost, visits, attempts, faults>>

\* __del__ of the remediator gives the connection back, however it ended.
DropRemediator(w) ==
    /\ w \in holders /\ holders' = holders \ {w}
    /\ ReleaseConnection
    /\ UNCHANGED <<calendar, log, savings, job, lost, visits, attempts, faults>>

-----------------------------------------------------------------------------
(* The job.                                                                *)

Goes(pc) == job' = [job EXCEPT !.pc = pc]

Idle == job' = [pc |-> "idle", todo |-> {}]

IsVerified(r) == \E s \in DOMAIN savings : savings[s].rec = r

\* Mutant: what was verified once is listed again.
EligibleAgain(i) ==
    /\ log[i].status = "success" /\ ~log[i].dry
    /\ log[i].type \in {"stop", "terminate", "downsize"}
    /\ today - log[i].day >= MinDays

\* The WHERE of the job and of verify_all_unverified_actions.
Eligible(i) ==
    /\ log[i].status = "success" /\ ~log[i].dry
    /\ log[i].type \in {"stop", "terminate", "downsize"}
    /\ ~IsVerified(log[i].rec)
    /\ today - log[i].day >= MinDays

\* The job looks first, on a connection of its own, and leaves it at that when
\* nothing is eligible.
Look ==
    /\ job.pc = "idle"
    /\ \E i \in DOMAIN log : Eligible(i)
    /\ \/ Goes("build") /\ UNCHANGED faults
       \/ Fault /\ UNCHANGED job
    /\ UNCHANGED <<calendar, log, savings, pool, attempts>>

\* SavingsTracker(): the client of Cost Explorer, then a connection of the pool;
\* either may raise, and the job ends.  From here on the slot is lost: the tracker
\* never gives its connection back.
BuildTracker ==
    /\ job.pc = "build"
    /\ \/ /\ GetConnection /\ lost' = lost + 1 /\ visits' = visits + 1
          /\ Goes("list") /\ UNCHANGED faults
       \/ out = MaxConn /\ Idle /\ UNCHANGED <<out, lost, visits, faults>>
       \/ Fault /\ Idle /\ UNCHANGED <<out, lost, visits>>
    /\ UNCHANGED <<calendar, log, savings, holders, attempts>>

\* The eligible actions.
List ==
    /\ job.pc = "list"
    /\ \/ /\ job' = [pc |-> "verify",
                     todo |-> {i \in DOMAIN log : Eligible(i)}]
          /\ UNCHANGED faults
       \/ Fault /\ Idle
    /\ UNCHANGED <<calendar, log, savings, pool, attempts>>

\* They are taken in the order in which they were logged.
Oldest == CHOOSE i \in job.todo : \A j \in job.todo : i <= j

\* The days [first, last] of a bill, added up.
CostOfDays(bill, first, last) ==
    LET sum[d \in (first - 1)..last] ==
          IF d < first THEN 0 ELSE sum[d - 1] + bill[d]
    IN  sum[last]

\* Days of the measurement after the action.
DaysAfter(i) == IF today - log[i].day < Window THEN today - log[i].day ELSE Window

\* What savings_realized is told: the cost of Window days that end where the day
\* of the action begins, and of the last days before today.
Measured(i) ==
    LET bill == cost[log[i].rec]
        days == DaysAfter(i)
    IN  [rec |-> log[i].rec, action |-> i, visit |-> visits, days |-> days,
         first |-> today - days,
         before |-> CostOfDays(bill, log[i].day - Window, log[i].day - 1),
         after |-> CostOfDays(bill, today - days, today - 1)]

\* Mutant: when Cost Explorer does not answer the cost after is zero.
VerifyZeroOnError ==
    LET i == Oldest
    IN  /\ job.pc = "verify" /\ job.todo # {}
        /\ job' = [job EXCEPT !.todo = @ \ {i}]
        /\ \/ /\ log[i].type = "stop"
              /\ savings' = Append(savings, Measured(i))
              /\ UNCHANGED faults
           \/ /\ log[i].type = "stop"
              /\ savings' = Append(savings, [Measured(i) EXCEPT !.after = 0])
              /\ Fault
           \/ log[i].type # "stop" /\ UNCHANGED <<savings, faults>>
        /\ UNCHANGED <<calendar, log, pool, attempts>>

\* Mutant: an action that cannot be verified ends the run.
VerifyUntilNone ==
    LET i == Oldest
    IN  /\ job.pc = "verify" /\ job.todo # {}
        /\ IF log[i].type = "stop"
           THEN /\ job' = [job EXCEPT !.todo = @ \ {i}]
                /\ savings' = Append(savings, Measured(i))
           ELSE Idle /\ UNCHANGED savings
        /\ UNCHANGED <<calendar, log, pool, attempts, faults>>

\* verify_savings_for_action: only a stop is measured.  Without an answer of Cost
\* Explorer for both periods nothing is written and the next action is tried; an
\* error of the database ends the run.
Verify ==
    LET i == Oldest
    IN  /\ job.pc = "verify" /\ job.todo # {}
        /\ \/ /\ log[i].type = "stop"
              /\ savings' = Append(savings, Measured(i))
              /\ job' = [job EXCEPT !.todo = @ \ {i}] /\ UNCHANGED faults
           \/ /\ log[i].type # "stop"
              /\ job' = [job EXCEPT !.todo = @ \ {i}] /\ UNCHANGED <<savings, faults>>
           \/ /\ log[i].type = "stop" /\ Fault
              /\ job' = [job EXCEPT !.todo = @ \ {i}] /\ UNCHANGED savings
           \/ Fault /\ Idle /\ UNCHANGED savings
        /\ UNCHANGED <<calendar, log, pool, attempts>>

\* __del__ of the tracker closes the connection: the slot stays taken.
Close ==
    /\ job.pc = "verify" /\ job.todo = {} /\ Idle
    /\ UNCHANGED <<calendar, log, savings, pool, attempts, faults>>

\* The process ends and starts again with a new pool.
Restart ==
    /\ Fault
    /\ Idle /\ holders' = {} /\ out' = 0 /\ lost' = 0
    /\ UNCHANGED <<calendar, log, savings, visits, attempts>>

SaverStep == Look \/ BuildTracker \/ List \/ Verify \/ Close

Next ==
    \/ DayPasses
    \/ \E r \in Recs, e \in Entries : LogAction(r, e)
    \/ \E w \in Workers : BuildRemediator(w) \/ DropRemediator(w)
    \/ SaverStep
    \/ Restart

\* The scheduler runs the job every six hours; a remediator ends.
Spec ==
    /\ Init /\ [][Next]_vars
    /\ WF_vars(SaverStep)
    /\ \A w \in Workers : WF_vars(DropRemediator(w))

-----------------------------------------------------------------------------
(* Properties.                                                             *)

Rows == [rec : Recs, action : 1..MaxActions, visit : Nat, days : 1..Window,
         first : Nat, before : Nat, after : Nat]

\* Every variable has its type.
TypeOK ==
    /\ today \in 1..MaxDay
    /\ \A r \in Recs : DOMAIN cost[r] = 1..(today - 1)
    /\ log \in Seq([rec : Recs, type : ActionTypes, status : {"success", "failed"},
                    dry : BOOLEAN, day : 1..MaxDay])
    /\ savings \in Seq(Rows)
    /\ job \in [pc : {"idle", "build", "list", "verify"}, todo : SUBSET (1..MaxActions)]
    /\ holders \subseteq Workers /\ out \in 0..MaxConn
    /\ lost \in 0..MaxConn /\ visits \in Nat
    /\ attempts \in 0..MaxAttempts /\ faults \in 0..MaxFaults

\* An action is verified once, and only a stop that was executed.  A
\* recommendation with two such stops has two rows only if one run listed both:
\* afterwards the first row hides every other action of the recommendation, from
\* the runs after a crash too.
VerifiedOnce ==
    \A i, j \in DOMAIN savings :
        /\ log[savings[i].action].type = "stop"
        /\ ~log[savings[i].action].dry
        /\ (i # j /\ savings[i].rec = savings[j].rec) =>
              /\ savings[i].action # savings[j].action
              /\ savings[i].visit = savings[j].visit

Cost(s, d) == cost[savings[s].rec][d]

\* A saving is a saving: where a row claims one, some day measured after the
\* action was cheaper than some day measured before it, both were over, and an
\* unanswered question counts for no day (the promise of
\* get_instance_cost_for_period never to read an error as zero).
NoInventedSaving ==
    \A s \in DOMAIN savings :
        LET row == savings[s]
            acted == log[row.action].day
        IN  row.before * row.days > row.after * Window =>
              \E d \in (acted - Window)..(acted - 1) :
                 \E e \in row.first..(row.first + row.days - 1) :
                    acted <= e /\ Cost(s, e) < Cost(s, d)

\* Every slot the pool counts as taken is held by a remediator, or was lost to a
\* run of the verifier that had something to do since the process started: nothing
\* else wears the pool down.
SlotsAccounted == out = Cardinality(holders) + lost

\* A run that got its connection verifies every stop that is due, whatever else
\* is on its list, unless something fails meanwhile.
RunVerifiesAllStops ==
    \A r \in Recs, n \in 0..MaxFaults :
        (/\ job.pc = "list" /\ faults = n
         /\ \E i \in DOMAIN log :
               log[i].rec = r /\ log[i].type = "stop" /\ Eligible(i))
            ~> (IsVerified(r) \/ faults > n)
==============================================================================
