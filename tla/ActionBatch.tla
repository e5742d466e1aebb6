----------------------------- MODULE ActionBatch -----------------------------
(***************************************************************************)
(* POST /api/actions as the database sees it: one transaction for a whole  *)
(* list of recommendations, committed once after the last one.  A decision *)
(* is one UPDATE conditioned on the status; it holds the lock of its row   *)
(* to the commit, and waits for the lock of another request (READ          *)
(* COMMITTED: the condition is looked at again after the wait).  An error  *)
(* of one entry is caught and answered, the list goes on, and everything   *)
(* after it fails too, for PostgreSQL has aborted the transaction.  A      *)
(* remediator works on a connection of its own, for which the locks of its *)
(* own request are those of a stranger.                                    *)
(***************************************************************************)
EXTENDS Integers, Sequences

CONSTANTS
    Requests,       \* each is sent once
    Recs,
    Mode,           \* execution_mode of each recommendation's type
    Batches,        \* the requests that may be sent
    Initial,        \* the statuses the recommendations may have before
    None,
    MaxFaults       \* bound on the errors and broken connections, for TLC

Statuses == {"pending", "rejected", "dismissed", "approved_manual", "scheduled",
             "approved", "applied"}

Verbs == {"reject", "dismiss", "restore", "cancel", "approve"}

ASSUME BatchAssumption ==
    /\ Mode \in [Recs -> {"manual", "boto3", "remediator"}]
    /\ \A b \in Batches :
         b.verb \in Verbs /\ b.ids \in Seq(Recs) /\ b.grace \in BOOLEAN
    /\ \A t \in Initial : t \in [Recs -> Statuses]
    /\ None \notin Requests
    /\ MaxFaults \in Nat

VARIABLES
    table,      \* committed status of each recommendation
    lock,       \* the request whose transaction holds the row, or None
    aws,        \* the writes to AWS done, as <<request, place in its list>>
    logged,     \* those with a committed row in actions_log
    req,        \* each request
    faults

vars == <<table, lock, aws, logged, req, faults>>

Nothing == [r \in Recs |-> None]

\* staged: the uncommitted update of each row, with the status it was made upon;
\* rows: the places whose row in actions_log is not committed yet; ok: what the
\* last call to AWS answered.
NotSent == [pc |-> "idle", batch |-> None, answers |-> <<>>, aborted |-> FALSE,
            staged |-> Nothing, rows |-> {}, ok |-> FALSE]

Init ==
    /\ table \in Initial
    /\ lock = Nothing
    /\ aws = {} /\ logged = {}
    /\ req = [q \in Requests |-> NotSent]
    /\ faults = 0

Fault == faults < MaxFaults /\ faults' = faults + 1

-----------------------------------------------------------------------------
(* One entry of the list.                                                  *)

\* Its place, and its recommendation.
Place(q) == Len(req[q].answers) + 1
More(q) == Place(q) <= Len(req[q].batch.ids)
Rec(q) == req[q].batch.ids[Place(q)]

\* The dry run and the pull requests are left out: they write to no row that is
\* locked here, or are PullRequests'.
Operation(q) ==
    LET b == req[q].batch
    IN  CASE b.verb # "approve" -> b.verb
          [] b.verb = "approve" /\ Mode[Rec(q)] = "manual" -> "todo"
          [] b.verb = "approve" /\ Mode[Rec(q)] # "manual" /\ b.grace -> "schedule"
          [] OTHER -> Mode[Rec(q)]

\* The WHERE and the SET of the update of a decision; that of the to-do list has
\* no condition.
From == [reject   |-> {"pending", "approved_manual"},
         dismiss  |-> {"pending", "approved_manual"},
         restore  |-> {"rejected"},
         cancel   |-> {"scheduled"},
         schedule |-> {"pending"},
         todo     |-> Statuses]

To == [reject |-> "rejected", dismiss |-> "dismissed", restore |-> "pending",
       cancel |-> "pending", schedule |-> "scheduled", todo |-> "approved_manual"]

\* What the transaction of q sees of the row.
Seen(q, r) == IF req[q].staged[r] = None THEN table[r] ELSE req[q].staged[r].to

CanLock(q, r) == lock[r] \in {None, q}

\* The request with an answer for its current entry.
Answered(q, yes) ==
    [req[q] EXCEPT !.pc = "next", !.answers = Append(@, yes)]

Staging(q, state, to) ==
    LET r == Rec(q)
    IN  [state EXCEPT !.staged[r] =
            [from |-> IF @ = None THEN table[r] ELSE @.from, to |-> to]]

Start(q) ==
    /\ req[q].pc = "idle"
    /\ \E b \in Batches :
          req' = [req EXCEPT ![q].pc = "next", ![q].batch = b]
    /\ UNCHANGED <<table, lock, aws, logged, faults>>

Ready(q) == req[q].pc = "next" /\ More(q) /\ ~req[q].aborted

\* Mutant: the status is read, then saved, as with a plain object store.
DecideOnRead(q) ==
    LET op == Operation(q)
    IN  /\ Ready(q) /\ op \in DOMAIN To
        /\ req' = [req EXCEPT ![q] =
              IF Seen(q, Rec(q)) \in From[op]
              THEN Staging(q, Answered(q, TRUE), To[op]) ELSE Answered(q, FALSE)]
        /\ UNCHANGED <<table, lock, aws, logged, faults>>

\* A decision not allowed from the status it finds is answered so, without waiting
\* for anybody.
Decide(q) ==
    LET r == Rec(q)
        op == Operation(q)
    IN  /\ Ready(q) /\ op \in DOMAIN To
        /\ \/ /\ Seen(q, r) \notin From[op]
              /\ req' = [req EXCEPT ![q] = Answered(q, FALSE)]
              /\ UNCHANGED lock
           \/ /\ Seen(q, r) \in From[op] /\ CanLock(q, r)
              /\ lock' = [lock EXCEPT ![r] = q]
              /\ req' = [req EXCEPT ![q] = Staging(q, Answered(q, TRUE), To[op])]
        /\ UNCHANGED <<table, aws, logged, faults>>

\* The write of _execute_ec2_boto3, before anything is written to the database.
CallAws(q) ==
    /\ Ready(q) /\ Operation(q) = "boto3"
    /\ \E ok \in BOOLEAN :
          /\ req' = [req EXCEPT ![q].pc = "record", ![q].ok = ok]
          /\ aws' = IF ok THEN aws \cup {<<q, Place(q)>>} ELSE aws
    /\ UNCHANGED <<table, lock, logged, faults>>

\* Mutant: only a failure is logged.
RecordFailures(q) ==
    LET ok == req[q].ok
    IN  /\ req[q].pc = "record" /\ CanLock(q, Rec(q))
        /\ lock' = [lock EXCEPT ![Rec(q)] = q]
        /\ req' = [req EXCEPT ![q] =
              Staging(q, [Answered(q, ok) EXCEPT !.rows =
                             IF ok THEN @ ELSE @ \cup {Place(q)}],
                      IF ok THEN "approved" ELSE "pending")]
        /\ UNCHANGED <<table, aws, logged, faults>>

\* Its row in actions_log, and the status, whatever it is now: WHERE id alone.
Record(q) ==
    LET ok == req[q].ok
    IN  /\ req[q].pc = "record" /\ CanLock(q, Rec(q))
        /\ lock' = [lock EXCEPT ![Rec(q)] = q]
        /\ req' = [req EXCEPT ![q] =
              Staging(q, [Answered(q, ok) EXCEPT !.rows = @ \cup {Place(q)}],
                      IF ok THEN "approved" ELSE "pending")]
        /\ UNCHANGED <<table, aws, logged, faults>>

\* A remediator, to its last commit: it refuses, or commits a row and writes.
Remediate(q) ==
    /\ Ready(q) /\ Operation(q) = "remediator"
    /\ \/ /\ req' = [req EXCEPT ![q] = Answered(q, FALSE)]
          /\ UNCHANGED <<aws, logged>>
       \/ /\ req' = [req EXCEPT ![q].pc = "apply"]
          /\ logged' = logged \cup {<<q, Place(q)>>}
          /\ aws' = aws \cup {<<q, Place(q)>>}
    /\ UNCHANGED <<table, lock, faults>>

\* Its last commit: the status, as soon as no transaction holds the row.  An error
\* there is not one of the transaction of the request.
Apply(q) ==
    /\ req[q].pc = "apply"
    /\ \/ /\ lock[Rec(q)] = None
          /\ table' = [table EXCEPT ![Rec(q)] = "applied"]
          /\ req' = [req EXCEPT ![q] = Answered(q, TRUE)]
          /\ UNCHANGED faults
       \/ /\ Fault
          /\ req' = [req EXCEPT ![q] = Answered(q, FALSE)]
          /\ UNCHANGED table
    /\ UNCHANGED <<lock, aws, logged>>

-----------------------------------------------------------------------------
(* Errors.                                                                 *)

Released(q) == [r \in Recs |-> IF lock[r] = q THEN None ELSE lock[r]]

Lost(state) == [state EXCEPT !.staged = Nothing, !.rows = {}]

\* Mutant: the entry is answered before its statement is known to have failed.
AbortsUnseen(q) ==
    /\ req' = [req EXCEPT ![q] = [Lost(Answered(q, TRUE)) EXCEPT !.aborted = TRUE]]
    /\ lock' = Released(q)
    /\ UNCHANGED <<table, aws, logged>>

\* PostgreSQL aborts the transaction: its updates and its locks are gone at once,
\* the entry is answered with the error.
Aborts(q) ==
    /\ req' = [req EXCEPT ![q] = [Lost(Answered(q, FALSE)) EXCEPT !.aborted = TRUE]]
    /\ lock' = Released(q)
    /\ UNCHANGED <<table, aws, logged>>

StatementFails(q) ==
    /\ Ready(q) \/ req[q].pc = "record"
    /\ Fault /\ Aborts(q)

\* The request for whose row the connection of q waits, or None.
WaitsFor(q) ==
    IF /\ \/ req[q].pc = "record"
          \/ /\ Ready(q) /\ Operation(q) \in DOMAIN To
             /\ Seen(q, Rec(q)) \in From[Operation(q)]
       /\ ~CanLock(q, Rec(q))
    THEN lock[Rec(q)] ELSE None

\* PostgreSQL finds the cycles among its own waits, and ends one of their
\* transactions.
Deadlock(q) ==
    /\ \E S \in SUBSET Requests : q \in S /\ S = {WaitsFor(p) : p \in S}
    /\ Aborts(q)
    /\ UNCHANGED faults

\* Every further entry fails before anything is done for it.
FailNext(q) ==
    /\ req[q].pc = "next" /\ More(q) /\ req[q].aborted
    /\ req' = [req EXCEPT ![q] = Answered(q, FALSE)]
    /\ UNCHANGED <<table, lock, aws, logged, faults>>

\* Mutant: a rollback of the error path is taken for the end of the request, and
\* the locks stay with the connection given back to the pool.
CommitKeepsLocks(q) ==
    /\ req[q].pc = "next" /\ ~More(q)
    /\ req' = [req EXCEPT ![q] = [Lost(@) EXCEPT !.pc = "done"]]
    /\ UNCHANGED <<table, lock, aws, logged, faults>>

\* The commit of an aborted transaction is a rollback, and raises nothing: the
\* answers are sent as they are.
Commit(q) ==
    /\ req[q].pc = "next" /\ ~More(q)
    /\ table' = [r \in Recs |-> IF req[q].staged[r] = None THEN table[r]
                                ELSE req[q].staged[r].to]
    /\ logged' = logged \cup {<<q, i>> : i \in req[q].rows}
    /\ lock' = Released(q)
    /\ req' = [req EXCEPT ![q] = [Lost(@) EXCEPT !.pc = "done"]]
    /\ UNCHANGED <<aws, faults>>

\* The connection breaks or the process dies: no answer is sent.
Break(q) ==
    /\ req[q].pc \notin {"idle", "done", "dead"}
    /\ req' = [req EXCEPT ![q] = [Lost(@) EXCEPT !.pc = "dead"]]
    /\ lock' = Released(q)
    /\ Fault
    /\ UNCHANGED <<table, aws, logged>>

Step(q) ==
    \/ Decide(q) \/ CallAws(q) \/ Record(q) \/ Remediate(q) \/ Apply(q)
    \/ Deadlock(q) \/ FailNext(q) \/ Commit(q)

Next == \E q \in Requests : Start(q) \/ Step(q) \/ StatementFails(q) \/ Break(q)

Spec == Init /\ [][Next]_vars

\* The thread of a request goes on, and the server looks for deadlocks.
FairSpec == Spec /\ \A q \in Requests : WF_vars(Step(q))

-----------------------------------------------------------------------------
(* Properties.                                                             *)

RequestStates ==
    [pc : {"idle", "next", "record", "apply", "done", "dead"},
     batch : {None} \cup Batches, answers : Seq(BOOLEAN), aborted : BOOLEAN,
     staged : [Recs -> {None} \cup [from : Statuses, to : Statuses]],
     rows : SUBSET (Nat \ {0}), ok : BOOLEAN]

\* Every variable has its type.
TypeOK ==
    /\ table \in [Recs -> Statuses]
    /\ lock \in [Recs -> {None} \cup Requests]
    /\ req \in [Requests -> RequestStates]
    /\ \A q \in Requests : req[q].pc # "idle" => req[q].batch \in Batches
    /\ logged \subseteq Requests \X (Nat \ {0})
    /\ aws \subseteq Requests \X (Nat \ {0})
    /\ faults \in 0..MaxFaults

\* The status an UPDATE of a request met is still the one of its row when the
\* request commits, however long its list: what the guards of rejections,
\* dismissals, cancellations and restorations looked at holds at their commit.
\* An approval has no guard: Record meets, and replaces, whatever is there when the
\* call of AWS is over, a rejection answered with success meanwhile included.
DecidedOnCurrent ==
    \A q \in Requests, r \in Recs :
        req[q].staged[r] # None => req[q].staged[r].from = table[r]

\* A request whose decisions were rolled back does not look like a full success:
\* at least one of its entries carries the error.
RolledBackIsFlagged ==
    \A q \in Requests :
        (req[q].pc = "done" /\ req[q].aborted) =>
            \E i \in DOMAIN req[q].answers : ~req[q].answers[i]

\* Every write to AWS is in the committed history, unless its request is not over,
\* was aborted by the database, or was never answered.
WritesAreLogged ==
    \A w \in aws :
        \/ w \in logged
        \/ req[w[1]].pc \notin {"done", "dead"}
        \/ req[w[1]].aborted \/ req[w[1]].pc = "dead"

\* The connection of a remediator waits too, for a request that may be its own.
AllWaits(q) == IF req[q].pc = "apply" THEN lock[Rec(q)] ELSE WaitsFor(q)

HiddenDeadlock ==
    \E S \in SUBSET Requests :
        /\ S # {} /\ S = {AllWaits(q) : q \in S}
        /\ \E q \in S : req[q].pc = "apply"

\* Every request ends, deadlocks of the database included; but nobody finds a cycle
\* that goes through a remediator, whose request waits for it outside the database.
EveryRequestEnds ==
    \A q \in Requests :
        req[q].pc # "idle" ~> (req[q].pc \in {"done", "dead"} \/ HiddenDeadlock)
==============================================================================
